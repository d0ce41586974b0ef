--------------------------- MODULE RecvPathProofs ---------------------------
(***************************************************************************)
(* The wire format of pkg/message/wire.go and the receive path of          *)
(* pkg/connection/conn.go, for every batch of messages and for every       *)
(* number of connections, buffers and receive requests.                    *)
(*                                                                         *)
(* First the lemmas about PackBatch and UnpackBatch.  They are recursive   *)
(* functions: what they return is proved by induction on the offset, with  *)
(* the induction principle stated for sets.  Then, for the receive path,   *)
(* the type invariant, the place of every buffer, the WRIDs the handlers   *)
(* know, the depth of the pipelines, and the order of the messages, each   *)
(* from those before it.                                                   *)
(***************************************************************************)
EXTENDS RecvPath, SequenceTheorems, FiniteSetTheorems, WellFoundedInduction,
        TLAPS

(* Induction over the natural numbers, for a set instead of a predicate.    *)
LEMMA SetInduction ==
    ASSUME NEW S, 0 \in S, \A n \in Nat : n \in S => n + 1 \in S
    PROVE  Nat \subseteq S
<1> SUFFICES ASSUME Nat \ S # {}
             PROVE  FALSE
  OBVIOUS
<1> DEFINE R == {ss \in Nat \X Nat : ss[1] < ss[2]}
           T == Nat \ S
<1>1. IsWellFoundedOn(R, Nat)
  BY NatLessThanWellFounded DEF OpToRel
<1>2. T \subseteq Nat /\ T # {}
  OBVIOUS
<1>3. \E x \in T : \A y \in T : ~ (<<y, x>> \in R)
  <2> HIDE DEF R, T
  <2> QED
    BY <1>1, <1>2, WFMin
<1>4. PICK x \in T : \A y \in T : ~ (<<y, x>> \in R)
  BY <1>3
<1>5. x # 0 /\ x \in Nat /\ x \notin S
  OBVIOUS
<1>6. x - 1 \in Nat /\ x - 1 < x /\ x = (x - 1) + 1
  BY <1>5
<1>7. <<x - 1, x>> \in R
  BY <1>5, <1>6
<1>8. x - 1 \in S
  BY <1>4, <1>6, <1>7
<1> QED
  BY <1>5, <1>6, <1>8

(* What follows an offset, given the messages from later offsets on.        *)
Prefixed(message, rests) == {<<message>> \o rest : rest \in rests}
Follows(data, f, offset) ==
          IF offset = Len(data) THEN {<< >>}
          ELSE IF offset + AppHeaderSize > Len(data) THEN {}
          ELSE LET first == offset + AppHeaderSize
                   past == first + data[first]
               IN IF past > Len(data) THEN {}
                  ELSE Prefixed(SubSeq(data, first + 1, past), f[past])

LEMMA FollowsLocal ==
    ASSUME NEW data \in Seq(Nat), NEW f, NEW g, NEW offset \in 0..Len(data),
           \A p \in 0..Len(data) : p > offset => f[p] = g[p]
    PROVE  Follows(data, f, offset) = Follows(data, g, offset)
<1>1. Len(data) \in Nat /\ \A i \in 1..Len(data) : data[i] \in Nat
  BY LenProperties
<1>2. CASE offset = Len(data) \/ offset + AppHeaderSize > Len(data)
  BY <1>1, <1>2 DEF Follows
<1>3. CASE offset # Len(data) /\ ~(offset + AppHeaderSize > Len(data))
  <2> DEFINE first == offset + AppHeaderSize
             past == first + data[first]
  <2>1. first \in 1..Len(data) /\ first > offset
    BY <1>1, <1>3 DEF AppHeaderSize
  <2>2. past \in Nat /\ past > offset
    BY <1>1, <2>1
  <2>3. past <= Len(data) => f[past] = g[past]
    BY <1>1, <2>2
  <2>4. ASSUME NEW h
        PROVE  Follows(data, h, offset) =
                 IF past > Len(data) THEN {}
                 ELSE Prefixed(SubSeq(data, first + 1, past), h[past])
    BY <1>3 DEF Follows
  <2> QED
    <3> HIDE DEF past
    <3> QED
      <4>1. CASE past > Len(data)
        BY <2>4, <4>1
      <4>2. CASE past <= Len(data)
        <5>1. f[past] = g[past]
          BY <2>3, <4>2
        <5> QED
          BY <2>4, <5>1
      <4> QED
        BY <1>1, <2>2, <4>1, <4>2
<1> QED
  BY <1>2, <1>3

LEMMA ParseExists ==
    ASSUME NEW data \in Seq(Nat)
    PROVE  \E f : f = [offset \in 0..Len(data) |-> Follows(data, f, offset)]
<1> DEFINE L == Len(data)
           S == {k \in Nat : k <= L =>
                   \E f : f = [offset \in (L - k)..L |-> Follows(data, f, offset)]}
<1>0. L \in Nat
  BY LenProperties
<1>1. 0 \in S
  <2> DEFINE f == [offset \in L..L |-> {<<>>}]
  <2>1. f = [offset \in (L - 0)..L |-> Follows(data, f, offset)]
    <3>1. \A offset \in L..L : Follows(data, f, offset) = {<<>>}
      BY <1>0 DEF Follows
    <3>2. L - 0 = L
      BY <1>0
    <3> QED
      BY <3>1, <3>2
  <2> QED
    BY <2>1
<1>2. ASSUME NEW n \in Nat, n \in S
      PROVE  n + 1 \in S
  <2> SUFFICES ASSUME n + 1 <= L
               PROVE \E f : f = [offset \in (L - (n + 1))..L |-> Follows(data, f, offset)]
    OBVIOUS
  <2>1. PICK f : f = [offset \in (L - n)..L |-> Follows(data, f, offset)]
    BY <1>0, <1>2
  <2> DEFINE o == L - (n + 1)
             g == [offset \in o..L |-> IF offset = o THEN Follows(data, f, offset) ELSE f[offset]]
  <2>2. o \in 0..L /\ o < L - n /\ \A p \in 0..L : p > o => p \in (L - n)..L
    BY <1>0
  <2>3. \A p \in 0..L : p > o => g[p] = f[p]
    BY <1>0, <2>2
  <2>4. ASSUME NEW offset \in o..L
        PROVE  g[offset] = Follows(data, g, offset)
    <3>1. offset \in 0..L
      BY <1>0, <2>2
    <3>2. \A p \in 0..Len(data) : p > offset => f[p] = g[p]
      BY <1>0, <2>2, <2>3, <3>1
    <3>3. Follows(data, f, offset) = Follows(data, g, offset)
      BY <3>1, <3>2, FollowsLocal
    <3>4. CASE offset = o
      BY <3>3, <3>4
    <3>5. CASE offset # o
      <4>1. offset \in (L - n)..L
        BY <1>0, <2>2, <3>1, <3>5
      <4> QED
        BY <2>1, <3>3, <3>5, <4>1
    <3> QED
      BY <3>4, <3>5
  <2>5. g = [offset \in o..L |-> Follows(data, g, offset)]
    BY <2>4
  <2> QED
    BY <2>5
<1>3. L \in S
  <2> HIDE DEF S
  <2> QED
    BY <1>0, <1>1, <1>2, SetInduction
<1>4. L - L = 0
  BY <1>0
<1> QED
  BY <1>0, <1>3, <1>4

LEMMA ParseEquation ==
    ASSUME NEW data \in Seq(Nat), NEW offset \in 0..Len(data)
    PROVE  MessagesFrom(data)[offset] = Follows(data, MessagesFrom(data), offset)
<1>1. \E f : f = [o \in 0..Len(data) |-> Follows(data, f, o)]
  BY ParseExists
<1>2. MessagesFrom(data) = CHOOSE f : f = [o \in 0..Len(data) |-> Follows(data, f, o)]
  BY DEF MessagesFrom, Follows, Prefixed
<1>3. MessagesFrom(data) = [o \in 0..Len(data) |-> Follows(data, MessagesFrom(data), o)]
  BY <1>1, <1>2
<1> QED
  BY <1>3

LEMMA UnpackIsTyped ==
    ASSUME NEW data \in Seq(Nat)
    PROVE  UnpackBatch(data) \subseteq Seq(Seq(Nat))
<1> DEFINE L == Len(data)
           M == MessagesFrom(data)
           K == {k \in Nat : \A o \in 0..L : o + k >= L => M[o] \subseteq Seq(Seq(Nat))}
<1>0. L \in Nat /\ \A i \in 1..L : data[i] \in Nat
  BY LenProperties
<1>a. M[L] = {<<>>}
  BY <1>0, ParseEquation DEF Follows
<1>1. 0 \in K
  <2>1. << >> \in Seq(Seq(Nat))
    BY EmptySeq
  <2>2. ASSUME NEW o \in 0..L, o + 0 >= L
        PROVE  o = L
    BY <1>0, <2>2
  <2> QED
    BY <1>a, <2>1, <2>2
<1>2. ASSUME NEW n \in Nat, n \in K
      PROVE  n + 1 \in K
  <2> SUFFICES ASSUME NEW o \in 0..L, o + (n + 1) >= L
               PROVE  M[o] \subseteq Seq(Seq(Nat))
    OBVIOUS
  <2>1. M[o] = Follows(data, M, o)
    BY ParseEquation
  <2>2. CASE o = L \/ o + AppHeaderSize > L
    <3>1. M[o] \subseteq {<<>>}
      BY <2>1, <2>2 DEF Follows
    <3> QED
      BY <3>1, EmptySeq
  <2>3. CASE ~(o = L \/ o + AppHeaderSize > L)
    <3> DEFINE first == o + AppHeaderSize
               past == first + data[first]
    <3>1. first \in 1..L /\ first >= o + 2 /\ past \in Nat /\ past >= first
      BY <1>0, <2>3 DEF AppHeaderSize
    <3>2. M[o] = IF past > L THEN {}
                 ELSE Prefixed(SubSeq(data, first + 1, past), M[past])
      BY <2>1, <2>3 DEF Follows
    <3>3. CASE past <= L
      <4>1. M[past] \subseteq Seq(Seq(Nat))
        <5>1. past \in 0..L /\ past + n >= L
          BY <1>0, <3>1, <3>3
        <5> HIDE DEF past, M
        <5> QED
          BY <1>2, <5>1
      <4>2. SubSeq(data, first + 1, past) \in Seq(Nat)
        <5>1. \A i \in first + 1 .. past : data[i] \in Nat
          BY <1>0, <3>1, <3>3
        <5>2. first + 1 \in Int /\ past \in Int
          BY <3>1
        <5> HIDE DEF first, past
        <5> QED
          BY <5>1, <5>2, SubSeqProperties
      <4> HIDE DEF M, first, past
      <4>3. \A rest \in M[past] :
                <<SubSeq(data, first + 1, past)>> \o rest \in Seq(Seq(Nat))
        <5>1. <<SubSeq(data, first + 1, past)>> \in Seq(Seq(Nat))
          BY <4>2
        <5> QED
          BY <4>1, <5>1, ConcatProperties
      <4>4. ~(past > L)
        BY <1>0, <3>1, <3>3
      <4> QED
        BY <3>2, <4>3, <4>4 DEF Prefixed
    <3>4. CASE past > L
      BY <3>2, <3>4
    <3> QED
      BY <1>0, <3>1, <3>3, <3>4
  <2> QED
    BY <2>2, <2>3
<1>3. L \in K
  <2> HIDE DEF K
  <2> QED
    BY <1>0, <1>1, <1>2, SetInduction
<1>4. \A o \in 0..L : M[o] \subseteq Seq(Seq(Nat))
  BY <1>0, <1>3
<1> HIDE DEF M
<1>5. CASE Len(data) >= CmdHeaderSize /\ data[1] = CmdPostSend
  <2>1. CmdHeaderSize \in 0..L
    BY <1>0, <1>5 DEF CmdHeaderSize
  <2>2. UnpackBatch(data) = M[CmdHeaderSize]
    BY <1>5 DEF UnpackBatch, M
  <2> QED
    BY <1>4, <2>1, <2>2
<1>6. CASE ~(Len(data) >= CmdHeaderSize /\ data[1] = CmdPostSend)
  BY <1>6 DEF UnpackBatch
<1> QED
  BY <1>5, <1>6

(* FlattenSeq adds one sequence after the other.                            *)
LEMMA FlattenGrows ==
    ASSUME NEW S, NEW es \in Seq(Seq(S)), Len(es) > 0
    PROVE  \E f \in [1..Len(es) -> Seq(S)] :
              /\ FlattenSeq(es) = f[Len(es)]
              /\ f[1] = es[1]
              /\ \A i \in 2..Len(es) : f[i] = f[i - 1] \o es[i]
<1> DEFINE N == Len(es)
           Step(f, i) == IF i = 1 THEN es[i] ELSE f[i - 1] \o es[i]
           Some(n) == \E f : f = [i \in 1..n |-> Step(f, i)]
           K == {n \in Nat : n < N => Some(n + 1)}
<1>0. N \in Nat /\ N > 0 /\ \A i \in 1..N : es[i] \in Seq(S)
  BY LenProperties
<1>1. 0 \in K
  <2> DEFINE f == [i \in 1..1 |-> es[1]]
  <2>1. f = [i \in 1..1 |-> Step(f, i)]
    OBVIOUS
  <2>2. Some(1)
    BY <2>1
  <2> HIDE DEF Some
  <2> QED
    BY <2>2
<1>2. ASSUME NEW n \in Nat, n \in K
      PROVE  n + 1 \in K
  <2> SUFFICES ASSUME n + 1 < N
               PROVE  Some(n + 1 + 1)
    <3> HIDE DEF Some
    <3> QED
      OBVIOUS
  <2>0. Some(n + 1)
    <3> HIDE DEF Some
    <3> QED
      BY <1>0, <1>2
  <2>1. PICK f : f = [i \in 1..(n + 1) |-> Step(f, i)]
    BY <2>0
  <2> DEFINE g == [i \in 1..(n + 1 + 1) |-> IF i = n + 2 THEN f[n + 1] \o es[n + 2] ELSE f[i]]
  <2>2. ASSUME NEW i \in 1..(n + 1 + 1)
        PROVE  g[i] = Step(g, i)
    <3>1. CASE i = 1
      BY <2>1, <3>1
    <3>2. CASE i = n + 2
      <4>1. n + 1 \in 1..(n + 1 + 1) /\ n + 1 # n + 2 /\ i - 1 = n + 1 /\ i # 1
        BY <3>2
      <4>2. g[n + 1] = f[n + 1]
        BY <4>1
      <4> QED
        BY <3>2, <4>1, <4>2
    <3>3. CASE i # 1 /\ i # n + 2
      <4>1. i \in 1..(n + 1) /\ i - 1 \in 1..(n + 1 + 1) /\ i - 1 # n + 2
        BY <3>3
      <4>2. f[i] = f[i - 1] \o es[i]
        BY <2>1, <3>3, <4>1
      <4>3. g[i - 1] = f[i - 1] /\ g[i] = f[i]
        BY <3>3, <4>1
      <4> QED
        BY <3>3, <4>2, <4>3
    <3> QED
      BY <3>1, <3>2, <3>3
  <2>3. g = [i \in 1..(n + 1 + 1) |-> Step(g, i)]
    BY <2>2
  <2> QED
    BY <2>3
<1>3. N - 1 \in K
  <2>1. N - 1 \in Nat
    BY <1>0
  <2> HIDE DEF K
  <2> QED
    BY <1>1, <1>2, <2>1, SetInduction
<1>4. Some(N)
  <2>1. N - 1 + 1 = N /\ N - 1 < N
    BY <1>0
  <2> HIDE DEF Some
  <2> QED
    BY <1>3, <2>1
<1> DEFINE F == CHOOSE f : f = [i \in 1..N |-> Step(f, i)]
<1>5. F = [i \in 1..N |-> Step(F, i)]
  <2> HIDE DEF Step
  <2> QED
    BY <1>4
<1>6. FlattenSeq(es) = F[N]
  BY <1>0 DEF FlattenSeq
<1> HIDE DEF F
<1>7. F[1] = es[1] /\ \A i \in 2..N : F[i] = F[i - 1] \o es[i]
  <2> SUFFICES ASSUME NEW i \in 1..N
               PROVE  F[i] = IF i = 1 THEN es[i] ELSE F[i - 1] \o es[i]
    <3>1. 1 \in 1..N /\ \A i \in 2..N : i \in 1..N /\ i # 1
      BY <1>0
    <3> QED
      BY <3>1
  <2> QED
    BY <1>5
<1>8. \A i \in 1..N : F[i] \in Seq(S)
  <2> DEFINE I == {n \in Nat : n < N => F[n + 1] \in Seq(S)}
  <2>1. 0 \in I
    BY <1>0, <1>7
  <2>a. ASSUME NEW k \in 2..N, F[k - 1] \in Seq(S)
        PROVE  F[k] \in Seq(S)
    <3>1. F[k] = F[k - 1] \o es[k]
      BY <1>7
    <3>2. es[k] \in Seq(S)
      BY <1>0
    <3> QED
      BY <2>a, <3>1, <3>2, ConcatProperties
  <2>2. ASSUME NEW n \in Nat, n \in I
        PROVE  n + 1 \in I
    <3> SUFFICES ASSUME n + 1 < N
                 PROVE  F[n + 1 + 1] \in Seq(S)
      OBVIOUS
    <3> DEFINE k == n + 1 + 1
    <3>1. k \in 2..N /\ k - 1 = n + 1 /\ n < N
      BY <1>0
    <3>2. F[n + 1] \in Seq(S)
      BY <2>2, <3>1
    <3> HIDE DEF k
    <3>3. F[k] \in Seq(S)
      BY <2>a, <3>1, <3>2
    <3> QED
      BY <3>3 DEF k
  <2>3. Nat \subseteq I
    <3> HIDE DEF I
    <3> QED
      BY <2>1, <2>2, SetInduction
  <2>4. ASSUME NEW i \in 1..N
        PROVE  F[i] \in Seq(S)
    <3>1. i - 1 \in Nat /\ i - 1 < N /\ i - 1 + 1 = i
      BY <1>0
    <3> QED
      BY <2>3, <3>1
  <2> QED
    BY <2>4
<1>9. F \in [1..N -> Seq(S)]
  BY <1>5, <1>8
<1> QED
  BY <1>6, <1>7, <1>9

(* A message with its header, and the prefixes of a batch.                  *)
Framed(m) == EncodeAppHeader(Len(m)) \o m
PrefixesOf(p, ms) ==
    /\ p \in [0..Len(ms) -> Seq(Nat)]
    /\ p[0] = EncodeCmdHeader(CmdPostSend)
    /\ \A i \in 1..Len(ms) : p[i] = p[i - 1] \o Framed(ms[i])

LEMMA FramedShape ==
    ASSUME NEW m \in Seq(Nat)
    PROVE  /\ Framed(m) \in Seq(Nat)
           /\ Len(Framed(m)) = Len(m) + 2
           /\ Framed(m)[2] = Len(m)
           /\ \A i \in 1..Len(m) : Framed(m)[i + 2] = m[i]
<1> DEFINE h == EncodeAppHeader(Len(m))
<1>1. Len(m) \in Nat
  BY LenProperties
<1>2. h \in Seq(Nat) /\ Len(h) = 2 /\ h[2] = Len(m)
  BY <1>1 DEF EncodeAppHeader, Now
<1> HIDE DEF h
<1>3. /\ h \o m \in Seq(Nat)
      /\ Len(h \o m) = Len(h) + Len(m)
      /\ \A i \in 1 .. Len(h) + Len(m) : (h \o m)[i] =
                     IF i <= Len(h) THEN h[i] ELSE m[i - Len(h)]
  BY <1>2, ConcatProperties
<1>4. Framed(m) = h \o m
  BY DEF Framed, h
<1>5. Framed(m)[2] = Len(m)
  BY <1>1, <1>2, <1>3, <1>4
<1>6. ASSUME NEW i \in 1..Len(m)
      PROVE  Framed(m)[i + 2] = m[i]
  <2>1. i + 2 \in 1..(Len(h) + Len(m)) /\ ~(i + 2 <= Len(h)) /\ i + 2 - Len(h) = i
    BY <1>1, <1>2
  <2> QED
    BY <1>3, <1>4, <2>1
<1> QED
  BY <1>1, <1>2, <1>3, <1>4, <1>5, <1>6

LEMMA FunctionIsSeq ==
    ASSUME NEW S, NEW n \in Nat, NEW f \in [1..n -> S]
    PROVE  f \in Seq(S) /\ Len(f) = n
<1>1. f \in Seq(S)
  BY SeqDef
<1> QED
  BY <1>1, LenProperties

LEMMA PackBatchPrefixes ==
    ASSUME NEW ms \in Seq(Seq(Nat))
    PROVE  \E p : PrefixesOf(p, ms) /\ PackBatch(ms) = p[Len(ms)]
<1> DEFINE N == Len(ms)
           es == [i \in DOMAIN ms |-> EncodeAppHeader(Len(ms[i])) \o ms[i]]
           h == EncodeCmdHeader(CmdPostSend)
<1>0. N \in Nat /\ DOMAIN ms = 1..N /\ \A i \in 1..N : ms[i] \in Seq(Nat)
  BY LenProperties
<1>1. h \in Seq(Nat)
  BY DEF EncodeCmdHeader, CmdPostSend, Reserved
<1>2. \A i \in 1..N : es[i] = Framed(ms[i]) /\ es[i] \in Seq(Nat)
  BY <1>0, FramedShape DEF Framed
<1>3. es \in Seq(Seq(Nat)) /\ Len(es) = N
  <2>1. es \in [1..N -> Seq(Nat)]
    BY <1>0, <1>2
  <2> HIDE DEF es
  <2> QED
    BY <1>0, <2>1, FunctionIsSeq
<1>4. PackBatch(ms) = h \o FlattenSeq(es)
  BY DEF PackBatch
<1> HIDE DEF es, h
<1>5. CASE N = 0
  <2> DEFINE p == [i \in 0..0 |-> h]
  <2>1. es = << >>
    BY <1>3, <1>5, EmptySeq
  <2>2. FlattenSeq(es) = << >>
    BY <2>1, <1>3, <1>5 DEF FlattenSeq
  <2>3. PackBatch(ms) = h
    BY <1>1, <1>4, <2>2, ConcatEmptySeq
  <2>4. PrefixesOf(p, ms)
    BY <1>1, <1>5 DEF PrefixesOf, h
  <2>5. p[N] = h
    BY <1>5
  <2> QED
    BY <2>3, <2>4, <2>5
<1>6. CASE N > 0
  <2>1. PICK f \in [1..N -> Seq(Nat)] :
              /\ FlattenSeq(es) = f[N]
              /\ f[1] = es[1]
              /\ \A i \in 2..N : f[i] = f[i - 1] \o es[i]
    <3>1. \E f \in [1..Len(es) -> Seq(Nat)] :
              /\ FlattenSeq(es) = f[Len(es)]
              /\ f[1] = es[1]
              /\ \A i \in 2..Len(es) : f[i] = f[i - 1] \o es[i]
      BY <1>3, <1>6, FlattenGrows
    <3> QED
      BY <1>3, <3>1
  <2> DEFINE p == [i \in 0..N |-> IF i = 0 THEN h ELSE h \o f[i]]
  <2>2. p \in [0..N -> Seq(Nat)]
    <3>1. ASSUME NEW i \in 0..N
          PROVE  (IF i = 0 THEN h ELSE h \o f[i]) \in Seq(Nat)
      <4>1. CASE i = 0
        BY <1>1, <4>1
      <4>2. CASE i # 0
        <5>1. i \in 1..N
          BY <1>0, <4>2
        <5>2. f[i] \in Seq(Nat)
          BY <5>1
        <5> QED
          BY <1>1, <4>2, <5>2, ConcatProperties
      <4> QED
        BY <4>1, <4>2
    <3> QED
      BY <3>1
  <2>3. ASSUME NEW i \in 1..N
        PROVE  p[i] = p[i - 1] \o Framed(ms[i])
    <3>1. p[i] = h \o f[i]
      BY <1>0
    <3>2. CASE i = 1
      <4>1. p[i - 1] = h
        BY <1>0, <3>2
      <4> QED
        BY <1>2, <2>1, <3>1, <3>2, <4>1
    <3>3. CASE i # 1
      <4>1. i - 1 \in 1..N /\ i - 1 # 0 /\ i - 1 \in 0..N /\ i \in 2..N
        BY <1>0, <3>3
      <4>2. p[i - 1] = h \o f[i - 1]
        BY <4>1
      <4>3. f[i] = f[i - 1] \o es[i]
        BY <2>1, <4>1
      <4>4. f[i - 1] \in Seq(Nat) /\ es[i] \in Seq(Nat) /\ es[i] = Framed(ms[i])
        BY <1>2, <4>1
      <4>5. h \o (f[i - 1] \o es[i]) = (h \o f[i - 1]) \o es[i]
        <5> DEFINE a == f[i - 1]
                   b == es[i]
                   T == Nat
        <5>1. h \in Seq(T) /\ a \in Seq(T) /\ b \in Seq(T)
          BY <1>1, <4>4
        <5> HIDE DEF a, b, T
        <5>3. (h \o a) \o b = h \o (a \o b)
          BY <5>1, ConcatAssociative
        <5> QED
          BY <5>3 DEF a, b
      <4> QED
        BY <3>1, <4>2, <4>3, <4>4, <4>5
    <3> QED
      BY <3>2, <3>3
  <2>4. p[0] = h /\ p[N] = h \o f[N]
    BY <1>0, <1>6
  <2>5. PrefixesOf(p, ms)
    <3> HIDE DEF p
    <3> QED
      BY <2>2, <2>3, <2>4 DEF PrefixesOf, h
  <2> QED
    BY <1>4, <2>1, <2>4, <2>5
<1> QED
  BY <1>0, <1>5, <1>6

(* Each prefix of a batch is one, and the next message starts at its end.   *)
LEMMA PrefixOfBatch ==
    ASSUME NEW ms \in Seq(Seq(Nat)), NEW p, PrefixesOf(p, ms),
           NEW i \in 0..Len(ms)
    PROVE  /\ Len(p[i]) \in CmdHeaderSize..Len(p[Len(ms)])
           /\ \A j \in 1..Len(p[i]) : p[Len(ms)][j] = p[i][j]
<1> DEFINE N == Len(ms)
           Within(a, b) == /\ Len(a) <= Len(b)
                           /\ \A j \in 1..Len(a) : b[j] = a[j]
           K == {n \in Nat : n <= N => /\ Within(p[N - n], p[N])
                                       /\ Len(p[n]) >= CmdHeaderSize}
<1>0. N \in Nat /\ \A k \in 1..N : ms[k] \in Seq(Nat)
  BY LenProperties
<1>1. \A k \in 0..N : p[k] \in Seq(Nat) /\ Len(p[k]) \in Nat
  BY LenProperties DEF PrefixesOf
<1>2. ASSUME NEW k \in 1..N
      PROVE  Within(p[k - 1], p[k])
  <2> DEFINE fr == Framed(ms[k])
  <2>1. fr \in Seq(Nat) /\ Len(fr) \in Nat
    BY <1>0, FramedShape, LenProperties
  <2>2. p[k] = p[k - 1] \o fr
    BY DEF PrefixesOf
  <2>3. p[k - 1] \in Seq(Nat) /\ Len(p[k - 1]) \in Nat
    BY <1>0, <1>1
  <2> HIDE DEF fr
  <2> QED
    BY <2>1, <2>2, <2>3, ConcatProperties
<1>3. 0 \in K
  <2>1. Within(p[N - 0], p[N])
    BY <1>0, <1>1
  <2>2. Len(p[0]) >= CmdHeaderSize
    BY DEF PrefixesOf, EncodeCmdHeader, CmdHeaderSize
  <2> HIDE DEF Within
  <2> QED
    BY <2>1, <2>2
<1>4. ASSUME NEW n \in Nat, n \in K
      PROVE  n + 1 \in K
  <2> SUFFICES ASSUME n + 1 <= N
               PROVE  /\ Within(p[N - (n + 1)], p[N])
                      /\ Len(p[n + 1]) >= CmdHeaderSize
    OBVIOUS
  <2>1. Within(p[N - n], p[N]) /\ Len(p[n]) >= CmdHeaderSize
    <3> HIDE DEF Within
    <3> QED
      BY <1>0, <1>4
  <2>2. Within(p[N - (n + 1)], p[N - n])
    <3>1. N - n \in 1..N /\ N - n - 1 = N - (n + 1)
      BY <1>0
    <3>2. Within(p[(N - n) - 1], p[N - n])
      BY <1>2, <3>1
    <3> HIDE DEF Within
    <3> QED
      BY <3>1, <3>2
  <2>3. Within(p[N - (n + 1)], p[N])
    <3>1. N - n \in 0..N /\ N - (n + 1) \in 0..N
      BY <1>0
    <3> DEFINE a == p[N - (n + 1)]
               b == p[N - n]
    <3>2. Len(a) \in Nat /\ Len(b) \in Nat /\ Len(p[N]) \in Nat
      BY <1>0, <1>1, <3>1
    <3>3. Within(a, b) /\ Within(b, p[N])
      BY <2>1, <2>2
    <3> HIDE DEF a, b
    <3>4. Within(a, p[N])
      BY <3>2, <3>3
    <3> QED
      BY <3>4 DEF a
  <2>4. Len(p[n + 1]) >= CmdHeaderSize
    <3>1. n + 1 \in 1..N /\ (n + 1) - 1 = n /\ n \in 0..N /\ n + 1 \in 0..N
      BY <1>0
    <3>2. Within(p[(n + 1) - 1], p[n + 1])
      BY <1>2, <3>1
    <3>3. Len(p[n]) <= Len(p[n + 1])
      BY <3>1, <3>2
    <3> QED
      BY <1>1, <2>1, <3>1, <3>3 DEF CmdHeaderSize
  <2> QED
    BY <2>3, <2>4
<1>5. Nat \subseteq K
  <2> HIDE DEF K
  <2> QED
    BY <1>3, <1>4, SetInduction
<1>6. N - i \in Nat /\ N - i <= N /\ N - (N - i) = i /\ i \in Nat /\ i <= N
  BY <1>0
<1>7. Within(p[i], p[N]) /\ Len(p[i]) >= CmdHeaderSize
  <2> HIDE DEF Within
  <2>1. N - i \in K /\ i \in K
    BY <1>5, <1>6
  <2>2. Within(p[N - (N - i)], p[N]) /\ Len(p[i]) >= CmdHeaderSize
    BY <2>1, <1>6
  <2> QED
    BY <1>6, <2>2
<1>8. N \in 0..N
  BY <1>0
<1> QED
  BY <1>0, <1>1, <1>7, <1>8 DEF CmdHeaderSize
LEMMA PackIsTyped ==
    ASSUME NEW ms \in Seq(Seq(Nat))
    PROVE  PackBatch(ms) \in Seq(Nat) /\ Len(PackBatch(ms)) >= CmdHeaderSize
<1>1. PICK p : PrefixesOf(p, ms) /\ PackBatch(ms) = p[Len(ms)]
  BY PackBatchPrefixes
<1>2. Len(ms) \in Nat /\ Len(ms) \in 0..Len(ms)
  BY LenProperties
<1>3. p[Len(ms)] \in Seq(Nat)
  BY <1>1, <1>2 DEF PrefixesOf
<1>4. Len(p[Len(ms)]) \in CmdHeaderSize..Len(p[Len(ms)])
  BY <1>1, <1>2, PrefixOfBatch
<1> QED
  BY <1>1, <1>3, <1>4, LenProperties DEF CmdHeaderSize

(* What the header of each message in a batch says, and where the message   *)
(* ends.                                                                    *)
MessageAt(ms, p, i) ==
    /\ Len(p[i - 1]) \in Nat /\ Len(p[i - 1]) >= CmdHeaderSize
    /\ Len(ms[i]) \in Nat /\ ms[i] \in Seq(Nat)
    /\ Len(p[i]) = Len(p[i - 1]) + 2 + Len(ms[i])
    /\ Len(p[Len(ms)]) \in Nat /\ Len(p[i]) <= Len(p[Len(ms)])
    /\ p[Len(ms)][Len(p[i - 1]) + 2] = Len(ms[i])
    /\ \A j \in 1..Len(ms[i]) :
         p[Len(ms)][Len(p[i - 1]) + 2 + j] = ms[i][j]

LEMMA MessageInBatch ==
    ASSUME NEW ms \in Seq(Seq(Nat)), NEW p, PrefixesOf(p, ms),
           NEW i \in 1..Len(ms)
    PROVE  MessageAt(ms, p, i)
<1> DEFINE N == Len(ms)
           data == p[N]
           start == p[i - 1]
           fr == Framed(ms[i])
<1>0. N \in Nat /\ i \in 0..N /\ i - 1 \in 0..N
  BY LenProperties
<1>1. ms[i] \in Seq(Nat) /\ Len(ms[i]) \in Nat
  BY LenProperties
<1>2. /\ fr \in Seq(Nat) /\ Len(fr) = Len(ms[i]) + 2 /\ fr[2] = Len(ms[i])
      /\ \A j \in 1..Len(ms[i]) : fr[j + 2] = ms[i][j]
  BY <1>1, FramedShape
<1>3. p[i] = start \o fr
  BY DEF PrefixesOf
<1>4. start \in Seq(Nat) /\ Len(start) \in Nat
  BY <1>0, LenProperties DEF PrefixesOf
<1>5. Len(start) >= CmdHeaderSize
  BY <1>0, <1>4, PrefixOfBatch DEF CmdHeaderSize
<1>6. Len(p[i]) \in CmdHeaderSize..Len(data) /\ \A j \in 1..Len(p[i]) : data[j] = p[i][j]
  BY <1>0, PrefixOfBatch
<1>7. Len(data) \in Nat
  BY <1>0, LenProperties DEF PrefixesOf
<1> HIDE DEF start, fr, data, N
<1>8. /\ Len(p[i]) = Len(start) + Len(fr)
      /\ \A j \in 1..Len(start) + Len(fr) :
            p[i][j] = IF j <= Len(start) THEN start[j] ELSE fr[j - Len(start)]
  <2>1. start \in Seq(Nat) /\ fr \in Seq(Nat)
    BY <1>2, <1>4
  <2> QED
    BY <1>3, <2>1, ConcatProperties
<1>9. ASSUME NEW k \in 1..Len(fr)
      PROVE  data[Len(start) + k] = fr[k]
  <2>1. Len(fr) \in Nat
    BY <1>1, <1>2
  <2>2. /\ Len(start) + k \in 1..Len(p[i])
        /\ ~(Len(start) + k <= Len(start))
        /\ (Len(start) + k) - Len(start) = k
    BY <1>4, <1>8, <2>1
  <2>3. p[i][Len(start) + k] = fr[k]
    BY <1>8, <2>2
  <2> QED
    BY <1>6, <2>2, <2>3
<1>10. data[Len(start) + 2] = Len(ms[i])
  <2>1. 2 \in 1..Len(fr)
    BY <1>1, <1>2
  <2> QED
    BY <1>2, <1>9, <2>1
<1>11. ASSUME NEW j \in 1..Len(ms[i])
       PROVE  data[Len(start) + 2 + j] = ms[i][j]
  <2>a. Len(ms[i]) \in Nat /\ Len(fr) = Len(ms[i]) + 2 /\ Len(start) \in Nat
    BY <1>1, <1>2, <1>4
  <2>1. j + 2 \in 1..Len(fr) /\ Len(start) + (j + 2) = Len(start) + 2 + j
    BY <2>a
  <2>2. data[Len(start) + (j + 2)] = fr[j + 2]
    BY <1>9, <2>1
  <2> QED
    BY <1>2, <2>1, <2>2
<1>12. Len(p[i]) = Len(start) + 2 + Len(ms[i]) /\ Len(p[i]) <= Len(data)
  <2>1. Len(ms[i]) \in Nat /\ Len(fr) = Len(ms[i]) + 2 /\ Len(start) \in Nat
    BY <1>1, <1>2, <1>4
  <2>2. Len(p[i]) \in CmdHeaderSize..Len(data) /\ Len(p[i]) = Len(start) + Len(fr)
    BY <1>6, <1>8
  <2>3. Len(p[i]) <= Len(data)
    BY <1>7, <2>2 DEF CmdHeaderSize
  <2>4. Len(p[i]) = Len(start) + 2 + Len(ms[i])
    <3> DEFINE l == Len(ms[i])
    <3>1. l \in Nat /\ Len(fr) = l + 2 /\ Len(start) \in Nat
      BY <2>1
    <3> HIDE DEF l
    <3>2. Len(start) + Len(fr) = Len(start) + 2 + l
      BY <3>1
    <3> QED
      BY <2>2, <3>2 DEF l
  <2> QED
    BY <2>3, <2>4
<1> QED
  BY <1>1, <1>4, <1>5, <1>7, <1>10, <1>11, <1>12 DEF MessageAt, start, data, N

(* One step of unpacking, where a whole message follows.                    *)
LEMMA FollowsMessage ==
    ASSUME NEW data \in Seq(Nat), NEW f, NEW o \in Nat, NEW m \in Seq(Nat),
           o + 2 + Len(m) <= Len(data),
           data[o + 2] = Len(m),
           \A j \in 1..Len(m) : data[o + 2 + j] = m[j]
    PROVE  Follows(data, f, o) = Prefixed(m, f[o + 2 + Len(m)])
<1> DEFINE past == o + 2 + Len(m)
           c == SubSeq(data, o + 2 + 1, past)
<1>1. Len(m) \in Nat /\ Len(data) \in Nat /\ \A i \in 1..Len(data) : data[i] \in Nat
  BY LenProperties
<1>2. o # Len(data) /\ ~(o + 2 > Len(data)) /\ ~(past > Len(data))
  BY <1>1
<1>3. Follows(data, f, o) = Prefixed(c, f[past])
  BY <1>2 DEF Follows, AppHeaderSize
<1>4. o + 2 + 1 \in Int /\ past \in Int /\ past - (o + 2 + 1) + 1 = Len(m)
      /\ \A i \in o + 2 + 1 .. past : i \in 1..Len(data)
  BY <1>1
<1> HIDE DEF past
<1>5. c \in Seq(Nat)
  <2>1. \A i \in o + 2 + 1 .. past : data[i] \in Nat
    BY <1>1, <1>4
  <2> QED
    BY <1>4, <2>1, SubSeqProperties
<1>6. /\ Len(c) = IF o + 2 + 1 <= past THEN past - (o + 2 + 1) + 1 ELSE 0
      /\ \A i \in 1..past - (o + 2 + 1) + 1 : c[i] = data[(o + 2 + 1) + i - 1]
  <2>1. \A i \in o + 2 + 1 .. past : data[i] \in Nat
    BY <1>1, <1>4
  <2> QED
    BY <1>4, <2>1, SubSeqProperties
<1> HIDE DEF c
<1>7. Len(c) = Len(m)
  <2>1. past = o + 2 + Len(m)
    BY DEF past
  <2> QED
    BY <1>1, <1>6, <2>1
<1>8. ASSUME NEW i \in 1..Len(c)
      PROVE  c[i] = m[i]
  <2>1. i \in 1..past - (o + 2 + 1) + 1 /\ (o + 2 + 1) + i - 1 = o + 2 + i
    BY <1>1, <1>4, <1>7
  <2>2. c[i] = data[(o + 2 + 1) + i - 1]
    BY <1>6, <2>1
  <2> QED
    BY <1>7, <2>1, <2>2
<1>9. c = m
  BY <1>5, <1>7, <1>8, SeqEqual
<1> QED
  BY <1>3, <1>9 DEF past

(* Unpacking a packed batch gives the messages of the batch, whatever their *)
(* number and their lengths: the header of each one says where the next one *)
(* starts, and the last one ends where the buffer does.                     *)
THEOREM UnpackUndoesPack ==
    ASSUME NEW ms \in Seq(Seq(Nat))
    PROVE  UnpackBatch(PackBatch(ms)) = {ms}
<1> DEFINE N == Len(ms)
           data == PackBatch(ms)
           M == MessagesFrom(data)
<1>1. PICK p : PrefixesOf(p, ms) /\ data = p[N]
  BY PackBatchPrefixes
<1>2. N \in Nat /\ data \in Seq(Nat) /\ Len(data) \in Nat /\ Len(data) >= CmdHeaderSize
  BY PackIsTyped, LenProperties
<1> DEFINE From(i) == M[Len(p[i])] = {SubSeq(ms, i + 1, N)}
           K == {k \in Nat : k <= N => From(N - k)}
<1> HIDE DEF data
<1>3. 0 \in K
  <2>1. M[Len(data)] = {<<>>}
    BY <1>2, ParseEquation DEF Follows
  <2>2. SubSeq(ms, N + 1, N) = << >>
    BY <1>2, SubSeqEmpty
  <2>3. From(N)
    <3> HIDE DEF M
    <3> QED
      BY <1>1, <2>1, <2>2
  <2>4. N - 0 = N
    BY <1>2
  <2> HIDE DEF From
  <2> QED
    BY <2>3, <2>4
<1>4. ASSUME NEW n \in Nat, n \in K
      PROVE  n + 1 \in K
  <2> SUFFICES ASSUME n + 1 <= N
               PROVE  From(N - (n + 1))
    <3> HIDE DEF From
    <3> QED
      OBVIOUS
  <2> DEFINE i == N - n
  <2>1. i \in 1..N /\ i - 1 = N - (n + 1) /\ n <= N
    BY <1>2
  <2>2. From(i)
    <3> HIDE DEF From
    <3> QED
      BY <1>4, <2>1
  <2> HIDE DEF i
  <2> DEFINE o == Len(p[i - 1])
             m == ms[i]
             past == o + 2 + Len(m)
  <2>3. /\ o \in Nat
        /\ Len(m) \in Nat /\ m \in Seq(Nat)
        /\ Len(p[i]) = past
        /\ Len(p[i]) <= Len(data)
        /\ data[o + 2] = Len(m)
        /\ \A j \in 1..Len(m) : data[o + 2 + j] = m[j]
    <3>1. MessageAt(ms, p, i)
      BY <1>1, <2>1, MessageInBatch
    <3> QED
      BY <1>1, <3>1 DEF MessageAt
  <2>4. past = Len(p[i]) /\ past <= Len(data)
    BY <2>3
  <2>5. o \in 0..Len(data)
    <3> HIDE DEF o, m
    <3> QED
      BY <1>2, <2>3, <2>4
  <2>6. M[o] = Follows(data, M, o)
    BY <1>2, <2>5, ParseEquation
  <2>7. M[o] = Prefixed(m, M[past])
    <3> HIDE DEF o, m, M
    <3> QED
      BY <1>2, <2>3, <2>4, <2>6, FollowsMessage
  <2>8. M[past] = {SubSeq(ms, i + 1, N)}
    BY <2>2, <2>4
  <2>9. <<m>> \o SubSeq(ms, i + 1, N) = SubSeq(ms, i, N)
    <3>1. i \in 1..Len(ms) /\ N \in i..Len(ms)
      BY <1>2, <2>1
    <3> QED
      BY <3>1, SubSeqRecursiveFirst
  <2>10. M[o] = {SubSeq(ms, i, N)}
    <3>1. M[o] = Prefixed(m, {SubSeq(ms, i + 1, N)})
      BY <2>7, <2>8
    <3> HIDE DEF M, o
    <3> QED
      BY <2>9, <3>1 DEF Prefixed
  <2>11. (i - 1) + 1 = i
    BY <2>1
  <2> HIDE DEF M
  <2>12. From(i - 1)
    BY <2>10, <2>11
  <2> HIDE DEF From
  <2> QED
    BY <2>1, <2>12
<1>5. From(0)
  <2> HIDE DEF From
  <2>1. N \in K
    <3> HIDE DEF K
    <3> QED
      BY <1>2, <1>3, <1>4, SetInduction
  <2>2. N - N = 0
    BY <1>2
  <2> QED
    BY <1>2, <2>1, <2>2
<1>6. Len(p[0]) = CmdHeaderSize /\ p[0][1] = CmdPostSend
  BY <1>1 DEF PrefixesOf, EncodeCmdHeader, CmdHeaderSize
<1>7. data[1] = CmdPostSend
  <2>1. 0 \in 0..N
    BY <1>2
  <2> QED
    <3>1. \A j \in 1..Len(p[0]) : p[N][j] = p[0][j]
      BY <1>1, <2>1, PrefixOfBatch
    <3>2. 1 \in 1..Len(p[0])
      BY <1>6 DEF CmdHeaderSize
    <3> QED
      BY <1>1, <1>6, <3>1, <3>2
<1>8. SubSeq(ms, 0 + 1, N) = ms
  BY SubSeqFull
<1>9. M[CmdHeaderSize] = {ms}
  <2> HIDE DEF M
  <2> QED
    BY <1>5, <1>6, <1>8
<1> QED
  BY <1>2, <1>7, <1>9 DEF UnpackBatch, data

(* A batch without its last cell yields no message, not even those that are *)
(* complete: its last header or payload runs past the end.                  *)
THEOREM CutBatchIsSpoilt ==
    ASSUME NEW ms \in Seq(Seq(Nat))
    PROVE  UnpackBatch(Front(PackBatch(ms))) = {}
<1> DEFINE N == Len(ms)
           whole == PackBatch(ms)
           data == Front(whole)
           M == MessagesFrom(data)
<1>1. PICK p : PrefixesOf(p, ms) /\ whole = p[N]
  BY PackBatchPrefixes
<1>2. N \in Nat /\ whole \in Seq(Nat) /\ Len(whole) \in Nat /\ Len(whole) >= 2
  BY PackIsTyped, LenProperties DEF CmdHeaderSize
<1>3. /\ data \in Seq(Nat) /\ Len(data) = Len(whole) - 1 /\ Len(data) \in Nat
      /\ \A i \in 1..Len(data) : data[i] = whole[i]
  <2> HIDE DEF whole
  <2>1. /\ SubSeq(whole, 1, Len(whole) - 1) \in Seq(Nat)
        /\ Len(SubSeq(whole, 1, Len(whole) - 1)) =
                IF 1 <= Len(whole) - 1 THEN Len(whole) - 1 - 1 + 1 ELSE 0
        /\ \A i \in 1 .. Len(whole) - 1 - 1 + 1 :
                SubSeq(whole, 1, Len(whole) - 1)[i] = whole[1 + i - 1]
    <3>1. \A i \in 1 .. Len(whole) - 1 : whole[i] \in Nat
      BY <1>2, LenProperties
    <3>2. 1 \in Int /\ Len(whole) - 1 \in Int
      BY <1>2
    <3> QED
      BY <3>1, <3>2, SubSeqProperties
  <2>2. data = SubSeq(whole, 1, Len(whole) - 1)
    BY DEF Front
  <2>3. 1 <= Len(whole) - 1 /\ Len(whole) - 1 - 1 + 1 = Len(whole) - 1
        /\ Len(whole) - 1 \in Nat /\ \A i \in 1..Len(whole) - 1 : 1 + i - 1 = i
    BY <1>2
  <2> QED
    BY <2>1, <2>2, <2>3
<1> HIDE DEF whole, data
<1>4. CASE N = 0
  <2>1. Len(whole) = 2
    BY <1>1, <1>4 DEF PrefixesOf, EncodeCmdHeader
  <2>2. ~(Len(data) >= CmdHeaderSize)
    BY <1>3, <2>1 DEF CmdHeaderSize
  <2> QED
    BY <2>2 DEF UnpackBatch, whole, data
<1>5. CASE N > 0
  <2> DEFINE K == {k \in Nat : k < N => M[Len(p[N - 1 - k])] = {}}
  <2>1. 0 \in K
    <3> DEFINE o == Len(p[N - 1])
               m == ms[N]
    <3>1. /\ o \in Nat /\ Len(m) \in Nat
          /\ Len(p[N]) = o + 2 + Len(m)
          /\ p[N][o + 2] = Len(m)
      <4>1. N \in 1..Len(ms)
        BY <1>2, <1>5
      <4> QED
        <5>1. MessageAt(ms, p, N)
          BY <1>1, <4>1, MessageInBatch
        <5> QED
          BY <5>1 DEF MessageAt
    <3> HIDE DEF o, m
    <3>2. Len(whole) = o + 2 + Len(m) /\ whole[o + 2] = Len(m)
      BY <1>1, <3>1
    <3>3. o \in 0..Len(data) /\ o # Len(data)
      BY <1>3, <3>1, <3>2
    <3>4. M[o] = Follows(data, M, o)
      BY <1>3, <3>3, ParseEquation
    <3>5. ASSUME Len(m) = 0 PROVE M[o] = {}
      <4>1. o + 2 > Len(data)
        BY <1>3, <3>1, <3>2, <3>5
      <4> QED
        BY <3>3, <3>4, <4>1 DEF Follows, AppHeaderSize
    <3>6. ASSUME Len(m) > 0 PROVE M[o] = {}
      <4>1. o + 2 \in 1..Len(data) /\ ~(o + 2 > Len(data))
        BY <1>3, <3>1, <3>2, <3>6
      <4>2. data[o + 2] = Len(m)
        BY <1>3, <3>2, <4>1
      <4>3. o + 2 + Len(m) > Len(data)
        BY <1>3, <3>1, <3>2
      <4> QED
        BY <3>3, <3>4, <4>1, <4>2, <4>3 DEF Follows, AppHeaderSize
    <3>7. M[o] = {}
      BY <3>1, <3>5, <3>6
    <3>8. N - 1 - 0 = N - 1
      BY <1>2
    <3> HIDE DEF M
    <3> QED
      BY <3>7, <3>8 DEF o
  <2>2. ASSUME NEW n \in Nat, n \in K
        PROVE  n + 1 \in K
    <3> SUFFICES ASSUME n + 1 < N
                 PROVE  M[Len(p[N - 1 - (n + 1)])] = {}
      OBVIOUS
    <3> DEFINE i == N - 1 - n
    <3>1. i \in 1..N /\ i - 1 = N - 1 - (n + 1) /\ n < N /\ i + 1 \in 1..N /\ (i + 1) - 1 = i
      BY <1>2
    <3>2. M[Len(p[i])] = {}
      <4> HIDE DEF M
      <4> QED
        BY <2>2, <3>1
    <3> HIDE DEF i
    <3> DEFINE o == Len(p[i - 1])
               m == ms[i]
               past == o + 2 + Len(m)
    <3>3. /\ o \in Nat
          /\ Len(m) \in Nat /\ m \in Seq(Nat)
          /\ Len(p[i]) = past
          /\ p[N][o + 2] = Len(m)
          /\ \A j \in 1..Len(m) : p[N][o + 2 + j] = m[j]
      <4>1. MessageAt(ms, p, i)
        BY <1>1, <3>1, MessageInBatch
      <4> QED
        BY <4>1 DEF MessageAt
    <3>4. Len(p[i]) < Len(p[N])
      <4>1. /\ Len(p[(i + 1) - 1]) \in Nat /\ Len(ms[i + 1]) \in Nat
            /\ Len(p[i + 1]) = Len(p[(i + 1) - 1]) + 2 + Len(ms[i + 1])
            /\ Len(p[N]) \in Nat /\ Len(p[i + 1]) <= Len(p[N])
        <5>1. MessageAt(ms, p, i + 1)
          BY <1>1, <3>1, MessageInBatch
        <5> QED
          BY <5>1 DEF MessageAt
      <4> DEFINE a == Len(p[i])
                 b == Len(ms[i + 1])
                 d == Len(p[i + 1])
                 e == Len(p[N])
      <4>2. a \in Nat /\ b \in Nat /\ d = a + 2 + b /\ e \in Nat /\ d <= e
        BY <3>1, <4>1
      <4> HIDE DEF a, b, d, e
      <4>3. a < e
        BY <4>2
      <4> QED
        BY <4>3 DEF a, e
    <3> HIDE DEF o, m
    <3>5. past <= Len(data) /\ Len(whole) = Len(p[N])
      BY <1>1, <1>2, <1>3, <3>3, <3>4
    <3>6. data[o + 2] = Len(m)
      <4>1. o + 2 \in 1..Len(data)
        BY <1>3, <3>3, <3>5
      <4> QED
        BY <1>1, <1>3, <3>3, <4>1
    <3>7. ASSUME NEW j \in 1..Len(m)
          PROVE  data[o + 2 + j] = m[j]
      <4>1. o + 2 + j \in 1..Len(data)
        <5>1. past \in Nat /\ Len(data) \in Nat /\ past <= Len(data)
          BY <1>3, <3>3, <3>5
        <5>2. o + 2 + j \in Nat /\ o + 2 + j >= 1 /\ o + 2 + j <= past
          BY <3>3
        <5> HIDE DEF past
        <5> QED
          BY <5>1, <5>2
      <4> QED
        BY <1>1, <1>3, <3>3, <4>1
    <3>8. o \in 0..Len(data)
      BY <1>3, <3>3, <3>5
    <3>9. M[o] = Follows(data, M, o)
      BY <1>3, <3>8, ParseEquation
    <3> HIDE DEF M
    <3>10. M[o] = Prefixed(m, M[past])
      BY <1>3, <3>3, <3>5, <3>6, <3>7, <3>9, FollowsMessage
    <3>11. M[o] = {}
      BY <3>2, <3>3, <3>10 DEF Prefixed
    <3> QED
      BY <3>1, <3>11 DEF o
  <2>3. N - 1 \in K
    <3>1. N - 1 \in Nat
      BY <1>2, <1>5
    <3> HIDE DEF K
    <3> QED
      BY <2>1, <2>2, <3>1, SetInduction
  <2>4. M[Len(p[0])] = {}
    <3>1. N - 1 - (N - 1) = 0 /\ N - 1 < N
      BY <1>2
    <3> HIDE DEF M
    <3> QED
      BY <2>3, <3>1
  <2>5. Len(p[0]) = CmdHeaderSize
    BY <1>1 DEF PrefixesOf, EncodeCmdHeader, CmdHeaderSize
  <2>6. M[CmdHeaderSize] = {}
    BY <2>4, <2>5
  <2> QED
    BY <2>6 DEF UnpackBatch, whole, data
<1> QED
  BY <1>2, <1>4, <1>5

-----------------------------------------------------------------------------
Completion == [buf : Buffers, data : Seq(Nat)]
Message == Seq(Nat) \ {<< >>}
Holding == [conn : Conns \union {None}, buf : Buffers \union {None},
            data : Seq(Nat) \union Seq(Seq(Nat))]
SetUpLocations == {"register", "alloc", "post", "connected", "failed"}
PollerLocations == {"poll", "unpack", "deliver", "alloc", "post", "panicked"}

BufferTypes ==
    /\ free \in Seq(Buffers)
    /\ handler \in [CQs -> Conns \union {None}]
    /\ recvBufs \in [Conns -> SUBSET Buffers]
    /\ posted \in [Conns -> Seq(Buffers)]
    /\ cqes \in [Conns -> Seq(Completion)]
AppTypes ==
    /\ recvCh \in [Conns -> Seq(Message)]
    /\ received \in [Conns -> Nat]
    /\ dropped \subseteq Conns /\ closed \subseteq Conns
    /\ broken \subseteq Conns
    /\ shortage \subseteq Conns /\ misrouted \subseteq Conns
    /\ numbers \in [Conns -> Nat]
ProcTypes ==
    /\ pc \in [Procs -> SetUpLocations \union PollerLocations]
    /\ \A c \in Conns : pc[c] \in SetUpLocations
    /\ pc[Poller] \in PollerLocations
    /\ work \in [Procs -> Holding]
    /\ \A p \in Procs :
          IF pc[p] \in {"deliver", "panicked"} THEN work[p].data \in Seq(Seq(Nat))
                                               ELSE work[p].data \in Seq(Nat)
    /\ left \in [Conns -> 0..QueueDepth]
HeldInv ==
    \A p \in Procs : pc[p] \in {"post", "unpack"} => work[p].buf \in Buffers
SetUpInv ==
    \A c \in Conns :
        /\ pc[c] = "register" => posted[c] = << >> /\ left[c] = QueueDepth
        /\ pc[c] \in {"alloc", "post"} => work[c].conn = c /\ left[c] > 0
HandlerInv ==
    \A q \in CQs : handler[q] # None => pc[handler[q]] # "register"
PollerInv ==
    pc[Poller] # "poll" =>
        work[Poller].conn \in Conns /\ pc[work[Poller].conn] # "register"

Base == /\ BufferTypes /\ AppTypes /\ ProcTypes
        /\ HeldInv /\ SetUpInv /\ HandlerInv /\ PollerInv

LEMMA Names ==
    /\ Poller \in Procs /\ Poller \notin Conns /\ None \notin Conns
    /\ None \notin Buffers
    /\ \A c \in Conns : c \in Procs /\ CQOf[c] \in CQs /\ RecvCQ[c] \in CQs
    /\ \A p \in Procs : p # Poller => p \in Conns
    /\ QueueDepth \in Nat \ {0} /\ RecvDepth \in Nat \ {0}
BY RecvPathAssumption DEF Procs, CQs

LEMMA SeqFacts ==
    ASSUME NEW S, NEW s \in Seq(S)
    PROVE  /\ Len(s) \in Nat /\ DOMAIN s = 1..Len(s)
           /\ \A i \in DOMAIN s : s[i] \in S
           /\ s # << >> => /\ Head(s) \in S /\ Head(s) = s[1] /\ Len(s) > 0
                           /\ Tail(s) \in Seq(S) /\ Len(Tail(s)) = Len(s) - 1
                           /\ DOMAIN Tail(s) = 1..Len(s) - 1
                           /\ \A i \in DOMAIN Tail(s) : Tail(s)[i] = s[i + 1]
           /\ \A e \in S : /\ Append(s, e) \in Seq(S)
                           /\ DOMAIN Append(s, e) = 1..Len(s) + 1
                           /\ Len(Append(s, e)) = Len(s) + 1
                           /\ \A i \in DOMAIN s : Append(s, e)[i] = s[i]
                           /\ Append(s, e)[Len(s) + 1] = e
<1>1. Len(s) \in Nat /\ DOMAIN s = 1..Len(s)
  BY LenProperties
<1>2. \A i \in DOMAIN s : s[i] \in S
  BY <1>1, ElementOfSeq
<1>3. ASSUME s # << >>
      PROVE  /\ Head(s) \in S /\ Head(s) = s[1] /\ Len(s) > 0
             /\ Tail(s) \in Seq(S) /\ Len(Tail(s)) = Len(s) - 1
             /\ DOMAIN Tail(s) = 1..Len(s) - 1
             /\ \A i \in DOMAIN Tail(s) : Tail(s)[i] = s[i + 1]
  <2>1. Head(s) \in S /\ Tail(s) \in Seq(S) /\ Len(Tail(s)) = Len(s) - 1
        /\ \A i \in 1..Len(Tail(s)) : Tail(s)[i] = s[i + 1]
    BY <1>3, HeadTailProperties
  <2>2. DOMAIN Tail(s) = 1..Len(Tail(s))
    BY <2>1, LenProperties
  <2>3. Head(s) = s[1] /\ Len(s) > 0
    BY <1>3, <1>1, EmptySeq
  <2> QED
    BY <2>1, <2>2, <2>3
<1>4. ASSUME NEW e \in S
      PROVE  /\ Append(s, e) \in Seq(S)
             /\ DOMAIN Append(s, e) = 1..Len(s) + 1
             /\ Len(Append(s, e)) = Len(s) + 1
             /\ \A i \in DOMAIN s : Append(s, e)[i] = s[i]
             /\ Append(s, e)[Len(s) + 1] = e
  <2>1. /\ Append(s, e) \in Seq(S) /\ Len(Append(s, e)) = Len(s) + 1
        /\ \A i \in 1.. Len(s) : Append(s, e)[i] = s[i]
        /\ Append(s, e)[Len(s) + 1] = e
    BY AppendProperties
  <2>2. DOMAIN Append(s, e) = 1..Len(Append(s, e))
    BY <2>1, LenProperties
  <2> QED
    BY <1>1, <2>1, <2>2
<1> QED
  BY <1>1, <1>2, <1>3, <1>4

LEMMA ProcStep ==
    ASSUME ProcTypes, NEW p \in Procs, NEW loc, NEW w \in Holding,
           loc \in IF p = Poller THEN PollerLocations ELSE SetUpLocations,
           IF loc \in {"deliver", "panicked"} THEN w.data \in Seq(Seq(Nat))
                                              ELSE w.data \in Seq(Nat),
           pc' = [pc EXCEPT ![p] = loc],
           work' = [work EXCEPT ![p] = w],
           left' \in [Conns -> 0..QueueDepth]
    PROVE  ProcTypes'
<1>1. \A r \in Procs : pc'[r] = IF r = p THEN loc ELSE pc[r]
  BY DEF ProcTypes
<1>2. \A r \in Procs : work'[r] = IF r = p THEN w ELSE work[r]
  BY DEF ProcTypes
<1>3. pc' \in [Procs -> SetUpLocations \union PollerLocations]
  BY DEF ProcTypes
<1>4. \A c \in Conns : pc'[c] \in SetUpLocations
  BY <1>1, Names DEF ProcTypes
<1>5. pc'[Poller] \in PollerLocations
  BY <1>1, Names DEF ProcTypes
<1>6. work' \in [Procs -> Holding]
  BY DEF ProcTypes
<1>7. \A r \in Procs :
          IF pc'[r] \in {"deliver", "panicked"} THEN work'[r].data \in Seq(Seq(Nat))
                                                ELSE work'[r].data \in Seq(Nat)
  BY <1>1, <1>2 DEF ProcTypes
<1> QED
  BY <1>3, <1>4, <1>5, <1>6, <1>7 DEF ProcTypes

LEMMA IdleHolds == Idle \in Holding /\ Idle.conn = None /\ Idle.buf = None /\ Idle.data = << >>
                   /\ << >> \in Seq(Nat) /\ << >> \in Seq(Seq(Nat))
BY DEF Idle, Holding

(* The NIC: the head of posted[c] goes to the completions of c.             *)
LEMMA FillBase ==
    ASSUME Base, NEW c \in Conns, NEW data \in Seq(Nat), Fill(c, data),
           numbers' \in [Conns -> Nat]
    PROVE  Base'
<1> DEFINE wc == [buf |-> Head(posted[c]), data |-> data]
<1>1. posted[c] \in Seq(Buffers) /\ posted[c] # << >>
  BY DEF Base, BufferTypes, Fill
<1>2. Head(posted[c]) \in Buffers /\ Tail(posted[c]) \in Seq(Buffers)
  BY <1>1, SeqFacts
<1>3. wc \in Completion /\ cqes[c] \in Seq(Completion)
  BY <1>1, <1>2 DEF Completion, Base, BufferTypes
<1>4. cqes' = [cqes EXCEPT ![c] = Append(@, wc)]
  BY DEF Fill
<1> HIDE DEF wc
<1>5. Append(cqes[c], wc) \in Seq(Completion)
  BY <1>3, SeqFacts
<1>6. posted' = [posted EXCEPT ![c] = Tail(@)]
      /\ UNCHANGED <<free, handler, recvBufs, broken, appVars, procVars, history>>
  BY DEF Fill
<1>7. BufferTypes'
  BY <1>2, <1>4, <1>5, <1>6 DEF Base, BufferTypes
<1>8. AppTypes' /\ ProcTypes' /\ HeldInv' /\ PollerInv' /\ HandlerInv'
  BY <1>6 DEF Base, AppTypes, ProcTypes, HeldInv, PollerInv, HandlerInv,
     appVars, procVars, history
<1>9. SetUpInv'
  BY <1>1, <1>6 DEF Base, BufferTypes, SetUpInv, procVars
<1> QED
  BY <1>7, <1>8, <1>9 DEF Base

LEMMA FlushBase ==
    ASSUME Base, NEW c \in Conns, FlushRecv(c)
    PROVE  Base'
<1>1. posted[c] \in Seq(Buffers) /\ posted[c] # << >>
  BY DEF Base, BufferTypes, FlushRecv
<1>2. Tail(posted[c]) \in Seq(Buffers)
  BY <1>1, SeqFacts
<1>3. posted' = [posted EXCEPT ![c] = Tail(@)] /\ broken' = broken \union {c}
      /\ UNCHANGED <<free, handler, recvBufs, cqes, filled, numbers, appVars,
                     procVars, history>>
  BY DEF FlushRecv
<1>4. BufferTypes'
  BY <1>2, <1>3 DEF Base, BufferTypes
<1>5. AppTypes' /\ ProcTypes' /\ HeldInv' /\ PollerInv' /\ HandlerInv'
  BY <1>3 DEF Base, AppTypes, ProcTypes, HeldInv, PollerInv, HandlerInv,
     appVars, procVars, history
<1>6. SetUpInv'
  BY <1>1, <1>3 DEF Base, BufferTypes, SetUpInv, procVars
<1> QED
  BY <1>4, <1>5, <1>6 DEF Base

LEMMA RegisterBase ==
    ASSUME Base, NEW c \in Conns, Register(c)
    PROVE  Base'
<1> DEFINE q == RecvCQ[c]
<1>1. /\ pc[c] = "register" /\ pc' = [pc EXCEPT ![c] = "alloc"]
      /\ handler' = [handler EXCEPT ![q] = IF @ = None THEN c ELSE @]
      /\ work' = [work EXCEPT ![c].conn = c]
      /\ UNCHANGED <<free, recvBufs, nicVars, appVars, left, history>>
  BY DEF Register, Goto
<1>2. c \in Procs /\ q \in CQs /\ c # Poller /\ c # None
  BY Names
<1>3. BufferTypes'
  BY <1>1, <1>2 DEF Base, BufferTypes, nicVars
<1>4. AppTypes'
  BY <1>1 DEF Base, AppTypes, appVars, nicVars, history
<1>5. ProcTypes'
  <2> DEFINE w == [work[c] EXCEPT !.conn = c]
  <2>1. work[c] \in Holding /\ work' = [work EXCEPT ![c] = w]
    BY <1>1, <1>2 DEF Base, ProcTypes
  <2>2. w \in Holding /\ w.data = work[c].data
    BY <2>1 DEF Holding
  <2>3. work[c].data \in Seq(Nat)
    BY <1>1, <1>2 DEF Base, ProcTypes
  <2> QED
    <3> HIDE DEF w
    <3> QED
      BY <1>1, <1>2, <2>1, <2>2, <2>3, ProcStep DEF Base, ProcTypes, SetUpLocations
<1>6. HeldInv'
  BY <1>1, <1>2 DEF Base, HeldInv, ProcTypes
<1>7. SetUpInv'
  <2> SUFFICES ASSUME NEW d \in Conns
               PROVE  /\ pc'[d] = "register" => posted'[d] = << >> /\ left'[d] = QueueDepth
                      /\ pc'[d] \in {"alloc", "post"} => work'[d].conn = d /\ left'[d] > 0
    BY DEF SetUpInv
  <2>1. CASE d = c
    <3>1. work[c] \in Holding
      BY <1>2 DEF Base, ProcTypes
    <3>2. pc'[c] = "alloc" /\ work'[c].conn = c /\ left'[c] > 0
      BY <1>1, <1>2, <3>1, Names DEF Base, SetUpInv, ProcTypes, Holding
    <3> QED
      BY <2>1, <3>2
  <2>2. CASE d # c
    <3>1. pc'[d] = pc[d] /\ work'[d] = work[d] /\ left' = left /\ posted' = posted
      BY <1>1, <1>2, <2>2, Names DEF Base, ProcTypes, nicVars
    <3> QED
      BY <3>1 DEF Base, SetUpInv
  <2> QED
    BY <2>1, <2>2
<1>8. HandlerInv'
  BY <1>1, <1>2, Names DEF Base, HandlerInv, ProcTypes, BufferTypes, nicVars
<1>9. PollerInv'
  BY <1>1, <1>2, Names DEF Base, PollerInv, ProcTypes, BufferTypes
<1> QED
  BY <1>3, <1>4, <1>5, <1>6, <1>7, <1>8, <1>9 DEF Base

LEMMA RunnerConn ==
    ASSUME Base, NEW p \in Procs, pc[p] \in {"alloc", "post"}
    PROVE  /\ work[p].conn \in Conns /\ pc[work[p].conn] # "register"
           /\ p # Poller => work[p].conn = p /\ left[p] > 0
           /\ pc[p] = "post" => work[p].buf \in Buffers
<1>1. CASE p = Poller
  BY <1>1 DEF Base, PollerInv, HeldInv
<1>2. CASE p # Poller
  BY <1>2, Names DEF Base, SetUpInv, HeldInv
<1> QED
  BY <1>1, <1>2

(* A step of p from a location of PostRecvBuffers to another one, that      *)
(* registers nobody.                                                        *)
LEMMA RunnerStep ==
    ASSUME Base, NEW p \in Procs, pc[p] \in {"alloc", "post"},
           NEW loc, loc \notin {"register", "unpack", "deliver", "panicked"},
           NEW w \in Holding, w.data \in Seq(Nat),
           loc \in IF p = Poller THEN PollerLocations ELSE SetUpLocations,
           loc = "post" => w.buf \in Buffers,
           loc \in {"alloc", "post"} => w.conn = work[p].conn,
           p # Poller /\ loc \in {"alloc", "post"} => left'[p] > 0,
           pc' = [pc EXCEPT ![p] = loc],
           work' = [work EXCEPT ![p] = w],
           left' \in [Conns -> 0..QueueDepth],
           \A c \in Conns : c # p => left'[c] = left[c],
           handler' = handler,
           \A c \in Conns : posted'[c] = posted[c] \/ c = work[p].conn
    PROVE  ProcTypes' /\ HeldInv' /\ SetUpInv' /\ HandlerInv' /\ PollerInv'
<1>1. \A r \in Procs : pc'[r] = IF r = p THEN loc ELSE pc[r]
  BY DEF Base, ProcTypes
<1>2. \A r \in Procs : work'[r] = IF r = p THEN w ELSE work[r]
  BY DEF Base, ProcTypes
<1>3. work[p].conn \in Conns /\ pc[work[p].conn] # "register" /\ pc[p] # "register"
      /\ (p # Poller => work[p].conn = p)
  BY RunnerConn
<1>4. \A r \in Procs : pc'[r] = "register" <=> pc[r] = "register"
  BY <1>1, <1>3
<1>5. ProcTypes'
  BY ProcStep DEF Base
<1>6. HeldInv'
  BY <1>1, <1>2 DEF Base, HeldInv
<1>7. SetUpInv'
  <2> SUFFICES ASSUME NEW d \in Conns
               PROVE  /\ pc'[d] = "register" => posted'[d] = << >> /\ left'[d] = QueueDepth
                      /\ pc'[d] \in {"alloc", "post"} => work'[d].conn = d /\ left'[d] > 0
    BY DEF SetUpInv
  <2>1. d \in Procs
    BY Names
  <2>2. CASE d = p
    BY <1>1, <1>2, <1>3, <2>1, <2>2, Names DEF Base, SetUpInv
  <2>3. CASE d # p
    <3>1. pc'[d] = pc[d] /\ work'[d] = work[d] /\ left'[d] = left[d]
      BY <1>1, <1>2, <2>1, <2>3
    <3>2. pc[d] = "register" => posted'[d] = posted[d]
      BY <1>3
    <3> QED
      BY <3>1, <3>2 DEF Base, SetUpInv
  <2> QED
    BY <2>2, <2>3
<1>8. HandlerInv'
  <2>1. \A c \in Conns : pc'[c] = "register" <=> pc[c] = "register"
    BY <1>4, Names
  <2>2. \A q \in CQs : handler[q] # None => handler[q] \in Conns
    BY DEF Base, BufferTypes
  <2> QED
    BY <2>1, <2>2 DEF Base, HandlerInv
<1>9. PollerInv'
  <2>1. CASE p = Poller
    BY <1>1, <1>2, <1>3, <1>4, <2>1, Names DEF PollerInv, PollerLocations
  <2>2. CASE p # Poller
    BY <1>1, <1>2, <1>4, <2>2, Names DEF Base, PollerInv
  <2> QED
    BY <2>1, <2>2
<1> QED
  BY <1>5, <1>6, <1>7, <1>8, <1>9

LEMMA AllocBase ==
    ASSUME Base, NEW p \in Procs, AllocBuffer(p)
    PROVE  Base'
<1>1. pc[p] = "alloc"
  BY DEF AllocBuffer, Goto
<1>2. /\ work[p].conn \in Conns /\ work[p] \in Holding
      /\ work[p].data \in Seq(Nat)
      /\ p # Poller => left[p] > 0
      /\ left \in [Conns -> 0..QueueDepth]
      /\ free \in Seq(Buffers)
  BY <1>1, RunnerConn DEF Base, ProcTypes, BufferTypes
<1>3. CASE free # << >>
  <2> DEFINE w == [work[p] EXCEPT !.buf = Head(free)]
  <2>1. /\ free' = Tail(free) /\ work' = [work EXCEPT ![p] = w]
        /\ pc' = [pc EXCEPT ![p] = "post"]
        /\ recvBufs' = [recvBufs EXCEPT ![work[p].conn] = @ \union {Head(free)}]
        /\ UNCHANGED <<handler, nicVars, appVars, left, history>>
    BY <1>3 DEF AllocBuffer, Goto, Track
  <2>2. Head(free) \in Buffers /\ Tail(free) \in Seq(Buffers)
    BY <1>2, <1>3, SeqFacts
  <2>3. w \in Holding /\ w.data = work[p].data /\ w.conn = work[p].conn /\ w.buf = Head(free)
    BY <1>2, <2>2 DEF Holding
  <2> HIDE DEF w
  <2>4. BufferTypes'
    BY <1>2, <2>1, <2>2 DEF Base, BufferTypes, nicVars, history
  <2>5. AppTypes'
    BY <2>1 DEF Base, AppTypes, appVars, nicVars, history
  <2>6. ProcTypes' /\ HeldInv' /\ SetUpInv' /\ HandlerInv' /\ PollerInv'
    <3> DEFINE loc == "post"
    <3>1. loc \in IF p = Poller THEN PollerLocations ELSE SetUpLocations
      BY DEF PollerLocations, SetUpLocations
    <3> QED
      BY <1>1, <1>2, <2>1, <2>2, <2>3, <3>1, RunnerStep DEF nicVars, history
  <2> QED
    BY <2>4, <2>5, <2>6 DEF Base
<1>4. CASE free = << >>
  <2>1. /\ pc' = [pc EXCEPT ![p] = AfterError(p)]
        /\ shortage' = shortage \union {work[p].conn} /\ misrouted' = misrouted
        /\ work' = [work EXCEPT ![p] = Idle]
        /\ UNCHANGED <<free, handler, recvBufs, nicVars, appVars, left>>
    BY <1>4 DEF AllocBuffer, Goto, Failed
  <2>2. BufferTypes'
    BY <2>1 DEF Base, BufferTypes, nicVars, history
  <2>3. AppTypes'
    BY <1>2, <2>1 DEF Base, AppTypes, appVars, nicVars, history
  <2>4. ProcTypes' /\ HeldInv' /\ SetUpInv' /\ HandlerInv' /\ PollerInv'
    <3> DEFINE loc == AfterError(p)
    <3>1. loc \in IF p = Poller THEN PollerLocations ELSE SetUpLocations
      BY DEF PollerLocations, SetUpLocations, AfterError
    <3>2. loc \in {"poll", "failed"}
      BY DEF AfterError
    <3> HIDE DEF loc
    <3> QED
      BY <1>1, <1>2, <2>1, <3>1, <3>2, RunnerStep, IdleHolds DEF nicVars, loc, history
  <2> QED
    BY <2>2, <2>3, <2>4 DEF Base
<1> QED
  BY <1>3, <1>4

LEMMA PostRecvBase ==
    ASSUME Base, NEW p \in Procs, PostRecv(p)
    PROVE  Base'
<1> DEFINE more == p # Poller /\ left[p] > 1
           loc == CASE p = Poller -> "poll" [] more -> "alloc" [] OTHER -> "connected"
           w == IF more THEN [Idle EXCEPT !.conn = p] ELSE Idle
<1>1. /\ pc[p] = "post" /\ pc' = [pc EXCEPT ![p] = loc]
      /\ posted' = [posted EXCEPT ![work[p].conn] = Append(@, work[p].buf)]
      /\ left' = IF p = Poller THEN left ELSE [left EXCEPT ![p] = @ - 1]
      /\ work' = [work EXCEPT ![p] = w]
      /\ UNCHANGED <<free, handler, recvBufs, cqes, broken, filled, numbers,
                     appVars, history>>
  BY DEF PostRecv, Goto
<1>2. /\ work[p].conn \in Conns /\ work[p].buf \in Buffers
      /\ p # Poller => p \in Conns /\ work[p].conn = p /\ left[p] > 0
      /\ left \in [Conns -> 0..QueueDepth]
  BY <1>1, RunnerConn, Names DEF Base, ProcTypes
<1>3. posted[work[p].conn] \in Seq(Buffers)
  BY <1>2 DEF Base, BufferTypes
<1>4. Append(posted[work[p].conn], work[p].buf) \in Seq(Buffers)
  BY <1>2, <1>3, SeqFacts
<1>5. BufferTypes'
  BY <1>1, <1>2, <1>4 DEF Base, BufferTypes
<1>6. AppTypes'
  BY <1>1 DEF Base, AppTypes, appVars, history
<1>7. left' \in [Conns -> 0..QueueDepth]
  <2>1. CASE p = Poller
    BY <1>1, <1>2, <2>1
  <2>2. CASE p # Poller
    <3>1. left[p] - 1 \in 0..QueueDepth
      BY <1>2, <2>2, Names
    <3> QED
      BY <1>1, <1>2, <2>2, <3>1
  <2> QED
    BY <2>1, <2>2
<1>8. /\ loc \in IF p = Poller THEN PollerLocations ELSE SetUpLocations
      /\ loc \in {"poll", "alloc", "connected"}
  <2>1. CASE p = Poller
    BY <2>1 DEF PollerLocations
  <2>2. CASE more
    BY <2>2 DEF SetUpLocations
  <2>3. CASE p # Poller /\ ~more
    BY <2>3 DEF SetUpLocations
  <2> QED
    BY <2>1, <2>2, <2>3
<1>9. w \in Holding /\ w.data \in Seq(Nat)
  <2>1. p # Poller => [Idle EXCEPT !.conn = p] \in Holding /\ [Idle EXCEPT !.conn = p].data = << >>
    BY <1>2, IdleHolds DEF Idle, Holding
  <2> QED
    BY <2>1, IdleHolds
<1>10. loc = "alloc" => /\ w.conn = work[p].conn
                        /\ p # Poller => left'[p] > 0
  <2> SUFFICES ASSUME loc = "alloc"
               PROVE  /\ w.conn = work[p].conn
                      /\ p # Poller => left'[p] > 0
    OBVIOUS
  <2>1. more /\ p # Poller /\ left[p] > 1
    OBVIOUS
  <2>2. w.conn = p
    BY <2>1 DEF Idle
  <2>3. left'[p] = left[p] - 1 /\ left[p] \in 0..QueueDepth
    BY <1>1, <1>2, <2>1
  <2> QED
    BY <1>2, <2>1, <2>2, <2>3, Names
<1>11. \A c \in Conns : c # p => left'[c] = left[c]
  BY <1>1, <1>2
<1>12. \A c \in Conns : posted'[c] = posted[c] \/ c = work[p].conn
  BY <1>1 DEF Base, BufferTypes
<1> HIDE DEF loc, w
<1>13. ProcTypes' /\ HeldInv' /\ SetUpInv' /\ HandlerInv' /\ PollerInv'
  BY <1>1, <1>7, <1>8, <1>9, <1>10, <1>11, <1>12, RunnerStep
<1> QED
  BY <1>5, <1>6, <1>13 DEF Base

LEMMA PostRecvFailsBase ==
    ASSUME Base, NEW p \in Procs, PostRecvFails(p)
    PROVE  Base'
<1> DEFINE loc == AfterError(p)
<1>1. /\ pc[p] = "post" /\ pc' = [pc EXCEPT ![p] = loc]
      /\ recvBufs' = [recvBufs EXCEPT ![work[p].conn] = @ \ {work[p].buf}]
      /\ free' = Append(free, work[p].buf)
      /\ shortage' = shortage \union {work[p].conn} /\ misrouted' = misrouted
      /\ work' = [work EXCEPT ![p] = Idle]
      /\ UNCHANGED <<handler, nicVars, appVars, left>>
  BY DEF PostRecvFails, Goto, Failed
<1>2. work[p].conn \in Conns /\ work[p].buf \in Buffers
  BY <1>1, RunnerConn
<1>3. Append(free, work[p].buf) \in Seq(Buffers)
  BY <1>2, SeqFacts DEF Base, BufferTypes
<1>4. BufferTypes'
  BY <1>1, <1>2, <1>3 DEF Base, BufferTypes, nicVars, history
<1>5. AppTypes'
  BY <1>1, <1>2 DEF Base, AppTypes, appVars, nicVars, history
<1>6. loc \in IF p = Poller THEN PollerLocations ELSE SetUpLocations
  BY DEF PollerLocations, SetUpLocations, AfterError
<1>7. loc \in {"poll", "failed"}
  BY DEF AfterError
<1>8. left \in [Conns -> 0..QueueDepth]
  BY DEF Base, ProcTypes
<1> HIDE DEF loc
<1>9. ProcTypes' /\ HeldInv' /\ SetUpInv' /\ HandlerInv' /\ PollerInv'
  BY <1>1, <1>6, <1>7, <1>8, RunnerStep, IdleHolds DEF nicVars, history
<1> QED
  BY <1>4, <1>5, <1>9 DEF Base

(* What Poll(c) takes and to whom it hands it.                              *)
LEMMA Handed ==
    ASSUME Base, NEW c \in Conns, Poll(c)
    PROVE  /\ handler[CQOf[c]] \in Conns /\ pc[handler[CQOf[c]]] # "register"
           /\ cqes[c] \in Seq(Completion) /\ cqes[c] # << >>
           /\ Head(cqes[c]) \in Completion /\ Head(cqes[c]) = cqes[c][1]
           /\ 1 \in DOMAIN cqes[c]
           /\ Tail(cqes[c]) \in Seq(Completion)
<1>1. cqes[c] \in Seq(Completion) /\ cqes[c] # << >>
  BY DEF Base, BufferTypes, Poll, TakeCompletion
<1>2. handler[CQOf[c]] # None /\ CQOf[c] \in CQs
  BY Names DEF Poll, TakeCompletion
<1>3. handler[CQOf[c]] \in Conns /\ pc[handler[CQOf[c]]] # "register"
  BY <1>2 DEF Base, BufferTypes, HandlerInv
<1> QED
  BY <1>1, <1>3, SeqFacts

LEMMA PollBase ==
    ASSUME Base, NEW c \in Conns, Poll(c)
    PROVE  Base'
<1> DEFINE wc == Head(cqes[c])
           h == handler[CQOf[c]]
           w == [conn |-> h, buf |-> wc.buf, data |-> wc.data]
           loc == IF wc.data # << >> /\ Known(h, wc.buf) THEN "unpack" ELSE "alloc"
<1>1. /\ pc[Poller] = "poll" /\ pc' = [pc EXCEPT ![Poller] = loc]
      /\ work' = [work EXCEPT ![Poller] = w]
      /\ recvBufs' = IF wc.data = << >> THEN recvBufs
                     ELSE [recvBufs EXCEPT ![h] = @ \ {wc.buf}]
      /\ cqes' = [cqes EXCEPT ![c] = Tail(@)]
      /\ misrouted' = IF h = c THEN misrouted ELSE misrouted \union {h, c}
      /\ UNCHANGED <<free, handler, posted, broken, filled, numbers, appVars,
                     left, shortage>>
  BY DEF Poll, TakeCompletion, Goto
<1>2. h \in Conns /\ pc[h] # "register" /\ wc \in Completion
      /\ Tail(cqes[c]) \in Seq(Completion)
  BY Handed
<1>3. w \in Holding /\ w.data \in Seq(Nat) /\ w.buf \in Buffers /\ w.conn = h
  BY <1>2 DEF Holding, Completion
<1>4. loc \in {"unpack", "alloc"} /\ Poller \in Procs
  BY Names
<1> HIDE DEF loc, w, wc, h
<1>5. BufferTypes'
  BY <1>1, <1>2 DEF Base, BufferTypes
<1>6. AppTypes'
  BY <1>1, <1>2 DEF Base, AppTypes, appVars
<1>7. ProcTypes'
  BY <1>1, <1>3, <1>4, ProcStep DEF Base, ProcTypes, PollerLocations
<1>8. \A r \in Procs : pc'[r] = IF r = Poller THEN loc ELSE pc[r]
  BY <1>1 DEF Base, ProcTypes
<1>9. \A r \in Procs : work'[r] = IF r = Poller THEN w ELSE work[r]
  BY <1>1 DEF Base, ProcTypes
<1>10. \A d \in Conns : pc'[d] = pc[d] /\ work'[d] = work[d]
  BY <1>8, <1>9, Names
<1>11. HeldInv'
  BY <1>3, <1>4, <1>8, <1>9 DEF Base, HeldInv
<1>12. SetUpInv'
  BY <1>1, <1>10 DEF Base, SetUpInv
<1>13. HandlerInv'
  BY <1>1, <1>10 DEF Base, HandlerInv, BufferTypes
<1>14. PollerInv'
  BY <1>2, <1>3, <1>4, <1>9, <1>10, Names DEF PollerInv
<1> QED
  BY <1>5, <1>6, <1>7, <1>11, <1>12, <1>13, <1>14 DEF Base

(* A step of the poller from OnCompletion.                                  *)
LEMMA CompletionStep ==
    ASSUME Base, pc[Poller] \in {"unpack", "deliver"},
           NEW loc, loc \in {"deliver", "alloc", "panicked"},
           NEW w \in Holding, w.conn = work[Poller].conn,
           IF loc \in {"deliver", "panicked"} THEN w.data \in Seq(Seq(Nat))
                                              ELSE w.data \in Seq(Nat),
           pc' = [pc EXCEPT ![Poller] = loc],
           work' = [work EXCEPT ![Poller] = w],
           UNCHANGED <<handler, posted, left>>
    PROVE  ProcTypes' /\ HeldInv' /\ SetUpInv' /\ HandlerInv' /\ PollerInv'
<1>1. \A r \in Procs : pc'[r] = IF r = Poller THEN loc ELSE pc[r]
  BY DEF Base, ProcTypes
<1>2. \A r \in Procs : work'[r] = IF r = Poller THEN w ELSE work[r]
  BY DEF Base, ProcTypes
<1>3. work[Poller].conn \in Conns /\ pc[work[Poller].conn] # "register"
  BY DEF Base, PollerInv
<1>4. \A d \in Conns : pc'[d] = pc[d] /\ work'[d] = work[d]
  BY <1>1, <1>2, Names
<1>5. ProcTypes'
  BY ProcStep, Names DEF Base, ProcTypes, PollerLocations
<1>6. HeldInv'
  BY <1>1, <1>2 DEF Base, HeldInv
<1>7. SetUpInv'
  BY <1>4 DEF Base, SetUpInv
<1>8. HandlerInv'
  <2>1. \A q \in CQs : handler[q] # None => handler[q] \in Conns
    BY DEF Base, BufferTypes
  <2> QED
    BY <1>4, <2>1 DEF Base, HandlerInv
<1>9. PollerInv'
  BY <1>2, <1>3, <1>4, Names DEF PollerInv
<1> QED
  BY <1>5, <1>6, <1>7, <1>8, <1>9

LEMMA UnpackBase ==
    ASSUME Base, Unpack
    PROVE  Base'
<1> DEFINE unpacked == UnpackBatch(work[Poller].data)
           loc == IF unpacked = {} THEN "alloc" ELSE "deliver"
           data == IF unpacked = {} THEN << >> ELSE CHOOSE ms \in unpacked : TRUE
           w == [work[Poller] EXCEPT !.buf = None, !.data = data]
<1>1. /\ pc[Poller] = "unpack" /\ pc' = [pc EXCEPT ![Poller] = loc]
      /\ work' = [work EXCEPT ![Poller].buf = None, ![Poller].data = data]
      /\ UNCHANGED <<free, handler, recvBufs, nicVars, appVars, left, history>>
  BY DEF Unpack, Unpacked, Goto
<1>2. work[Poller] \in Holding /\ work[Poller].data \in Seq(Nat) /\ Poller \in Procs
  BY <1>1, Names DEF Base, ProcTypes
<1>3. unpacked \subseteq Seq(Seq(Nat))
  BY <1>2, UnpackIsTyped
<1>4. data \in Seq(Seq(Nat)) /\ (loc = "alloc" => data = << >>)
  <2> HIDE DEF unpacked
  <2>1. CASE unpacked = {}
    BY <2>1, IdleHolds
  <2>2. CASE unpacked # {}
    <3>1. (CHOOSE ms \in unpacked : TRUE) \in unpacked
      BY <2>2
    <3> QED
      BY <1>3, <2>2, <3>1
  <2> QED
    BY <2>1, <2>2
<1>5. loc \in {"deliver", "alloc"}
  OBVIOUS
<1> HIDE DEF data, loc, unpacked
<1>6. work' = [work EXCEPT ![Poller] = w]
  BY <1>1, <1>2 DEF Base, ProcTypes
<1>7. w \in Holding /\ w.conn = work[Poller].conn /\ w.data = data
  BY <1>2, <1>4 DEF Holding
<1> HIDE DEF w
<1>8. IF loc \in {"deliver", "panicked"} THEN w.data \in Seq(Seq(Nat))
                                         ELSE w.data \in Seq(Nat)
  BY <1>4, <1>5, <1>7, IdleHolds
<1>9. ProcTypes' /\ HeldInv' /\ SetUpInv' /\ HandlerInv' /\ PollerInv'
  BY <1>1, <1>5, <1>6, <1>7, <1>8, CompletionStep DEF nicVars, history
<1>10. BufferTypes' /\ AppTypes'
  BY <1>1 DEF Base, BufferTypes, AppTypes, nicVars, appVars, history
<1> QED
  BY <1>9, <1>10 DEF Base

LEMMA DeliverBase ==
    ASSUME Base, Deliver
    PROVE  Base'
<1> DEFINE w == work[Poller]
           empty == w.data # << >> /\ Head(w.data) = << >>
           loc == CASE empty -> "panicked" [] w.data = << >> -> "alloc" [] OTHER -> "deliver"
<1>1. /\ pc[Poller] = "deliver" /\ pc' = [pc EXCEPT ![Poller] = loc]
      /\ IF empty \/ w.data = << >>
         THEN UNCHANGED <<recvCh, dropped, work>>
         ELSE /\ DeliverRecv(w.conn, Head(w.data))
              /\ work' = [work EXCEPT ![Poller].data = Tail(@)]
      /\ UNCHANGED <<free, handler, recvBufs, nicVars, closed, received, left, history>>
  BY DEF Deliver, Goto
<1>2. /\ w \in Holding /\ w.data \in Seq(Seq(Nat)) /\ w.conn \in Conns
      /\ Poller \in Procs
  BY <1>1, Names DEF Base, ProcTypes, PollerInv
<1>3. BufferTypes'
  BY <1>1 DEF Base, BufferTypes, nicVars, history
<1>4. CASE empty \/ w.data = << >>
  <2>1. loc \in {"panicked", "alloc"} /\ (loc = "alloc" => w.data = << >>)
    BY <1>4
  <2>2. AppTypes'
    BY <1>1, <1>4 DEF Base, AppTypes, nicVars, history
  <2>3. work' = [work EXCEPT ![Poller] = w]
    BY <1>1, <1>2, <1>4 DEF Base, ProcTypes
  <2>4. IF loc \in {"deliver", "panicked"} THEN w.data \in Seq(Seq(Nat))
                                           ELSE w.data \in Seq(Nat)
    <3> HIDE DEF loc
    <3> QED
      BY <1>2, <2>1, IdleHolds
  <2> HIDE DEF loc
  <2>5. ProcTypes' /\ HeldInv' /\ SetUpInv' /\ HandlerInv' /\ PollerInv'
    BY <1>1, <1>2, <2>1, <2>3, <2>4, CompletionStep DEF nicVars, history
  <2> QED
    BY <1>3, <2>2, <2>5 DEF Base
<1>5. CASE ~(empty \/ w.data = << >>)
  <2> DEFINE v == [w EXCEPT !.data = Tail(w.data)]
  <2>1. loc = "deliver"
    BY <1>5
  <2>2. Tail(w.data) \in Seq(Seq(Nat)) /\ Head(w.data) \in Message
    <3>1. w.data # << >> /\ Head(w.data) # << >>
      BY <1>5
    <3> QED
      BY <1>2, <3>1, SeqFacts DEF Message
  <2>3. work' = [work EXCEPT ![Poller] = v]
    BY <1>1, <1>2, <1>5 DEF Base, ProcTypes
  <2>4. v \in Holding /\ v.conn = w.conn /\ v.data = Tail(w.data)
    BY <1>2, <2>2 DEF Holding
  <2>5. DeliverRecv(w.conn, Head(w.data))
    BY <1>1, <1>5
  <2> HIDE DEF v, loc, w
  <2>6. ProcTypes' /\ HeldInv' /\ SetUpInv' /\ HandlerInv' /\ PollerInv'
    <3>1. UNCHANGED <<handler, cqes, posted, left>>
      BY <1>1 DEF nicVars, history
    <3>2. v.conn = work[Poller].conn
      BY <2>4 DEF w
    <3>3. pc' = [pc EXCEPT ![Poller] = "deliver"] /\ pc[Poller] = "deliver"
      BY <1>1, <2>1
    <3>4. v.data \in Seq(Seq(Nat))
      BY <2>2, <2>4
    <3> DEFINE l == "deliver"
    <3>5. IF l \in {"deliver", "panicked"} THEN v.data \in Seq(Seq(Nat))
                                           ELSE v.data \in Seq(Nat)
      BY <3>4
    <3> QED
      BY <2>3, <2>4, <3>1, <3>2, <3>3, <3>5, CompletionStep
  <2>7. AppTypes'
    <3>1. recvCh[w.conn] \in Seq(Message)
      BY <1>2 DEF Base, AppTypes
    <3>2. Append(recvCh[w.conn], Head(w.data)) \in Seq(Message)
      BY <2>2, <3>1, SeqFacts
    <3>3. recvCh' \in [Conns -> Seq(Message)] /\ dropped' \subseteq Conns
      BY <1>2, <2>5, <3>2 DEF Base, AppTypes, DeliverRecv
    <3> QED
      BY <1>1, <3>3 DEF Base, AppTypes, nicVars, history
  <2> QED
    BY <1>3, <2>6, <2>7 DEF Base
<1> QED
  BY <1>4, <1>5

LEMMA RecvBase ==
    ASSUME Base, NEW c \in Conns, Recv(c)
    PROVE  Base'
<1>1. /\ recvCh[c] # << >>
      /\ received' = [received EXCEPT ![c] = Head(recvCh[c])[1]]
      /\ recvCh' = [recvCh EXCEPT ![c] = Tail(@)]
      /\ UNCHANGED <<free, handler, recvBufs, nicVars, closed, dropped,
                     procVars, history>>
  BY DEF Recv
<1>2. recvCh[c] \in Seq(Message)
  BY DEF Base, AppTypes
<1>3. Head(recvCh[c]) \in Message /\ Tail(recvCh[c]) \in Seq(Message)
  BY <1>1, <1>2, SeqFacts
<1>4. Head(recvCh[c])[1] \in Nat
  <2> DEFINE m == Head(recvCh[c])
  <2>1. m \in Seq(Nat) /\ m # << >>
    BY <1>3 DEF Message
  <2> HIDE DEF m
  <2>2. Len(m) \in Nat /\ Len(m) > 0
    BY <2>1, SeqFacts
  <2>3. 1 \in 1..Len(m)
    BY <2>2
  <2> QED
    BY <2>1, <2>3, ElementOfSeq DEF m
<1>5. AppTypes'
  BY <1>1, <1>3, <1>4 DEF Base, AppTypes, nicVars, history
<1>6. BufferTypes' /\ ProcTypes' /\ HeldInv' /\ SetUpInv' /\ HandlerInv' /\ PollerInv'
  BY <1>1 DEF Base, BufferTypes, ProcTypes, HeldInv, SetUpInv, HandlerInv, PollerInv,
     nicVars, procVars, history
<1> QED
  BY <1>5, <1>6 DEF Base

LEMMA CloseBase ==
    ASSUME Base, NEW c \in Conns, Close(c)
    PROVE  Base'
<1>1. /\ closed' = closed \union {c}
      /\ UNCHANGED <<free, handler, recvBufs, nicVars, recvCh, received,
                     dropped, procVars, history>>
  BY DEF Close
<1>2. AppTypes'
  BY <1>1 DEF Base, AppTypes, nicVars, history
<1>3. BufferTypes' /\ ProcTypes' /\ HeldInv' /\ SetUpInv' /\ HandlerInv' /\ PollerInv'
  BY <1>1 DEF Base, BufferTypes, ProcTypes, HeldInv, SetUpInv, HandlerInv, PollerInv,
     nicVars, procVars, history
<1> QED
  BY <1>2, <1>3 DEF Base

LEMMA StutterBase ==
    ASSUME Base, UNCHANGED vars
    PROVE  Base'
BY DEF Base, BufferTypes, AppTypes, ProcTypes, HeldInv, SetUpInv, HandlerInv,
       PollerInv, vars, nicVars, appVars, procVars, history

(* The pool starts with each of its buffers once.                           *)
LEMMA PoolIsFilled ==
    /\ SetToSeq(Buffers) \in Seq(Buffers)
    /\ \A i, j \in DOMAIN SetToSeq(Buffers) :
          SetToSeq(Buffers)[i] = SetToSeq(Buffers)[j] => i = j
<1> DEFINE n == Cardinality(Buffers)
           f == SetToSeq(Buffers)
<1>1. n \in Nat /\ ExistsBijection(1..n, Buffers)
  BY FS_CardinalityType, RecvPathAssumption
<1>2. \E g \in [1..n -> Buffers] : IsInjective(g)
  BY <1>1 DEF ExistsBijection, Bijection, Injection
<1>3. f \in [1..n -> Buffers] /\ IsInjective(f)
  BY <1>2 DEF SetToSeq
<1> HIDE DEF n, f
<1>4. f \in Seq(Buffers)
  BY <1>1, <1>3, FunctionIsSeq DEF n
<1> QED
  BY <1>3, <1>4 DEF IsInjective, f

LEMMA InitBase ==
    ASSUME Init
    PROVE  Base
<1>1. \A S : << >> \in Seq(S)
  OBVIOUS
<1>2. BufferTypes
  BY PoolIsFilled DEF Init, BufferTypes
<1>3. AppTypes
  BY DEF Init, AppTypes
<1>4. ProcTypes
  <2>1. Idle \in Holding /\ Idle.data \in Seq(Nat)
    BY IdleHolds
  <2> QED
    BY <2>1, Names DEF Init, ProcTypes, SetUpLocations, PollerLocations
<1>5. HeldInv /\ PollerInv
  BY Names DEF Init, HeldInv, PollerInv
<1>6. SetUpInv
  BY Names DEF Init, SetUpInv
<1>7. HandlerInv
  BY Names DEF Init, HandlerInv
<1> QED
  BY <1>2, <1>3, <1>4, <1>5, <1>6, <1>7 DEF Base

(* What a peer sends is a batch of messages, and may be cut short.          *)
LEMMA SentMessages ==
    ASSUME Base, NEW c \in Conns, NEW lengths \in Batches
    PROVE  /\ Messages(c, lengths) \in Seq(Seq(Nat))
           /\ Len(Messages(c, lengths)) = Len(lengths) /\ Len(lengths) \in Nat
           /\ PackBatch(Messages(c, lengths)) \in Seq(Nat)
           /\ Front(PackBatch(Messages(c, lengths))) \in Seq(Nat)
<1> DEFINE ms == Messages(c, lengths)
<1>1. lengths \in Seq(0..1)
  BY RecvPathAssumption
<1>2. Len(lengths) \in Nat /\ DOMAIN lengths = 1..Len(lengths)
  BY <1>1, LenProperties
<1>3. ms \in [1..Len(lengths) -> Seq(Nat)]
  <2>1. numbers[c] \in Nat
    BY DEF Base, AppTypes
  <2>2. \A i \in 1..Len(lengths) : <<numbers[c] + i>> \in Seq(Nat)
    BY <1>2, <2>1
  <2>3. << >> \in Seq(Nat)
    OBVIOUS
  <2> QED
    BY <1>2, <2>2, <2>3 DEF Messages
<1> HIDE DEF ms
<1>4. ms \in Seq(Seq(Nat)) /\ Len(ms) = Len(lengths)
  BY <1>2, <1>3, FunctionIsSeq
<1>5. PackBatch(ms) \in Seq(Nat)
  BY <1>4, PackIsTyped
<1>6. Front(PackBatch(ms)) \in Seq(Nat)
  <2> DEFINE s == PackBatch(ms)
  <2>1. s \in Seq(Nat) /\ Len(s) \in Nat
    BY <1>5, LenProperties
  <2> HIDE DEF s
  <2>2. 1 \in Int /\ Len(s) - 1 \in Int /\ \A i \in 1..Len(s) - 1 : s[i] \in Nat
    BY <2>1, SeqFacts
  <2>3. SubSeq(s, 1, Len(s) - 1) \in Seq(Nat)
    BY <2>2, SubSeqProperties
  <2> QED
    BY <2>3 DEF Front, s
<1> QED
  BY <1>2, <1>4, <1>5, <1>6 DEF ms

LEMMA ArriveBase ==
    ASSUME Base, NEW c \in Conns, Arrive(c) \/ ArriveSpoilt(c)
    PROVE  /\ Base'
           /\ \E data \in Seq(Nat) : Fill(c, data)
<1>1. CASE Arrive(c)
  <2>1. PICK lengths \in Batches :
           /\ Fill(c, PackBatch(Messages(c, lengths)))
           /\ numbers' = [numbers EXCEPT ![c] = @ + Len(lengths)]
    BY <1>1 DEF Arrive
  <2>2. PackBatch(Messages(c, lengths)) \in Seq(Nat) /\ Len(lengths) \in Nat
    BY SentMessages
  <2>3. numbers' \in [Conns -> Nat]
    <3>1. numbers \in [Conns -> Nat]
      BY DEF Base, AppTypes
    <3>2. numbers[c] + Len(lengths) \in Nat
      BY <2>2, <3>1
    <3> QED
      BY <2>1, <3>1, <3>2
  <2> QED
    BY <2>1, <2>2, <2>3, FillBase
<1>2. CASE ArriveSpoilt(c)
  <2>1. numbers' \in [Conns -> Nat]
    BY <1>2 DEF ArriveSpoilt, Base, AppTypes
  <2>2. CASE Fill(c, << >>)
    BY <2>1, <2>2, FillBase, IdleHolds
  <2>3. CASE \E lengths \in Batches : Fill(c, Front(PackBatch(Messages(c, lengths))))
    <3>1. PICK lengths \in Batches : Fill(c, Front(PackBatch(Messages(c, lengths))))
      BY <2>3
    <3> QED
      BY <2>1, <3>1, SentMessages, FillBase
  <2> QED
    BY <1>2, <2>2, <2>3 DEF ArriveSpoilt
<1> QED
  BY <1>1, <1>2

LEMMA NextBase ==
    ASSUME Base, [Next]_vars
    PROVE  Base'
<1>1. ASSUME NEW c \in Conns,
             \/ Arrive(c) \/ ArriveSpoilt(c) \/ FlushRecv(c)
             \/ Register(c) \/ PostRecvBuffers(c)
             \/ Recv(c) \/ Close(c)
      PROVE  Base'
  BY <1>1, Names, ArriveBase, FlushBase, RegisterBase, AllocBase, PostRecvBase,
     PostRecvFailsBase, RecvBase, CloseBase DEF PostRecvBuffers
<1>2. ASSUME PollerStep
      PROVE  Base'
  BY <1>2, Names, AllocBase, PostRecvBase, PostRecvFailsBase, UnpackBase,
     DeliverBase, PollBase DEF PollerStep, PostRecvBuffers, OnCompletion
<1> QED
  BY <1>1, <1>2, StutterBase DEF Next

LEMMA BaseInvariant == Spec => []Base
<1>1. Init => Base
  BY InitBase
<1>2. Base /\ [Next]_vars => Base'
  BY NextBase
<1> QED
  BY <1>1, <1>2, PTL DEF Spec

LEMMA BaseTypes ==
    ASSUME Base
    PROVE  TypeOK
<1>1. cqes \in [Conns -> Seq([buf : Buffers, data : Seq(Nat)])]
  BY DEF Base, BufferTypes, Completion
<1>2. recvCh \in [Conns -> Seq(Seq(Nat))]
  <2>1. \A c \in Conns : recvCh[c] \in Seq(Seq(Nat))
    <3> SUFFICES ASSUME NEW c \in Conns
                 PROVE  recvCh[c] \in Seq(Seq(Nat))
      OBVIOUS
    <3>1. recvCh[c] \in Seq(Message)
      BY DEF Base, AppTypes
    <3>2. Message \subseteq Seq(Nat)
      BY DEF Message
    <3> HIDE DEF Message
    <3> QED
      BY <3>1, <3>2, SeqMonotonic
  <2> QED
    BY <2>1 DEF Base, AppTypes
<1>3. \A p \in Procs :
          /\ work[p].conn \in Conns \union {None}
          /\ work[p].buf \in Buffers \union {None}
          /\ work[p].data \in Seq(IF pc[p] \in {"deliver", "panicked"}
                              THEN Seq(Nat) ELSE Nat)
  BY DEF Base, ProcTypes, Holding
<1>4. /\ \A c \in Conns : pc[c] \in {"register", "alloc", "post", "connected", "failed"}
      /\ pc[Poller] \in {"poll", "unpack", "deliver", "alloc", "post", "panicked"}
      /\ left \in [Conns -> 0..QueueDepth]
  BY DEF Base, ProcTypes, SetUpLocations, PollerLocations
<1> QED
  BY <1>1, <1>2, <1>3, <1>4 DEF TypeOK, Base, BufferTypes, AppTypes

(* The state of the receive path keeps its type: the buffers of the pool and *)
(* of the queue pairs, the completions, the messages on their way to Recv.  *)
THEOREM RecvPathTypeCorrect == Spec => []TypeOK
  BY BaseInvariant, BaseTypes, PTL

-----------------------------------------------------------------------------
(* No buffer is twice in the sequences s[k].                                *)
Apart(K, s) ==
    \A k, l \in K : \A i \in DOMAIN s[k], j \in DOMAIN s[l] :
        s[k][i] = s[l][j] => k = l /\ i = j

(* The oldest buffer of one sequence becomes the youngest of another one.   *)
Moves(K, s, t, from, to) ==
    /\ from \in K /\ to \in K /\ from # to /\ s[from] # << >>
    /\ t[from] = Tail(s[from]) /\ t[to] = Append(s[to], Head(s[from]))
    /\ \A k \in K : k # from /\ k # to => t[k] = s[k]

LEMMA MovedApart ==
    ASSUME NEW K, NEW B, NEW s \in [K -> Seq(B)], NEW t, Apart(K, s),
           NEW from, NEW to, Moves(K, s, t, from, to)
    PROVE  Apart(K, t)
<1> USE DEF Moves
<1> DEFINE Was(k, i) == IF k = from THEN <<from, i + 1>>
                        ELSE IF k = to /\ i = Len(s[to]) + 1 THEN <<from, 1>>
                        ELSE <<k, i>>
<1>1. /\ Len(s[to]) \in Nat /\ DOMAIN s[to] = 1..Len(s[to])
      /\ DOMAIN t[to] = 1..Len(s[to]) + 1
      /\ \A i \in DOMAIN s[to] : t[to][i] = s[to][i]
      /\ t[to][Len(s[to]) + 1] = Head(s[from])
      /\ Head(s[from]) = s[from][1]
      /\ Len(s[from]) \in Nat /\ Len(s[from]) > 0
      /\ DOMAIN s[from] = 1..Len(s[from])
      /\ DOMAIN t[from] = 1..Len(s[from]) - 1
      /\ \A i \in DOMAIN t[from] : t[from][i] = s[from][i + 1]
  <2>1. s[to] \in Seq(B) /\ s[from] \in Seq(B)
    OBVIOUS
  <2>2. Head(s[from]) \in B
    BY <2>1, SeqFacts
  <2> QED
    BY <2>1, <2>2, SeqFacts
<1>2. ASSUME NEW k \in K, NEW i \in DOMAIN t[k]
      PROVE  \E h \in K : \E j \in DOMAIN s[h] :
                /\ Was(k, i) = <<h, j>>
                /\ t[k][i] = s[h][j]
  <2>1. CASE k = from
    <3>1. i + 1 \in DOMAIN s[from]
      BY <1>1, <2>1
    <3> QED
      BY <1>1, <2>1, <3>1
  <2>2. CASE k = to /\ i = Len(s[to]) + 1
    <3>1. 1 \in DOMAIN s[from]
      BY <1>1
    <3> QED
      BY <1>1, <2>2, <3>1
  <2>3. CASE k # from /\ ~(k = to /\ i = Len(s[to]) + 1)
    <3>1. i \in DOMAIN s[k] /\ t[k][i] = s[k][i]
      <4>1. CASE k = to
        <5>1. i \in DOMAIN t[to] /\ i # Len(s[to]) + 1
          BY <2>3, <4>1
        <5>2. i \in DOMAIN s[to]
          BY <1>1, <5>1
        <5> QED
          BY <1>1, <4>1, <5>2
      <4>2. CASE k # to
        BY <2>3, <4>2
      <4> QED
        BY <4>1, <4>2
    <3> QED
      BY <2>3, <3>1
  <2> QED
    BY <2>1, <2>2, <2>3
<1>3. ASSUME NEW k \in K, NEW l \in K, NEW i \in DOMAIN t[k], NEW j \in DOMAIN t[l],
             Was(k, i) = Was(l, j)
      PROVE  k = l /\ i = j
  <2>1. k = from => i \in 1..Len(s[from]) - 1
    BY <1>1
  <2>2. l = from => j \in 1..Len(s[from]) - 1
    BY <1>1
  <2>3. CASE k = from /\ l = from
    BY <1>1, <1>3, <2>1, <2>2, <2>3
  <2>4. CASE k = from /\ l # from
    BY <1>1, <1>3, <2>1, <2>4
  <2>5. CASE k # from /\ l = from
    BY <1>1, <1>3, <2>2, <2>5
  <2>6. CASE k # from /\ l # from
    BY <1>3, <2>6
  <2> QED
    BY <2>3, <2>4, <2>5, <2>6
<1> SUFFICES ASSUME NEW k \in K, NEW l \in K, NEW i \in DOMAIN t[k],
                    NEW j \in DOMAIN t[l], t[k][i] = t[l][j]
             PROVE  k = l /\ i = j
  BY DEF Apart
<1>4. PICK a \in K : \E u \in DOMAIN s[a] : Was(k, i) = <<a, u>> /\ t[k][i] = s[a][u]
  BY <1>2
<1>5. PICK b \in K : \E v \in DOMAIN s[b] : Was(l, j) = <<b, v>> /\ t[l][j] = s[b][v]
  BY <1>2
<1> HIDE DEF Was
<1>6. PICK u \in DOMAIN s[a] : Was(k, i) = <<a, u>> /\ t[k][i] = s[a][u]
  BY <1>4
<1>7. PICK v \in DOMAIN s[b] : Was(l, j) = <<b, v>> /\ t[l][j] = s[b][v]
  BY <1>5
<1>a. s[a][u] = s[b][v]
  BY <1>6, <1>7
<1>8. a = b /\ u = v
  <2>1. a \in K /\ b \in K /\ u \in DOMAIN s[a] /\ v \in DOMAIN s[b]
    BY <1>4, <1>5, <1>6, <1>7
  <2>2. \A e, f \in K : \A g \in DOMAIN s[e], h \in DOMAIN s[f] :
           s[e][g] = s[f][h] => e = f /\ g = h
    BY DEF Apart
  <2> QED
    BY <1>a, <2>1, <2>2
<1>9. Was(k, i) = Was(l, j)
  BY <1>6, <1>7, <1>8
<1> QED
  BY <1>3, <1>9

(* The oldest buffer of a sequence is gone.                                 *)
Drops(K, s, t, from) ==
    /\ from \in K /\ s[from] # << >>
    /\ t[from] = Tail(s[from])
    /\ \A k \in K : k # from => t[k] = s[k]

LEMMA DroppedApart ==
    ASSUME NEW K, NEW B, NEW s \in [K -> Seq(B)], NEW t, Apart(K, s),
           NEW from, Drops(K, s, t, from)
    PROVE  Apart(K, t)
<1> USE DEF Drops
<1>1. /\ Len(s[from]) \in Nat
      /\ DOMAIN s[from] = 1..Len(s[from])
      /\ DOMAIN t[from] = 1..Len(s[from]) - 1
      /\ \A i \in DOMAIN t[from] : t[from][i] = s[from][i + 1]
  <2>1. s[from] \in Seq(B)
    OBVIOUS
  <2> QED
    BY <2>1, SeqFacts
<1> DEFINE Was(k, i) == IF k = from THEN i + 1 ELSE i
<1>2. ASSUME NEW k \in K, NEW i \in DOMAIN t[k]
      PROVE  Was(k, i) \in DOMAIN s[k] /\ t[k][i] = s[k][Was(k, i)]
  <2>1. CASE k = from
    BY <1>1, <2>1
  <2>2. CASE k # from
    BY <2>2
  <2> QED
    BY <2>1, <2>2
<1>3. ASSUME NEW k \in K, NEW i \in DOMAIN t[k], NEW j \in DOMAIN t[k],
             Was(k, i) = Was(k, j)
      PROVE  i = j
  BY <1>1, <1>3
<1> HIDE DEF Was
<1> QED
  BY <1>2, <1>3 DEF Apart

-----------------------------------------------------------------------------
(* The stores by name, and what each of them holds.                         *)
Pool == <<"pool", None>>
Posted(c) == <<"posted", c>>
Completed(d) == <<"completed", d>>
Held(p) == <<"held", p>>
Contents == [k \in Stores |-> Store(k)]
BuffersOf(s) == [i \in DOMAIN s |-> s[i].buf]
HeldBy(p) == IF pc[p] \in {"post", "unpack"} THEN <<work[p].buf>> ELSE << >>

ContentsTable ==
    /\ Contents[Pool] = free
    /\ \A c \in Conns : Contents[Posted(c)] = posted[c]
    /\ \A d \in Conns : Contents[Completed(d)] = BuffersOf(cqes[d])
    /\ \A p \in Procs : Contents[Held(p)] = HeldBy(p)

LEMMA StoreNames ==
    /\ Pool \in Stores
    /\ \A c \in Conns : Posted(c) \in Stores /\ Posted(c) # Pool
    /\ \A d \in Conns : Completed(d) \in Stores /\ Completed(d) # Pool
    /\ \A p \in Procs : Held(p) \in Stores /\ Held(p) # Pool
    /\ \A c, d \in Conns : Posted(c) # Completed(d)
    /\ \A c \in Conns, p \in Procs : Posted(c) # Held(p)
    /\ \A d \in Conns, p \in Procs : Completed(d) # Held(p)
    /\ \A c, d \in Conns : Posted(c) = Posted(d) => c = d
    /\ \A c, d \in Conns : Completed(c) = Completed(d) => c = d
    /\ \A p, r \in Procs : Held(p) = Held(r) => p = r
    /\ \A k \in Stores : \/ k = Pool
                         \/ \E c \in Conns : k = Posted(c)
                         \/ \E d \in Conns : k = Completed(d)
                         \/ \E p \in Procs : k = Held(p)
  BY DEF Stores, Pool, Posted, Completed, Held

LEMMA StoreTable == ContentsTable
<1> HIDE DEF Procs
<1>1. Contents[Pool] = free
  BY StoreNames DEF Contents, Store, Pool
<1>2. \A c \in Conns : Contents[Posted(c)] = posted[c]
  BY StoreNames DEF Contents, Store, Posted
<1>3. \A d \in Conns : Contents[Completed(d)] = BuffersOf(cqes[d])
  BY StoreNames DEF Contents, Store, Completed, BuffersOf
<1>4. \A p \in Procs : Contents[Held(p)] = HeldBy(p)
  BY StoreNames DEF Contents, Store, Held, HeldBy
<1> QED
  BY <1>1, <1>2, <1>3, <1>4 DEF ContentsTable

LEMMA StoreTableNext == ContentsTable'
<1>1. (Contents[Pool] = free)'
  BY StoreNames DEF Contents, Store, Pool
<1>2. (\A c \in Conns : Contents[Posted(c)] = posted[c])'
  BY StoreNames DEF Contents, Store, Posted
<1>3. (\A d \in Conns : Contents[Completed(d)] = BuffersOf(cqes[d]))'
  BY StoreNames DEF Contents, Store, Completed, BuffersOf
<1>4. (\A p \in Procs : Contents[Held(p)] = HeldBy(p))'
  BY StoreNames DEF Contents, Store, Held, HeldBy
<1> QED
  BY <1>1, <1>2, <1>3, <1>4 DEF ContentsTable

LEMMA OneReceiverIsApart ==
    (OneReceiver <=> Apart(Stores, Contents)) /\ (OneReceiver <=> Apart(Stores, Contents))'
<1>1. OneReceiver <=> Apart(Stores, Contents)
  BY DEF OneReceiver, Apart, Contents
<1>2. OneReceiver' <=> Apart(Stores, Contents)'
  BY DEF OneReceiver, Apart, Contents
<1> QED
  BY <1>1, <1>2

LEMMA BuffersOfSeq ==
    ASSUME NEW s \in Seq(Completion)
    PROVE  /\ BuffersOf(s) \in Seq(Buffers)
           /\ s # << >> => /\ BuffersOf(s) # << >>
                           /\ Head(BuffersOf(s)) = Head(s).buf
                           /\ BuffersOf(Tail(s)) = Tail(BuffersOf(s))
           /\ \A wc \in Completion :
                 BuffersOf(Append(s, wc)) = Append(BuffersOf(s), wc.buf)
<1> DEFINE b == BuffersOf(s)
<1>1. \A t \in Seq(Completion) :
         /\ BuffersOf(t) \in Seq(Buffers) /\ Len(BuffersOf(t)) = Len(t)
         /\ DOMAIN BuffersOf(t) = DOMAIN t
         /\ \A i \in DOMAIN t : BuffersOf(t)[i] = t[i].buf
  <2> SUFFICES ASSUME NEW t \in Seq(Completion)
               PROVE  /\ BuffersOf(t) \in Seq(Buffers) /\ Len(BuffersOf(t)) = Len(t)
                      /\ DOMAIN BuffersOf(t) = DOMAIN t
                      /\ \A i \in DOMAIN t : BuffersOf(t)[i] = t[i].buf
    OBVIOUS
  <2>1. Len(t) \in Nat /\ DOMAIN t = 1..Len(t) /\ \A i \in DOMAIN t : t[i] \in Completion
    BY SeqFacts
  <2>2. BuffersOf(t) \in [1..Len(t) -> Buffers]
    BY <2>1 DEF BuffersOf, Completion
  <2> QED
    BY <2>1, <2>2, FunctionIsSeq DEF BuffersOf
<1>2. ASSUME s # << >>
      PROVE  /\ b # << >>
             /\ Head(b) = Head(s).buf
             /\ BuffersOf(Tail(s)) = Tail(b)
  <2>1. /\ Tail(s) \in Seq(Completion) /\ Len(Tail(s)) = Len(s) - 1 /\ Len(s) > 0
        /\ Head(s) = s[1] /\ Len(s) \in Nat
        /\ DOMAIN s = 1..Len(s) /\ DOMAIN Tail(s) = 1..Len(s) - 1
        /\ \A i \in DOMAIN Tail(s) : Tail(s)[i] = s[i + 1]
    BY <1>2, SeqFacts
  <2>2. b \in Seq(Buffers) /\ Len(b) = Len(s) /\ b # << >>
    BY <1>1, <2>1
  <2>3. Head(b) = b[1] /\ Tail(b) \in Seq(Buffers) /\ Len(Tail(b)) = Len(b) - 1
        /\ DOMAIN Tail(b) = 1..Len(b) - 1
        /\ \A i \in DOMAIN Tail(b) : Tail(b)[i] = b[i + 1]
    BY <2>2, SeqFacts
  <2>4. 1 \in DOMAIN s
    BY <2>1
  <2>5. Head(b) = Head(s).buf
    BY <1>1, <2>1, <2>3, <2>4
  <2> DEFINE u == BuffersOf(Tail(s))
             v == Tail(b)
  <2>6. u \in Seq(Buffers) /\ Len(u) = Len(s) - 1
        /\ \A i \in 1..Len(s) - 1 : u[i] = Tail(s)[i].buf
    BY <1>1, <2>1
  <2>7. v \in Seq(Buffers) /\ Len(v) = Len(s) - 1
        /\ \A i \in 1..Len(s) - 1 : v[i] = b[i + 1]
    BY <2>2, <2>3
  <2>8. ASSUME NEW i \in 1..Len(s) - 1
        PROVE  u[i] = v[i]
    <3>1. i + 1 \in DOMAIN s
      BY <2>1
    <3>2. b[i + 1] = s[i + 1].buf
      BY <1>1, <3>1
    <3> QED
      BY <2>1, <2>6, <2>7, <3>2
  <2> HIDE DEF u, v, b
  <2>9. u = v
    BY <2>6, <2>7, <2>8, SeqEqual
  <2> QED
    BY <2>2, <2>5, <2>9 DEF u, v
<1>3. ASSUME NEW wc \in Completion
      PROVE  BuffersOf(Append(s, wc)) = Append(b, wc.buf)
  <2>1. /\ Append(s, wc) \in Seq(Completion) /\ Len(Append(s, wc)) = Len(s) + 1
        /\ DOMAIN Append(s, wc) = 1..Len(s) + 1
        /\ \A i \in DOMAIN s : Append(s, wc)[i] = s[i]
        /\ Append(s, wc)[Len(s) + 1] = wc
        /\ Len(s) \in Nat /\ DOMAIN s = 1..Len(s)
    BY SeqFacts
  <2>2. b \in Seq(Buffers) /\ Len(b) = Len(s) /\ wc.buf \in Buffers
    BY <1>1 DEF Completion
  <2> DEFINE u == BuffersOf(Append(s, wc))
             v == Append(b, wc.buf)
  <2>3. u \in Seq(Buffers) /\ Len(u) = Len(s) + 1
        /\ \A i \in 1..Len(s) + 1 : u[i] = Append(s, wc)[i].buf
    BY <1>1, <2>1
  <2>4. v \in Seq(Buffers) /\ Len(v) = Len(s) + 1
        /\ (\A i \in DOMAIN b : v[i] = b[i]) /\ v[Len(s) + 1] = wc.buf
    BY <2>2, SeqFacts
  <2>5. ASSUME NEW i \in 1..Len(s) + 1
        PROVE  u[i] = v[i]
    <3>1. CASE i \in DOMAIN s
      BY <1>1, <2>1, <2>3, <2>4, <3>1
    <3>2. CASE i = Len(s) + 1
      BY <2>1, <2>3, <2>4, <3>2
    <3>3. Len(s) \in Nat /\ DOMAIN s = 1..Len(s)
      BY <2>1
    <3>4. i \in DOMAIN s \/ i = Len(s) + 1
      BY <3>3
    <3> QED
      BY <3>1, <3>2, <3>4
  <2> HIDE DEF u, v, b
  <2>6. u = v
    BY <2>3, <2>4, <2>5, SeqEqual
  <2> QED
    BY <2>6 DEF u, v
<1> QED
  BY <1>1, <1>2, <1>3

LEMMA ContentsTyped ==
    ASSUME Base
    PROVE  Contents \in [Stores -> Seq(Buffers)]
<1> SUFFICES ASSUME NEW k \in Stores
             PROVE  Contents[k] \in Seq(Buffers)
  BY DEF Contents
<1>1. CASE k = Pool
  BY <1>1, StoreTable DEF ContentsTable, Base, BufferTypes
<1>2. ASSUME NEW c \in Conns, k = Posted(c)
      PROVE  Contents[k] \in Seq(Buffers)
  BY <1>2, StoreTable DEF ContentsTable, Base, BufferTypes
<1>3. ASSUME NEW d \in Conns, k = Completed(d)
      PROVE  Contents[k] \in Seq(Buffers)
  <2>1. cqes[d] \in Seq(Completion)
    BY DEF Base, BufferTypes
  <2>2. Contents[k] = BuffersOf(cqes[d])
    BY <1>3, StoreTable DEF ContentsTable
  <2> QED
    BY <2>1, <2>2, BuffersOfSeq
<1>4. ASSUME NEW p \in Procs, k = Held(p)
      PROVE  Contents[k] \in Seq(Buffers)
  <2>1. Contents[k] = HeldBy(p)
    BY <1>4, StoreTable DEF ContentsTable
  <2>2. pc[p] \in {"post", "unpack"} => work[p].buf \in Buffers
    BY DEF Base, HeldInv
  <2> QED
    BY <2>1, <2>2 DEF HeldBy
<1> QED
  BY <1>1, <1>2, <1>3, <1>4, StoreNames

(* What a step does with the buffers.                                       *)
BufferMoves(from, to) == Moves(Stores, Contents, Contents', from, to)
BufferDrops(from) == Drops(Stores, Contents, Contents', from)
BuffersStay == \A k \in Stores : Contents'[k] = Contents[k]

LEMMA StoreStep ==
    ASSUME Base, OneReceiver,
           \/ \E from, to \in Stores : BufferMoves(from, to)
           \/ \E from \in Stores : BufferDrops(from)
           \/ BuffersStay
    PROVE  OneReceiver'
<1> DEFINE s == Contents
           t == Contents'
<1>1. Contents \in [Stores -> Seq(Buffers)]
  BY ContentsTyped
<1>2. Apart(Stores, Contents)
  BY OneReceiverIsApart
<1>3. ASSUME NEW from \in Stores, NEW to \in Stores, BufferMoves(from, to)
      PROVE  Apart(Stores, Contents')
  BY <1>1, <1>2, <1>3, MovedApart DEF BufferMoves
<1>4. ASSUME NEW from \in Stores, BufferDrops(from)
      PROVE  Apart(Stores, Contents')
  BY <1>1, <1>2, <1>4, DroppedApart DEF BufferDrops
<1>5. ASSUME BuffersStay
      PROVE  Apart(Stores, Contents')
  BY <1>2, <1>5 DEF BuffersStay, Apart
<1>6. Apart(Stores, Contents')
  BY <1>3, <1>4, <1>5
<1>7. Apart(Stores, Contents)' <=> Apart(Stores, Contents')
  BY DEF Apart
<1> QED
  BY <1>6, <1>7, OneReceiverIsApart

LEMMA OneReceiverInit ==
    ASSUME Init
    PROVE  OneReceiver
<1>1. free = SetToSeq(Buffers) /\ Contents[Pool] = free
  BY StoreTable DEF Init, ContentsTable
<1>2. ASSUME NEW k \in Stores, k # Pool
      PROVE  Contents[k] = << >>
  <2>1. ASSUME NEW c \in Conns, k = Posted(c)
        PROVE  Contents[k] = << >>
    BY <2>1, StoreTable DEF Init, ContentsTable
  <2>2. ASSUME NEW d \in Conns, k = Completed(d)
        PROVE  Contents[k] = << >>
    <3>1. cqes[d] = << >> /\ cqes[d] \in Seq(Completion)
      BY DEF Init
    <3>2. BuffersOf(cqes[d]) = << >>
      BY <3>1 DEF BuffersOf
    <3> QED
      BY <2>2, <3>2, StoreTable DEF ContentsTable
  <2>3. ASSUME NEW p \in Procs, k = Held(p)
        PROVE  Contents[k] = << >>
    BY <2>3, StoreTable DEF Init, ContentsTable, HeldBy
  <2> QED
    BY <1>2, <2>1, <2>2, <2>3, StoreNames
<1>3. Apart(Stores, Contents)
  <2> SUFFICES ASSUME NEW k \in Stores, NEW l \in Stores,
                      NEW i \in DOMAIN Contents[k], NEW j \in DOMAIN Contents[l],
                      Contents[k][i] = Contents[l][j]
               PROVE  k = l /\ i = j
    BY DEF Apart
  <2>1. DOMAIN << >> = {}
    OBVIOUS
  <2>2. k = Pool /\ l = Pool
    BY <1>2, <2>1
  <2> QED
    BY <1>1, <2>2, PoolIsFilled
<1> QED
  BY <1>3, OneReceiverIsApart

(* A store none of whose variables change.                                  *)
LEMMA StoreStays ==
    ASSUME NEW k \in Stores,
           k = Pool => free' = free,
           \A c \in Conns : k = Posted(c) => posted'[c] = posted[c],
           \A d \in Conns : k = Completed(d) => cqes'[d] = cqes[d],
           \A p \in Procs : k = Held(p) => HeldBy(p)' = HeldBy(p)
    PROVE  Contents'[k] = Contents[k]
<1>1. CASE k = Pool
  BY <1>1, StoreTable, StoreTableNext DEF ContentsTable
<1>2. ASSUME NEW c \in Conns, k = Posted(c)
      PROVE  Contents'[k] = Contents[k]
  BY <1>2, StoreTable, StoreTableNext DEF ContentsTable
<1>3. ASSUME NEW d \in Conns, k = Completed(d)
      PROVE  Contents'[k] = Contents[k]
  BY <1>3, StoreTable, StoreTableNext DEF ContentsTable
<1>4. ASSUME NEW p \in Procs, k = Held(p)
      PROVE  Contents'[k] = Contents[k]
  BY <1>4, StoreTable, StoreTableNext DEF ContentsTable
<1> QED
  BY <1>1, <1>2, <1>3, <1>4, StoreNames

LEMMA FillMoves ==
    ASSUME Base, NEW c \in Conns, NEW data \in Seq(Nat), Fill(c, data)
    PROVE  BufferMoves(Posted(c), Completed(c))
<1> DEFINE wc == [buf |-> Head(posted[c]), data |-> data]
<1>1. /\ posted[c] # << >> /\ posted' = [posted EXCEPT ![c] = Tail(@)]
      /\ cqes' = [cqes EXCEPT ![c] = Append(@, wc)]
      /\ UNCHANGED <<free, pc, work>>
  BY DEF Fill, procVars, history
<1>2. /\ posted \in [Conns -> Seq(Buffers)] /\ cqes \in [Conns -> Seq(Completion)]
  BY DEF Base, BufferTypes
<1>3. Head(posted[c]) \in Buffers
  BY <1>1, <1>2, SeqFacts
<1>4. wc \in Completion /\ wc.buf = Head(posted[c])
  BY <1>3 DEF Completion
<1> HIDE DEF wc
<1>5. BuffersOf(cqes'[c]) = Append(BuffersOf(cqes[c]), wc.buf)
  BY <1>1, <1>2, <1>4, BuffersOfSeq
<1>6. Contents'[Completed(c)] = Append(Contents[Completed(c)], Head(posted[c]))
  BY <1>2, <1>4, <1>5, StoreTable, StoreTableNext DEF ContentsTable
<1>7. /\ Contents[Posted(c)] = posted[c]
      /\ Contents'[Posted(c)] = Tail(posted[c])
  BY <1>1, <1>2, StoreTable, StoreTableNext DEF ContentsTable
<1>8. ASSUME NEW k \in Stores, k # Posted(c), k # Completed(c)
      PROVE  Contents'[k] = Contents[k]
  <2>1. \A d \in Conns : k = Posted(d) => posted'[d] = posted[d]
    BY <1>1, <1>2, <1>8
  <2>2. \A d \in Conns : k = Completed(d) => cqes'[d] = cqes[d]
    BY <1>1, <1>2, <1>8
  <2>3. \A p \in Procs : HeldBy(p)' = HeldBy(p)
    BY <1>1 DEF HeldBy
  <2> QED
    BY <1>1, <2>1, <2>2, <2>3, StoreStays
<1> QED
  BY <1>1, <1>2, <1>6, <1>7, <1>8, StoreNames DEF BufferMoves, Moves

LEMMA FlushDrops ==
    ASSUME Base, NEW c \in Conns, FlushRecv(c)
    PROVE  BufferDrops(Posted(c))
<1>1. /\ posted[c] # << >> /\ posted' = [posted EXCEPT ![c] = Tail(@)]
      /\ UNCHANGED <<free, cqes, pc, work>>
  BY DEF FlushRecv, procVars, history
<1>2. posted \in [Conns -> Seq(Buffers)]
  BY DEF Base, BufferTypes
<1>3. /\ Contents[Posted(c)] = posted[c]
      /\ Contents'[Posted(c)] = Tail(posted[c])
  BY <1>1, <1>2, StoreTable, StoreTableNext DEF ContentsTable
<1>4. ASSUME NEW k \in Stores, k # Posted(c)
      PROVE  Contents'[k] = Contents[k]
  <2>1. \A d \in Conns : k = Posted(d) => posted'[d] = posted[d]
    BY <1>1, <1>2, <1>4
  <2>2. \A p \in Procs : HeldBy(p)' = HeldBy(p)
    BY <1>1 DEF HeldBy
  <2> QED
    BY <1>1, <2>1, <2>2, StoreStays
<1> QED
  BY <1>1, <1>3, <1>4, StoreNames DEF BufferDrops, Drops

(* Steps that leave the pool, the queues and the buffers in hand alone.     *)
LEMMA OthersStay ==
    ASSUME UNCHANGED <<free, posted, cqes>>,
           \A p \in Procs : HeldBy(p)' = HeldBy(p)
    PROVE  BuffersStay
  BY StoreStays DEF BuffersStay

LEMMA RegisterStays ==
    ASSUME Base, NEW c \in Conns, Register(c)
    PROVE  BuffersStay
<1>1. /\ UNCHANGED <<free, posted, cqes>>
      /\ pc[c] = "register" /\ pc' = [pc EXCEPT ![c] = "alloc"]
      /\ work' = [work EXCEPT ![c].conn = c]
  BY DEF Register, Goto, nicVars, history
<1>2. ASSUME NEW p \in Procs
      PROVE  HeldBy(p)' = HeldBy(p)
  <2>1. CASE p = c
    BY <1>1, <2>1 DEF HeldBy, Base, ProcTypes
  <2>2. CASE p # c
    BY <1>1, <2>2 DEF HeldBy, Base, ProcTypes
  <2> QED
    BY <2>1, <2>2
<1> QED
  BY <1>1, <1>2, OthersStay

LEMMA AllocMoves ==
    ASSUME Base, NEW p \in Procs, AllocBuffer(p)
    PROVE  BufferMoves(Pool, Held(p)) \/ BuffersStay
<1>1. CASE free # << >>
  <2>1. /\ pc[p] = "alloc" /\ pc' = [pc EXCEPT ![p] = "post"]
        /\ free' = Tail(free)
        /\ work' = [work EXCEPT ![p].buf = Head(free)]
        /\ UNCHANGED <<posted, cqes>>
    BY <1>1 DEF AllocBuffer, Goto, nicVars, history
  <2>2. work[p] \in Holding /\ pc \in [Procs -> SetUpLocations \union PollerLocations]
        /\ work \in [Procs -> Holding]
    BY DEF Base, ProcTypes
  <2>3. HeldBy(p) = << >> /\ HeldBy(p)' = <<Head(free)>>
    BY <2>1, <2>2 DEF HeldBy, Holding
  <2>4. Contents[Held(p)] = << >> /\ Contents'[Held(p)] = <<Head(free)>>
    BY <2>3, StoreTable, StoreTableNext DEF ContentsTable
  <2>5. Contents'[Held(p)] = Append(Contents[Held(p)], Head(free))
    BY <2>4
  <2>6. Contents[Pool] = free /\ Contents'[Pool] = Tail(free)
    BY <2>1, StoreTable, StoreTableNext DEF ContentsTable
  <2>7. ASSUME NEW k \in Stores, k # Pool, k # Held(p)
        PROVE  Contents'[k] = Contents[k]
    <3>1. \A r \in Procs : k = Held(r) => HeldBy(r)' = HeldBy(r)
      BY <2>1, <2>2, <2>7 DEF HeldBy
    <3> QED
      BY <2>1, <2>7, <3>1, StoreStays
  <2> QED
    BY <1>1, <2>5, <2>6, <2>7, StoreNames DEF BufferMoves, Moves
<1>2. CASE free = << >>
  <2>1. /\ pc[p] = "alloc" /\ pc' = [pc EXCEPT ![p] = AfterError(p)]
        /\ work' = [work EXCEPT ![p] = Idle]
        /\ UNCHANGED <<free, posted, cqes>>
    BY <1>2 DEF AllocBuffer, Goto, nicVars, history
  <2>2. ASSUME NEW r \in Procs
        PROVE  HeldBy(r)' = HeldBy(r)
    <3>1. AfterError(p) \notin {"post", "unpack"}
      BY DEF AfterError
    <3>2. CASE r = p
      BY <2>1, <3>1, <3>2 DEF HeldBy, Base, ProcTypes
    <3>3. CASE r # p
      BY <2>1, <3>3 DEF HeldBy, Base, ProcTypes
    <3> QED
      BY <3>2, <3>3
  <2> QED
    BY <2>1, <2>2, OthersStay
<1> QED
  BY <1>1, <1>2

-----------------------------------------------------------------------------
(* A goroutine lets go of the buffer it holds.                              *)
LEMMA HandedOver ==
    ASSUME Base, NEW p \in Procs, pc[p] = "post",
           NEW loc, loc \notin {"post", "unpack"}, pc' = [pc EXCEPT ![p] = loc],
           NEW w, work' = [work EXCEPT ![p] = w]
    PROVE  /\ Contents[Held(p)] = <<work[p].buf>>
           /\ Contents'[Held(p)] = << >>
           /\ Contents[Held(p)] # << >>
           /\ Head(Contents[Held(p)]) = work[p].buf
           /\ Contents'[Held(p)] = Tail(Contents[Held(p)])
           /\ \A r \in Procs : Held(r) # Held(p) => HeldBy(r)' = HeldBy(r)
<1>1. pc'[p] = loc /\ \A r \in Procs : r # p => pc'[r] = pc[r] /\ work'[r] = work[r]
  BY DEF Base, ProcTypes
<1>2. HeldBy(p) = <<work[p].buf>> /\ HeldBy(p)' = << >>
  BY <1>1 DEF HeldBy
<1>3. Contents[Held(p)] = <<work[p].buf>> /\ Contents'[Held(p)] = << >>
  BY <1>2, StoreTable, StoreTableNext DEF ContentsTable
<1>4. work[p].buf \in Buffers
  BY DEF Base, HeldInv
<1>5. /\ <<work[p].buf>> # << >>
      /\ Head(<<work[p].buf>>) = work[p].buf
      /\ Tail(<<work[p].buf>>) = << >>
  OBVIOUS
<1>6. \A r \in Procs : Held(r) # Held(p) => HeldBy(r)' = HeldBy(r)
  BY <1>1 DEF HeldBy
<1> QED
  BY <1>3, <1>5, <1>6

LEMMA PostRecvMoves ==
    ASSUME Base, NEW p \in Procs, PostRecv(p)
    PROVE  BufferMoves(Held(p), Posted(work[p].conn))
<1> DEFINE c == work[p].conn
<1> DEFINE more == p # Poller /\ left[p] > 1
           loc == CASE p = Poller -> "poll"
                    [] more -> "alloc"
                    [] OTHER -> "connected"
           w == IF more THEN [Idle EXCEPT !.conn = p] ELSE Idle
<1>0. loc \notin {"post", "unpack"}
  OBVIOUS
<1>1. /\ pc[p] = "post" /\ pc' = [pc EXCEPT ![p] = loc]
      /\ work' = [work EXCEPT ![p] = w]
      /\ posted' = [posted EXCEPT ![c] = Append(@, work[p].buf)]
      /\ UNCHANGED <<free, cqes>>
  BY DEF PostRecv, Goto
<1> HIDE DEF loc, w
<1>2. c \in Conns /\ posted \in [Conns -> Seq(Buffers)]
  BY <1>1, RunnerConn DEF Base, BufferTypes
<1>3. /\ Contents[Held(p)] # << >>
      /\ Head(Contents[Held(p)]) = work[p].buf
      /\ Contents'[Held(p)] = Tail(Contents[Held(p)])
      /\ \A r \in Procs : Held(r) # Held(p) => HeldBy(r)' = HeldBy(r)
  BY <1>0, <1>1, HandedOver
<1> HIDE DEF c
<1>4. /\ Contents[Posted(c)] = posted[c]
      /\ Contents'[Posted(c)] = Append(posted[c], work[p].buf)
  BY <1>1, <1>2, StoreTable, StoreTableNext DEF ContentsTable, c
<1>5. ASSUME NEW k \in Stores, k # Posted(c), k # Held(p)
      PROVE  Contents'[k] = Contents[k]
  <2>1. \A d \in Conns : k = Posted(d) => posted'[d] = posted[d]
    BY <1>1, <1>2, <1>5 DEF c
  <2>2. \A r \in Procs : k = Held(r) => HeldBy(r)' = HeldBy(r)
    BY <1>3, <1>5
  <2> QED
    BY <1>1, <2>1, <2>2, StoreStays
<1> QED
  BY <1>2, <1>3, <1>4, <1>5, StoreNames DEF BufferMoves, Moves, c

LEMMA PostRecvFailsMoves ==
    ASSUME Base, NEW p \in Procs, PostRecvFails(p)
    PROVE  BufferMoves(Held(p), Pool)
<1>1. /\ pc[p] = "post" /\ pc' = [pc EXCEPT ![p] = AfterError(p)]
      /\ work' = [work EXCEPT ![p] = Idle]
      /\ free' = Append(free, work[p].buf)
      /\ UNCHANGED <<posted, cqes>>
  BY DEF PostRecvFails, Goto, nicVars, history
<1>2. /\ Contents[Held(p)] # << >>
      /\ Head(Contents[Held(p)]) = work[p].buf
      /\ Contents'[Held(p)] = Tail(Contents[Held(p)])
      /\ \A r \in Procs : Held(r) # Held(p) => HeldBy(r)' = HeldBy(r)
  <2>1. AfterError(p) \notin {"post", "unpack"}
    BY DEF AfterError
  <2> QED
    BY <1>1, <2>1, HandedOver
<1>3. Contents[Pool] = free /\ Contents'[Pool] = Append(free, work[p].buf)
  BY <1>1, StoreTable, StoreTableNext DEF ContentsTable
<1>4. ASSUME NEW k \in Stores, k # Pool, k # Held(p)
      PROVE  Contents'[k] = Contents[k]
  BY <1>1, <1>2, <1>4, StoreStays
<1> QED
  BY <1>2, <1>3, <1>4, StoreNames DEF BufferMoves, Moves

(* The poller reads the buffer, or leaks it.                                *)
LEMMA PollMoves ==
    ASSUME Base, NEW c \in Conns, Poll(c)
    PROVE  BufferMoves(Completed(c), Held(Poller)) \/ BufferDrops(Completed(c))
<1> DEFINE wc == Head(cqes[c])
           loc == IF wc.data # << >> /\ Known(handler[CQOf[c]], wc.buf)
                  THEN "unpack" ELSE "alloc"
           w == [conn |-> handler[CQOf[c]], buf |-> wc.buf, data |-> wc.data]
<1>1. /\ pc[Poller] = "poll" /\ pc' = [pc EXCEPT ![Poller] = loc]
      /\ w.buf = wc.buf /\ work' = [work EXCEPT ![Poller] = w]
      /\ cqes[c] # << >> /\ cqes' = [cqes EXCEPT ![c] = Tail(@)]
      /\ UNCHANGED <<free, posted>>
  BY DEF Poll, TakeCompletion, Goto
<1>0. loc \in {"unpack", "alloc"}
  OBVIOUS
<1> HIDE DEF loc, w
<1>2. cqes \in [Conns -> Seq(Completion)] /\ cqes[c] \in Seq(Completion) /\ Poller \in Procs
  BY Names DEF Base, BufferTypes
<1>3. /\ BuffersOf(cqes[c]) # << >>
      /\ Head(BuffersOf(cqes[c])) = wc.buf
      /\ BuffersOf(cqes'[c]) = Tail(BuffersOf(cqes[c]))
  BY <1>1, <1>2, BuffersOfSeq
<1>4. /\ Contents[Completed(c)] # << >>
      /\ Head(Contents[Completed(c)]) = wc.buf
      /\ Contents'[Completed(c)] = Tail(Contents[Completed(c)])
  BY <1>3, StoreTable, StoreTableNext DEF ContentsTable
<1>5. pc'[Poller] = loc /\ work'[Poller] = w
      /\ \A r \in Procs : r # Poller => pc'[r] = pc[r] /\ work'[r] = work[r]
  BY <1>1, <1>2 DEF Base, ProcTypes
<1>6. ASSUME NEW k \in Stores, k # Completed(c), k # Held(Poller)
      PROVE  Contents'[k] = Contents[k]
  <2>1. \A d \in Conns : k = Completed(d) => cqes'[d] = cqes[d]
    BY <1>1, <1>2, <1>6
  <2>2. \A r \in Procs : k = Held(r) => HeldBy(r)' = HeldBy(r)
    BY <1>5, <1>6 DEF HeldBy
  <2> QED
    BY <1>1, <2>1, <2>2, StoreStays
<1>7. Contents[Held(Poller)] = << >>
  BY <1>1, <1>2, StoreTable DEF ContentsTable, HeldBy
<1>8. CASE loc = "unpack"
  <2>1. Contents'[Held(Poller)] = <<wc.buf>>
    BY <1>2, <1>1, <1>5, <1>8, StoreTableNext DEF ContentsTable, HeldBy
  <2>2. Contents'[Held(Poller)] = Append(Contents[Held(Poller)], wc.buf)
    BY <1>7, <2>1
  <2> QED
    BY <1>2, <1>4, <1>6, <2>2, StoreNames DEF BufferMoves, Moves
<1>9. CASE loc = "alloc"
  <2>1. Contents'[Held(Poller)] = << >>
    BY <1>2, <1>5, <1>9, StoreTableNext DEF ContentsTable, HeldBy
  <2>2. \A k \in Stores : k # Completed(c) => Contents'[k] = Contents[k]
    BY <1>6, <1>7, <2>1
  <2> QED
    BY <1>4, <2>2, StoreNames DEF BufferDrops, Drops
<1> QED
  BY <1>0, <1>8, <1>9

(* The buffer that has been unpacked is not freed.                          *)
LEMMA UnpackDrops ==
    ASSUME Base, Unpack
    PROVE  BufferDrops(Held(Poller))
<1>1. PICK loc \in {"alloc", "deliver"} :
         /\ pc[Poller] = "unpack" /\ pc' = [pc EXCEPT ![Poller] = loc]
         /\ UNCHANGED <<free, posted, cqes>>
  BY DEF Unpack, Unpacked, Goto, nicVars, history
<1>2. Poller \in Procs /\ \A r \in Procs : r # Poller => work'[r] = work[r]
  BY Names DEF Unpack, Unpacked, Base, ProcTypes
<1>3. pc'[Poller] = loc /\ \A r \in Procs : r # Poller => pc'[r] = pc[r]
  BY <1>1, <1>2 DEF Base, ProcTypes
<1>4. Contents[Held(Poller)] = <<work[Poller].buf>> /\ Contents'[Held(Poller)] = << >>
  BY <1>1, <1>2, <1>3, StoreTable, StoreTableNext DEF ContentsTable, HeldBy
<1>5. <<work[Poller].buf>> # << >> /\ Tail(<<work[Poller].buf>>) = << >>
  OBVIOUS
<1>6. ASSUME NEW k \in Stores, k # Held(Poller)
      PROVE  Contents'[k] = Contents[k]
  <2>1. \A r \in Procs : k = Held(r) => HeldBy(r)' = HeldBy(r)
    BY <1>2, <1>3, <1>6 DEF HeldBy
  <2> QED
    BY <1>1, <2>1, StoreStays
<1> QED
  BY <1>2, <1>4, <1>5, <1>6, StoreNames DEF BufferDrops, Drops

LEMMA DeliverStays ==
    ASSUME Base, Deliver
    PROVE  BuffersStay
<1>1. /\ UNCHANGED <<free, posted, cqes>>
      /\ pc[Poller] = "deliver"
      /\ \E loc \in {"panicked", "alloc", "deliver"} : pc' = [pc EXCEPT ![Poller] = loc]
      /\ work' = work \/ work' = [work EXCEPT ![Poller].data = Tail(@)]
  BY DEF Deliver, Goto, nicVars, history
<1>2. pc'[Poller] \notin {"post", "unpack"} /\ pc[Poller] \notin {"post", "unpack"}
      /\ \A r \in Procs : r # Poller => pc'[r] = pc[r] /\ work'[r] = work[r]
  BY <1>1, Names DEF Base, ProcTypes
<1>3. \A r \in Procs : HeldBy(r)' = HeldBy(r)
  BY <1>2 DEF HeldBy
<1> QED
  BY <1>1, <1>3, OthersStay

LEMMA NextOneReceiver ==
    ASSUME Base, OneReceiver, [Next]_vars
    PROVE  OneReceiver'
<1>1. ASSUME NEW c \in Conns, Arrive(c) \/ ArriveSpoilt(c)
      PROVE  OneReceiver'
  <2>1. PICK data \in Seq(Nat) : Fill(c, data)
    BY <1>1, ArriveBase
  <2> QED
    BY <2>1, FillMoves, Names, StoreNames, StoreStep
<1>2. ASSUME NEW c \in Conns, FlushRecv(c)
      PROVE  OneReceiver'
  BY <1>2, FlushDrops, StoreNames, StoreStep
<1>3. ASSUME NEW p \in Procs, PostRecvBuffers(p)
      PROVE  OneReceiver'
  <2>1. CASE AllocBuffer(p)
    BY <2>1, AllocMoves, StoreNames, StoreStep
  <2>2. CASE PostRecv(p)
    <3>1. work[p].conn \in Conns
      BY <2>2, RunnerConn DEF PostRecv, Goto
    <3> QED
      BY <2>2, <3>1, PostRecvMoves, StoreNames, StoreStep
  <2>3. CASE PostRecvFails(p)
    BY <2>3, PostRecvFailsMoves, StoreNames, StoreStep
  <2> QED
    BY <1>3, <2>1, <2>2, <2>3 DEF PostRecvBuffers
<1>4. ASSUME NEW c \in Conns, Register(c) \/ Recv(c) \/ Close(c)
      PROVE  OneReceiver'
  <2>1. CASE Register(c)
    BY <2>1, RegisterStays, StoreStep
  <2>2. CASE Recv(c) \/ Close(c)
    <3>1. UNCHANGED <<free, posted, cqes, pc, work>>
      BY <2>2 DEF Recv, Close, nicVars, procVars, history
    <3> QED
      BY <3>1, OthersStay, StoreStep DEF HeldBy
  <2> QED
    BY <1>4, <2>1, <2>2
<1>5. ASSUME NEW c \in Conns, Poll(c)
      PROVE  OneReceiver'
  BY <1>5, Names, PollMoves, StoreNames, StoreStep
<1>6. ASSUME OnCompletion
      PROVE  OneReceiver'
  BY <1>6, Names, UnpackDrops, DeliverStays, StoreNames, StoreStep DEF OnCompletion
<1>7. ASSUME UNCHANGED vars
      PROVE  OneReceiver'
  <2>1. UNCHANGED <<free, posted, cqes, pc, work>>
    BY <1>7 DEF vars, nicVars, procVars, history
  <2> QED
    BY <2>1, OthersStay, StoreStep DEF HeldBy
<1> QED
  BY <1>1, <1>2, <1>3, <1>4, <1>5, <1>6, <1>7, Names DEF Next, PollerStep

(* A receive buffer is in one place at a time, though it goes from the pool *)
(* to the NIC and to the poller without a lock that all of them share.      *)
THEOREM EachBufferHasOneReceiver == Spec => []OneReceiver
<1>1. Init => OneReceiver
  BY OneReceiverInit
<1>2. Base /\ OneReceiver /\ [Next]_vars => OneReceiver'
  BY NextOneReceiver
<1> QED
  BY <1>1, <1>2, BaseInvariant, PTL DEF Spec

-----------------------------------------------------------------------------
(* A buffer that c is about to post, has posted or has a completion for.    *)
IsPosted(c, b) == \E i \in DOMAIN posted[c] : posted[c][i] = b
IsPosting(c, b) ==
    \E p \in Procs : pc[p] = "post" /\ work[p].conn = c /\ work[p].buf = b
IsCompleted(c, b) == \E i \in DOMAIN cqes[c] : cqes[c][i].buf = b
Tracked ==
    \A c \in Conns, b \in Buffers :
        IsPosted(c, b) \/ IsPosting(c, b) \/ IsCompleted(c, b) => Known(c, b)

(* A step that enters no buffer and takes none out of a map.                *)
LEMMA TrackedStays ==
    ASSUME Tracked, recvBufs' = recvBufs,
           \A c \in Conns, b \in Buffers :
              (IsPosted(c, b) \/ IsPosting(c, b) \/ IsCompleted(c, b))' =>
                  IsPosted(c, b) \/ IsPosting(c, b) \/ IsCompleted(c, b)
    PROVE  Tracked'
  BY DEF Tracked, Known

LEMMA FillTracked ==
    ASSUME Base, Tracked, NEW c \in Conns, NEW data \in Seq(Nat), Fill(c, data)
    PROVE  Tracked'
<1> DEFINE wc == [buf |-> Head(posted[c]), data |-> data]
<1>1. /\ posted[c] # << >> /\ posted' = [posted EXCEPT ![c] = Tail(@)]
      /\ cqes' = [cqes EXCEPT ![c] = Append(@, wc)]
      /\ UNCHANGED <<recvBufs, pc, work>>
  BY DEF Fill, procVars, history
<1>2. /\ posted \in [Conns -> Seq(Buffers)] /\ cqes \in [Conns -> Seq(Completion)]
  BY DEF Base, BufferTypes
<1>3. Head(posted[c]) \in Buffers /\ Head(posted[c]) = posted[c][1]
      /\ 1 \in DOMAIN posted[c] /\ DOMAIN Tail(posted[c]) = 1..Len(posted[c]) - 1
      /\ DOMAIN posted[c] = 1..Len(posted[c]) /\ Len(posted[c]) \in Nat
      /\ \A i \in DOMAIN Tail(posted[c]) : Tail(posted[c])[i] = posted[c][i + 1]
  BY <1>1, <1>2, SeqFacts
<1>4. wc \in Completion /\ wc.buf = Head(posted[c])
  BY <1>3 DEF Completion
<1> HIDE DEF wc
<1>5. ASSUME NEW d \in Conns, NEW b \in Buffers, IsPosted(d, b)'
      PROVE  IsPosted(d, b)
  <2>1. PICK i \in DOMAIN posted'[d] : posted'[d][i] = b
    BY <1>5 DEF IsPosted
  <2>2. CASE d # c
    BY <1>1, <1>2, <2>1, <2>2 DEF IsPosted
  <2>3. CASE d = c
    <3>1. posted'[d] = Tail(posted[c])
      BY <1>1, <1>2, <2>3
    <3>2. i + 1 \in DOMAIN posted[c]
      BY <1>3, <2>1, <3>1
    <3> QED
      BY <1>3, <2>1, <2>3, <3>1, <3>2 DEF IsPosted
  <2> QED
    BY <2>2, <2>3
<1>6. ASSUME NEW d \in Conns, NEW b \in Buffers, IsCompleted(d, b)'
      PROVE  IsPosted(d, b) \/ IsCompleted(d, b)
  <2>1. PICK i \in DOMAIN cqes'[d] : cqes'[d][i].buf = b
    BY <1>6 DEF IsCompleted
  <2>2. CASE d # c
    BY <1>1, <1>2, <2>1, <2>2 DEF IsCompleted
  <2>3. CASE d = c
    <3>1. cqes'[c] = Append(cqes[c], wc) /\ cqes[c] \in Seq(Completion)
      BY <1>1, <1>2
    <3>2. DOMAIN cqes'[c] = 1..Len(cqes[c]) + 1 /\ cqes'[c][Len(cqes[c]) + 1] = wc
          /\ DOMAIN cqes[c] = 1..Len(cqes[c]) /\ Len(cqes[c]) \in Nat
          /\ \A j \in DOMAIN cqes[c] : cqes'[c][j] = cqes[c][j]
      BY <1>4, <3>1, SeqFacts
    <3>3. CASE i \in DOMAIN cqes[c]
      BY <1>2, <2>1, <2>3, <3>2, <3>3 DEF IsCompleted
    <3>4. CASE i = Len(cqes[c]) + 1
      BY <1>3, <1>4, <2>1, <2>3, <3>2, <3>4 DEF IsPosted
    <3> QED
      BY <2>1, <2>3, <3>2, <3>3, <3>4
  <2> QED
    BY <2>2, <2>3
<1>7. \A d \in Conns, b \in Buffers : IsPosting(d, b)' => IsPosting(d, b)
  BY <1>1 DEF IsPosting
<1> QED
  BY <1>1, <1>5, <1>6, <1>7, TrackedStays

LEMMA FlushTracked ==
    ASSUME Base, Tracked, NEW c \in Conns, FlushRecv(c)
    PROVE  Tracked'
<1>1. /\ posted[c] # << >> /\ posted' = [posted EXCEPT ![c] = Tail(@)]
      /\ UNCHANGED <<recvBufs, cqes, pc, work>>
  BY DEF FlushRecv, procVars, history
<1>2. posted \in [Conns -> Seq(Buffers)]
  BY DEF Base, BufferTypes
<1>3. DOMAIN Tail(posted[c]) = 1..Len(posted[c]) - 1
      /\ DOMAIN posted[c] = 1..Len(posted[c]) /\ Len(posted[c]) \in Nat
      /\ \A i \in DOMAIN Tail(posted[c]) : Tail(posted[c])[i] = posted[c][i + 1]
  BY <1>1, <1>2, SeqFacts
<1>4. ASSUME NEW d \in Conns, NEW b \in Buffers, IsPosted(d, b)'
      PROVE  IsPosted(d, b)
  <2>1. PICK i \in DOMAIN posted'[d] : posted'[d][i] = b
    BY <1>4 DEF IsPosted
  <2>2. CASE d # c
    BY <1>1, <1>2, <2>1, <2>2 DEF IsPosted
  <2>3. CASE d = c
    <3>1. posted'[d] = Tail(posted[c])
      BY <1>1, <1>2, <2>3
    <3>2. i + 1 \in DOMAIN posted[c]
      BY <1>3, <2>1, <3>1
    <3> QED
      BY <1>3, <2>1, <2>3, <3>1, <3>2 DEF IsPosted
  <2> QED
    BY <2>2, <2>3
<1>5. \A d \in Conns, b \in Buffers : IsPosting(d, b)' => IsPosting(d, b)
  BY <1>1 DEF IsPosting
<1>6. \A d \in Conns, b \in Buffers : IsCompleted(d, b)' => IsCompleted(d, b)
  BY <1>1 DEF IsCompleted
<1> QED
  BY <1>1, <1>4, <1>5, <1>6, TrackedStays

(* Steps of a goroutine that do not post.                                   *)
LEMMA OthersTracked ==
    ASSUME Tracked, UNCHANGED <<recvBufs, posted, cqes>>,
           \A p \in Procs : pc'[p] = "post" => pc[p] = "post" /\ work'[p] = work[p]
    PROVE  Tracked'
<1>1. \A d \in Conns, b \in Buffers : IsPosting(d, b)' => IsPosting(d, b)
  BY DEF IsPosting
<1>2. \A d \in Conns, b \in Buffers : IsCompleted(d, b)' => IsCompleted(d, b)
  BY DEF IsCompleted
<1>3. \A d \in Conns, b \in Buffers : IsPosted(d, b)' => IsPosted(d, b)
  BY DEF IsPosted
<1> QED
  BY <1>1, <1>2, <1>3, TrackedStays

LEMMA AllocTracked ==
    ASSUME Base, Tracked, NEW p \in Procs, AllocBuffer(p)
    PROVE  Tracked'
<1> DEFINE c == work[p].conn
<1>1. CASE free # << >>
  <2>1. /\ pc[p] = "alloc" /\ pc' = [pc EXCEPT ![p] = "post"]
        /\ work' = [work EXCEPT ![p].buf = Head(free)]
        /\ recvBufs' = [recvBufs EXCEPT ![c] = @ \union {Head(free)}]
        /\ UNCHANGED <<posted, cqes>>
    BY <1>1 DEF AllocBuffer, Track, Goto, nicVars, history
  <2>2. /\ work[p] \in Holding /\ c \in Conns
        /\ pc \in [Procs -> SetUpLocations \union PollerLocations]
        /\ work \in [Procs -> Holding] /\ recvBufs \in [Conns -> SUBSET Buffers]
    BY <2>1, RunnerConn DEF Base, ProcTypes, BufferTypes
  <2>3. work'[p].conn = c /\ work'[p].buf = Head(free)
    BY <2>1, <2>2 DEF Holding
  <2> HIDE DEF c
  <2>4. Head(free) \in recvBufs'[c] /\ \A d \in Conns : recvBufs[d] \subseteq recvBufs'[d]
    BY <2>1, <2>2
  <2>5. ASSUME NEW d \in Conns, NEW b \in Buffers, IsPosting(d, b)'
        PROVE  b \in recvBufs'[d]
    <3>1. PICK r \in Procs : pc'[r] = "post" /\ work'[r].conn = d /\ work'[r].buf = b
      BY <2>5 DEF IsPosting
    <3>2. CASE r = p
      BY <2>3, <2>4, <3>1, <3>2
    <3>3. CASE r # p
      <4>1. pc[r] = "post" /\ work[r].conn = d /\ work[r].buf = b
        BY <2>1, <2>2, <3>1, <3>3
      <4> QED
        BY <2>4, <3>1, <4>1 DEF IsPosting, Tracked, Known
    <3> QED
      BY <3>2, <3>3
  <2>6. ASSUME NEW d \in Conns, NEW b \in Buffers, IsPosted(d, b)' \/ IsCompleted(d, b)'
        PROVE  b \in recvBufs'[d]
    BY <2>1, <2>4, <2>6 DEF IsPosted, IsCompleted, Tracked, Known
  <2> QED
    BY <2>5, <2>6 DEF Tracked, Known
<1>2. CASE free = << >>
  <2>1. /\ pc[p] = "alloc" /\ pc' = [pc EXCEPT ![p] = AfterError(p)]
        /\ work' = [work EXCEPT ![p] = Idle]
        /\ UNCHANGED <<recvBufs, posted, cqes>>
    BY <1>2 DEF AllocBuffer, Goto, nicVars, history
  <2>2. AfterError(p) # "post"
    BY DEF AfterError
  <2>3. \A r \in Procs : pc'[r] = "post" => pc[r] = "post" /\ work'[r] = work[r]
    BY <2>1, <2>2 DEF Base, ProcTypes
  <2> QED
    BY <2>1, <2>3, OthersTracked
<1> QED
  BY <1>1, <1>2

LEMMA PostRecvTracked ==
    ASSUME Base, Tracked, NEW p \in Procs, PostRecv(p)
    PROVE  Tracked'
<1> DEFINE c == work[p].conn
           more == p # Poller /\ left[p] > 1
           loc == CASE p = Poller -> "poll"
                    [] more -> "alloc"
                    [] OTHER -> "connected"
           w == IF more THEN [Idle EXCEPT !.conn = p] ELSE Idle
<1>0. loc # "post"
  OBVIOUS
<1>1. /\ pc[p] = "post" /\ pc' = [pc EXCEPT ![p] = loc]
      /\ work' = [work EXCEPT ![p] = w]
      /\ posted' = [posted EXCEPT ![c] = Append(@, work[p].buf)]
      /\ UNCHANGED <<recvBufs, cqes>>
  BY DEF PostRecv, Goto
<1>2. c \in Conns /\ work[p].buf \in Buffers /\ posted \in [Conns -> Seq(Buffers)]
  BY <1>1, RunnerConn DEF Base, BufferTypes
<1> HIDE DEF loc, w, c
<1>3. /\ DOMAIN Append(posted[c], work[p].buf) = 1..Len(posted[c]) + 1
      /\ DOMAIN posted[c] = 1..Len(posted[c]) /\ Len(posted[c]) \in Nat
      /\ \A i \in DOMAIN posted[c] : Append(posted[c], work[p].buf)[i] = posted[c][i]
      /\ Append(posted[c], work[p].buf)[Len(posted[c]) + 1] = work[p].buf
  BY <1>2, SeqFacts
<1>4. ASSUME NEW d \in Conns, NEW b \in Buffers, IsPosted(d, b)'
      PROVE  IsPosted(d, b) \/ IsPosting(d, b)
  <2>1. PICK i \in DOMAIN posted'[d] : posted'[d][i] = b
    BY <1>4 DEF IsPosted
  <2>2. CASE d # c
    BY <1>1, <1>2, <2>1, <2>2 DEF IsPosted
  <2>3. CASE d = c
    <3>1. posted'[d] = Append(posted[c], work[p].buf)
      BY <1>1, <1>2, <2>3
    <3>2. CASE i \in DOMAIN posted[c]
      BY <1>3, <2>1, <2>3, <3>1, <3>2 DEF IsPosted
    <3>3. CASE i = Len(posted[c]) + 1
      BY <1>1, <1>3, <2>1, <2>3, <3>1, <3>3 DEF IsPosting, c
    <3> QED
      BY <1>3, <2>1, <3>1, <3>2, <3>3
  <2> QED
    BY <2>2, <2>3
<1>5. \A r \in Procs : pc'[r] = "post" => pc[r] = "post" /\ work'[r] = work[r]
  BY <1>0, <1>1 DEF Base, ProcTypes
<1>6. \A d \in Conns, b \in Buffers : IsPosting(d, b)' => IsPosting(d, b)
  BY <1>5 DEF IsPosting
<1>7. \A d \in Conns, b \in Buffers : IsCompleted(d, b)' => IsCompleted(d, b)
  BY <1>1 DEF IsCompleted
<1> QED
  BY <1>1, <1>4, <1>6, <1>7, TrackedStays

(* A buffer in a store is in no other one, nor in another place of it.      *)
LEMMA OnePlace ==
    ASSUME OneReceiver, NEW k \in Stores, NEW l \in Stores,
           NEW i \in DOMAIN Contents[k], NEW j \in DOMAIN Contents[l],
           Contents[k][i] = Contents[l][j]
    PROVE  k = l /\ i = j
  BY OneReceiverIsApart DEF Apart

LEMMA Places ==
    ASSUME Base
    PROVE  /\ \A c \in Conns : /\ DOMAIN Contents[Posted(c)] = DOMAIN posted[c]
                               /\ \A i \in DOMAIN posted[c] :
                                     Contents[Posted(c)][i] = posted[c][i]
           /\ \A c \in Conns : /\ DOMAIN Contents[Completed(c)] = DOMAIN cqes[c]
                             /\ \A i \in DOMAIN cqes[c] :
                                   Contents[Completed(c)][i] = cqes[c][i].buf
           /\ \A p \in Procs : pc[p] = "post" =>
                 1 \in DOMAIN Contents[Held(p)] /\ Contents[Held(p)][1] = work[p].buf
<1>1. \A c \in Conns : /\ DOMAIN Contents[Completed(c)] = DOMAIN cqes[c]
                     /\ \A i \in DOMAIN cqes[c] :
                           Contents[Completed(c)][i] = cqes[c][i].buf
  BY StoreTable DEF ContentsTable, BuffersOf
<1>2. \A p \in Procs : pc[p] = "post" =>
         1 \in DOMAIN Contents[Held(p)] /\ Contents[Held(p)][1] = work[p].buf
  <2> SUFFICES ASSUME NEW p \in Procs, pc[p] = "post"
               PROVE  1 \in DOMAIN Contents[Held(p)] /\ Contents[Held(p)][1] = work[p].buf
    OBVIOUS
  <2>1. Contents[Held(p)] = <<work[p].buf>>
    BY StoreTable DEF ContentsTable, HeldBy
  <2>2. 1 \in DOMAIN <<work[p].buf>> /\ <<work[p].buf>>[1] = work[p].buf
    OBVIOUS
  <2> QED
    BY <2>1, <2>2
<1> QED
  BY <1>1, <1>2, StoreTable DEF ContentsTable

LEMMA PostRecvFailsTracked ==
    ASSUME Base, OneReceiver, Tracked, NEW p \in Procs, PostRecvFails(p)
    PROVE  Tracked'
<1> DEFINE c == work[p].conn
           e == work[p].buf
<1>1. /\ pc[p] = "post" /\ pc' = [pc EXCEPT ![p] = AfterError(p)]
      /\ work' = [work EXCEPT ![p] = Idle]
      /\ recvBufs' = [recvBufs EXCEPT ![c] = @ \ {e}]
      /\ UNCHANGED <<posted, cqes>>
  BY DEF PostRecvFails, Goto, nicVars, history
<1>2. c \in Conns /\ recvBufs \in [Conns -> SUBSET Buffers]
  BY <1>1, RunnerConn DEF Base, BufferTypes
<1> HIDE DEF c, e
<1>3. \A d \in Conns : recvBufs[d] \ {e} \subseteq recvBufs'[d]
  BY <1>1, <1>2
<1>4. Held(p) \in Stores /\ 1 \in DOMAIN Contents[Held(p)] /\ Contents[Held(p)][1] = e
  BY <1>1, Places, StoreNames DEF e
<1>5. ASSUME NEW d \in Conns, NEW b \in Buffers, IsPosted(d, b)'
      PROVE  b \in recvBufs'[d]
  <2>1. PICK i \in DOMAIN posted[d] : posted[d][i] = b
    BY <1>1, <1>5 DEF IsPosted
  <2>2. b # e
    <3>1. /\ Posted(d) \in Stores /\ Posted(d) # Held(p)
          /\ i \in DOMAIN Contents[Posted(d)] /\ Contents[Posted(d)][i] = b
      BY <2>1, Places, StoreNames
    <3> QED
      BY <1>4, <3>1, OnePlace
  <2> QED
    BY <1>3, <2>1, <2>2 DEF Tracked, Known, IsPosted
<1>6. ASSUME NEW d \in Conns, NEW b \in Buffers, IsCompleted(d, b)'
      PROVE  b \in recvBufs'[d]
  <2>1. PICK i \in DOMAIN cqes[d] : cqes[d][i].buf = b
    BY <1>1, <1>6 DEF IsCompleted
  <2>2. b # e
    <3>1. /\ Completed(d) \in Stores /\ Completed(d) # Held(p)
          /\ i \in DOMAIN Contents[Completed(d)] /\ Contents[Completed(d)][i] = b
      BY <2>1, Places, StoreNames
    <3> QED
      BY <1>4, <3>1, OnePlace
  <2> QED
    BY <1>3, <2>1, <2>2 DEF Tracked, Known, IsCompleted
<1>7. ASSUME NEW d \in Conns, NEW b \in Buffers, IsPosting(d, b)'
      PROVE  b \in recvBufs'[d]
  <2>1. PICK r \in Procs : pc'[r] = "post" /\ work'[r].conn = d /\ work'[r].buf = b
    BY <1>7 DEF IsPosting
  <2>2. r # p
    BY <1>1, <2>1 DEF AfterError, Base, ProcTypes
  <2>3. pc[r] = "post" /\ work[r].conn = d /\ work[r].buf = b
    BY <1>1, <2>1, <2>2 DEF Base, ProcTypes
  <2>4. b # e
    <3>1. /\ Held(r) \in Stores /\ Held(r) # Held(p)
          /\ 1 \in DOMAIN Contents[Held(r)] /\ Contents[Held(r)][1] = b
      BY <2>1, <2>2, <2>3, Places, StoreNames
    <3> QED
      BY <1>4, <3>1, OnePlace
  <2> QED
    BY <1>3, <2>1, <2>3, <2>4 DEF Tracked, Known, IsPosting
<1> QED
  BY <1>5, <1>6, <1>7 DEF Tracked, Known

LEMMA PollTracked ==
    ASSUME Base, OneReceiver, Tracked, NEW c \in Conns, Poll(c)
    PROVE  Tracked'
<1> DEFINE wc == Head(cqes[c])
           h == handler[CQOf[c]]
           e == wc.buf
           loc == IF wc.data # << >> /\ Known(h, e) THEN "unpack" ELSE "alloc"
<1>1. /\ cqes[c] # << >>
      /\ pc' = [pc EXCEPT ![Poller] = loc]
      /\ recvBufs' = IF wc.data = << >> THEN recvBufs
                     ELSE [recvBufs EXCEPT ![h] = @ \ {e}]
      /\ cqes' = [cqes EXCEPT ![c] = Tail(@)]
      /\ posted' = posted
      /\ \A r \in Procs : r # Poller => work'[r] = work[r]
  BY DEF Poll, TakeCompletion, Goto, Base, ProcTypes
<1>2. /\ h \in Conns /\ cqes[c] \in Seq(Completion) /\ wc = cqes[c][1]
      /\ 1 \in DOMAIN cqes[c] /\ loc # "post"
      /\ recvBufs \in [Conns -> SUBSET Buffers] /\ cqes \in [Conns -> Seq(Completion)]
  BY <1>1, Handed DEF Base, BufferTypes
<1> HIDE DEF loc, h, e, wc
<1>3. \A d \in Conns : recvBufs[d] \ {e} \subseteq recvBufs'[d]
  BY <1>1, <1>2
<1>4. /\ Completed(c) \in Stores /\ 1 \in DOMAIN Contents[Completed(c)]
      /\ Contents[Completed(c)][1] = e
  BY <1>2, Places, StoreNames DEF e
<1>5. ASSUME NEW d \in Conns, NEW b \in Buffers, IsPosted(d, b)'
      PROVE  b \in recvBufs'[d]
  <2>1. PICK i \in DOMAIN posted[d] : posted[d][i] = b
    BY <1>1, <1>5 DEF IsPosted
  <2>2. b # e
    <3>1. /\ Posted(d) \in Stores /\ Posted(d) # Completed(c)
          /\ i \in DOMAIN Contents[Posted(d)] /\ Contents[Posted(d)][i] = b
      BY <2>1, Places, StoreNames
    <3> QED
      BY <1>4, <3>1, OnePlace
  <2> QED
    BY <1>3, <2>1, <2>2 DEF Tracked, Known, IsPosted
<1>6. ASSUME NEW d \in Conns, NEW b \in Buffers, IsCompleted(d, b)'
      PROVE  b \in recvBufs'[d]
  <2>1. PICK i \in DOMAIN cqes'[d] : cqes'[d][i].buf = b
    BY <1>6 DEF IsCompleted
  <2>2. \E j \in DOMAIN cqes[d] : cqes'[d][i] = cqes[d][j] /\ (d = c => j # 1)
    <3>1. CASE d # c
      BY <1>1, <1>2, <2>1, <3>1
    <3>2. CASE d = c
      <4>1. cqes'[d] = Tail(cqes[c])
        BY <1>1, <1>2, <3>2
      <4>2. /\ DOMAIN Tail(cqes[c]) = 1..Len(cqes[c]) - 1 /\ Len(cqes[c]) \in Nat
            /\ DOMAIN cqes[c] = 1..Len(cqes[c])
            /\ \A j \in DOMAIN Tail(cqes[c]) : Tail(cqes[c])[j] = cqes[c][j + 1]
        BY <1>1, <1>2, SeqFacts
      <4>3. i + 1 \in DOMAIN cqes[c] /\ i + 1 # 1
        BY <2>1, <4>1, <4>2
      <4> QED
        BY <2>1, <3>2, <4>1, <4>2, <4>3
    <3> QED
      BY <3>1, <3>2
  <2>3. PICK j \in DOMAIN cqes[d] : cqes'[d][i] = cqes[d][j] /\ (d = c => j # 1)
    BY <2>2
  <2>4. b # e
    <3>1. /\ Completed(d) \in Stores
          /\ j \in DOMAIN Contents[Completed(d)] /\ Contents[Completed(d)][j] = b
      BY <2>1, <2>3, Places, StoreNames
    <3> QED
      BY <1>4, <2>3, <3>1, OnePlace, StoreNames
  <2> QED
    BY <1>3, <2>1, <2>3, <2>4 DEF Tracked, Known, IsCompleted
<1>7. ASSUME NEW d \in Conns, NEW b \in Buffers, IsPosting(d, b)'
      PROVE  b \in recvBufs'[d]
  <2>1. PICK r \in Procs : pc'[r] = "post" /\ work'[r].conn = d /\ work'[r].buf = b
    BY <1>7 DEF IsPosting
  <2>2. r # Poller
    BY <1>1, <1>2, <2>1 DEF Base, ProcTypes
  <2>3. pc[r] = "post" /\ work[r].conn = d /\ work[r].buf = b
    BY <1>1, <2>1, <2>2 DEF Base, ProcTypes
  <2>4. b # e
    <3>1. /\ Held(r) \in Stores /\ Held(r) # Completed(c)
          /\ 1 \in DOMAIN Contents[Held(r)] /\ Contents[Held(r)][1] = b
      BY <2>1, <2>3, Places, StoreNames
    <3> QED
      BY <1>4, <3>1, OnePlace
  <2> QED
    BY <1>3, <2>1, <2>3, <2>4 DEF Tracked, Known, IsPosting
<1> QED
  BY <1>5, <1>6, <1>7 DEF Tracked, Known

LEMMA NextTracked ==
    ASSUME Base, OneReceiver, Tracked, [Next]_vars
    PROVE  Tracked'
<1>1. ASSUME NEW c \in Conns, Arrive(c) \/ ArriveSpoilt(c)
      PROVE  Tracked'
  BY <1>1, ArriveBase, FillTracked
<1>2. ASSUME NEW c \in Conns, FlushRecv(c)
      PROVE  Tracked'
  BY <1>2, FlushTracked
<1>3. ASSUME NEW p \in Procs, PostRecvBuffers(p)
      PROVE  Tracked'
  BY <1>3, AllocTracked, PostRecvTracked, PostRecvFailsTracked DEF PostRecvBuffers
<1>4. ASSUME NEW c \in Conns, Register(c) \/ Recv(c) \/ Close(c)
      PROVE  Tracked'
  <2>1. CASE Register(c)
    <3>1. UNCHANGED <<recvBufs, posted, cqes>>
      BY <2>1 DEF Register, nicVars, history
    <3>2. \A p \in Procs : pc'[p] = "post" => pc[p] = "post" /\ work'[p] = work[p]
      BY <2>1 DEF Register, Goto, Base, ProcTypes
    <3> QED
      BY <3>1, <3>2, OthersTracked
  <2>2. CASE Recv(c) \/ Close(c)
    <3>1. UNCHANGED <<recvBufs, posted, cqes, pc, work>>
      BY <2>2 DEF Recv, Close, nicVars, procVars, history
    <3> QED
      BY <3>1, OthersTracked
  <2> QED
    BY <1>4, <2>1, <2>2
<1>5. ASSUME NEW c \in Conns, Poll(c)
      PROVE  Tracked'
  BY <1>5, PollTracked
<1>6. ASSUME OnCompletion
      PROVE  Tracked'
  <2>1. UNCHANGED <<recvBufs, posted, cqes>>
    BY <1>6 DEF OnCompletion, Unpack, Unpacked, Deliver, nicVars, history
  <2>2. pc'[Poller] # "post" /\ \A r \in Procs : r # Poller => pc'[r] = pc[r]
    BY <1>6, Names DEF OnCompletion, Unpack, Unpacked, Deliver, Goto, Base, ProcTypes
  <2>3. \A r \in Procs : r # Poller => work'[r] = work[r]
    BY <1>6, Names DEF OnCompletion, Unpack, Unpacked, Deliver, Base, ProcTypes
  <2> QED
    BY <2>1, <2>2, <2>3, OthersTracked
<1>7. ASSUME UNCHANGED vars
      PROVE  Tracked'
  <2>1. UNCHANGED <<recvBufs, posted, cqes, pc, work>>
    BY <1>7 DEF vars, nicVars, procVars, history
  <2> QED
    BY <2>1, OthersTracked
<1> QED
  BY <1>1, <1>2, <1>3, <1>4, <1>5, <1>6, <1>7, Names DEF Next, PollerStep

LEMMA TrackedInit ==
    ASSUME Init
    PROVE  Tracked
<1>1. \A c \in Conns : posted[c] = << >>
  BY DEF Init
<1>2. \A c \in Conns : cqes[c] = << >>
  BY DEF Init
<1>3. \A p \in Procs : pc[p] # "post"
  BY DEF Init
<1>4. DOMAIN << >> = {}
  OBVIOUS
<1> QED
  BY <1>1, <1>2, <1>3, <1>4 DEF Tracked, IsPosted, IsPosting, IsCompleted

LEMMA TrackedIsKnown ==
    ASSUME Base, Tracked
    PROVE  CompletionIsKnown
<1> SUFFICES ASSUME NEW c \in Conns, NEW i \in DOMAIN cqes[c]
             PROVE  Known(c, cqes[c][i].buf)
  BY DEF CompletionIsKnown
<1>1. cqes[c][i] \in Completion
  BY SeqFacts DEF Base, BufferTypes
<1> QED
  BY <1>1 DEF Tracked, IsCompleted, Completion

(* The buffer of a completion that waits is in the map of its connection:   *)
(* PostRecvBuffers enters it before it posts it, and no completion, neither *)
(* of this connection nor of one that shares the handler, takes out an      *)
(* entry that is still needed.                                              *)
THEOREM CompletionsAreKnown == Spec => []CompletionIsKnown
<1>1. Init => Tracked
  BY TrackedInit
<1>2. Base /\ OneReceiver /\ Tracked /\ [Next]_vars => Tracked'
  BY NextTracked
<1>3. Base /\ Tracked => CompletionIsKnown
  BY TrackedIsKnown
<1> QED
  BY <1>1, <1>2, <1>3, BaseInvariant, EachBufferHasOneReceiver, PTL DEF Spec

-----------------------------------------------------------------------------
(* Buffers of c at the NIC or in a completion, the one the poller works to  *)
(* replace, and those the set-up has still to post.                         *)
Busy(c) == IF pc[Poller] # "poll" /\ work[Poller].conn = c THEN 1 ELSE 0
Due(c) == IF pc[c] = "connected" THEN 0 ELSE left[c]
Depth(c) == Len(posted[c]) + Len(cqes[c]) + Busy(c) + Due(c)
Impaired == closed \union broken \union shortage \union misrouted
DepthInv == \A c \in Conns \ Impaired : Depth(c) = QueueDepth

LEMMA DepthTypes ==
    ASSUME Base, NEW c \in Conns
    PROVE  /\ Len(posted[c]) \in Nat /\ Len(cqes[c]) \in Nat
           /\ Busy(c) \in Nat /\ Due(c) \in Nat /\ left[c] \in Nat
<1>1. posted[c] \in Seq(Buffers) /\ cqes[c] \in Seq(Completion)
  BY Names DEF Base, BufferTypes
<1>2. left[c] \in Nat
  BY Names DEF Base, ProcTypes
<1> QED
  BY <1>1, <1>2, LenProperties DEF Busy, Due

LEMMA DepthStays ==
    ASSUME NEW c \in Conns, posted'[c] = posted[c], cqes'[c] = cqes[c],
           Busy(c)' = Busy(c), Due(c)' = Due(c)
    PROVE  Depth(c)' = Depth(c)
  BY DEF Depth

LEMMA DepthBalance ==
    ASSUME Base, NEW c \in Conns,
           NEW i \in Int, NEW j \in Int, NEW k \in Int, NEW l \in Int,
           i + j + k + l = 0,
           Len(posted'[c]) = Len(posted[c]) + i,
           Len(cqes'[c]) = Len(cqes[c]) + j,
           Busy(c)' = Busy(c) + k, Due(c)' = Due(c) + l
    PROVE  Depth(c)' = Depth(c)
<1> DEFINE a == Len(posted[c])
           b == Len(cqes[c])
           d == Busy(c)
           e == Due(c)
<1>1. a \in Nat /\ b \in Nat /\ d \in Nat /\ e \in Nat
  BY DepthTypes
<1>2. Depth(c) = a + b + d + e
  BY DEF Depth
<1>3. Depth(c)' = (a + i) + (b + j) + (d + k) + (e + l)
  BY DEF Depth
<1> HIDE DEF a, b, d, e
<1>4. (a + i) + (b + j) + (d + k) + (e + l) = a + b + d + e
  BY <1>1
<1> QED
  BY <1>2, <1>3, <1>4

(* The poller's part, when it is another one's step.                        *)
LEMMA BusyStays ==
    ASSUME Base, NEW p \in Procs, p # Poller, NEW loc, pc' = [pc EXCEPT ![p] = loc],
           NEW w, work' = [work EXCEPT ![p] = w]
    PROVE  \A c \in Conns : Busy(c)' = Busy(c)
  BY DEF Busy, Base, ProcTypes

LEMMA DueStays ==
    ASSUME Base, NEW p \in Procs, NEW loc, pc' = [pc EXCEPT ![p] = loc],
           NEW c \in Conns, c # p, left'[c] = left[c]
    PROVE  Due(c)' = Due(c)
  BY Names DEF Due, Base, ProcTypes

LEMMA FillDepth ==
    ASSUME Base, NEW c \in Conns, NEW data \in Seq(Nat), Fill(c, data)
    PROVE  \A d \in Conns : Depth(d)' = Depth(d)
<1> DEFINE wc == [buf |-> Head(posted[c]), data |-> data]
<1>1. /\ posted[c] # << >> /\ posted' = [posted EXCEPT ![c] = Tail(@)]
      /\ cqes' = [cqes EXCEPT ![c] = Append(@, wc)]
      /\ UNCHANGED <<pc, work, left>>
  BY DEF Fill, procVars, history
<1>2. /\ posted \in [Conns -> Seq(Buffers)] /\ cqes \in [Conns -> Seq(Completion)]
  BY DEF Base, BufferTypes
<1>3. Head(posted[c]) \in Buffers /\ Len(Tail(posted[c])) = Len(posted[c]) - 1
  BY <1>1, <1>2, SeqFacts
<1>4. wc \in Completion
  BY <1>3 DEF Completion
<1> HIDE DEF wc
<1>5. Len(Append(cqes[c], wc)) = Len(cqes[c]) + 1
  BY <1>2, <1>4, SeqFacts
<1>6. \A d \in Conns : Busy(d)' = Busy(d) /\ Due(d)' = Due(d)
  BY <1>1 DEF Busy, Due
<1> SUFFICES ASSUME NEW d \in Conns
             PROVE  Depth(d)' = Depth(d)
  OBVIOUS
<1>7. CASE d # c
  BY <1>1, <1>2, <1>6, <1>7, Names, DepthStays
<1>8. CASE d = c
  <2>1. posted'[c] = Tail(posted[c]) /\ cqes'[c] = Append(cqes[c], wc)
    BY <1>1, <1>2
  <2>2. /\ Len(posted'[c]) = Len(posted[c]) - 1
        /\ Len(cqes'[c]) = Len(cqes[c]) + 1
    BY <1>3, <1>5, <2>1
  <2>3. /\ -1 \in Int /\ 1 \in Int /\ 0 \in Int /\ -1 + 1 + 0 + 0 = 0
        /\ Len(posted'[c]) = Len(posted[c]) + (-1)
        /\ Busy(c)' = Busy(c) + 0 /\ Due(c)' = Due(c) + 0
    BY <1>6, <2>2, DepthTypes
  <2> QED
    BY <1>6, <1>8, <2>2, DepthTypes, <2>3, DepthBalance
<1> QED
  BY <1>7, <1>8

(* A call that fails is the last one of its connection, or the poller's.    *)
LEMMA FailedDepth ==
    ASSUME Base, NEW p \in Procs, pc[p] \in {"alloc", "post"},
           pc' = [pc EXCEPT ![p] = AfterError(p)], work' = [work EXCEPT ![p] = Idle],
           UNCHANGED <<posted, cqes, left>>,
           NEW d \in Conns, d # work[p].conn
    PROVE  Depth(d)' = Depth(d)
<1>1. work[p].conn \in Conns /\ (p # Poller => work[p].conn = p)
  BY RunnerConn
<1>2. Due(d)' = Due(d)
  <2>1. d # p
    BY <1>1, Names
  <2> QED
    BY <2>1, DueStays
<1>3. Busy(d)' = Busy(d)
  <2>1. CASE p # Poller
    BY <2>1, BusyStays
  <2>2. CASE p = Poller
    BY <2>2, <1>1, Names DEF Busy, AfterError, Base, ProcTypes
  <2> QED
    BY <2>1, <2>2
<1> QED
  BY <1>2, <1>3, DepthStays

LEMMA AllocDepth ==
    ASSUME Base, NEW p \in Procs, AllocBuffer(p),
           NEW d \in Conns, d \notin shortage'
    PROVE  Depth(d)' = Depth(d)
<1>1. CASE free # << >>
  <2>1. /\ pc[p] = "alloc" /\ pc' = [pc EXCEPT ![p] = "post"]
        /\ work' = [work EXCEPT ![p].buf = Head(free)]
        /\ UNCHANGED <<posted, cqes, left>>
    BY <1>1 DEF AllocBuffer, Goto, nicVars, history
  <2>2. /\ pc \in [Procs -> SetUpLocations \union PollerLocations]
        /\ work \in [Procs -> Holding] /\ work[Poller] \in Holding
    BY Names DEF Base, ProcTypes
  <2>3. Busy(d)' = Busy(d)
    <3>1. work'[Poller].conn = work[Poller].conn
      BY <2>1, <2>2, Names DEF Holding
    <3>2. pc'[Poller] = "poll" <=> pc[Poller] = "poll"
      BY <2>1, <2>2, Names
    <3> QED
      BY <3>1, <3>2 DEF Busy
  <2>4. Due(d)' = Due(d)
    <3>1. pc'[d] = "connected" <=> pc[d] = "connected"
      BY <2>1, <2>2, Names
    <3> QED
      BY <2>1, <3>1 DEF Due
  <2> QED
    BY <2>1, <2>3, <2>4, DepthStays
<1>2. CASE free = << >>
  <2>1. /\ pc[p] = "alloc" /\ pc' = [pc EXCEPT ![p] = AfterError(p)]
        /\ work' = [work EXCEPT ![p] = Idle]
        /\ UNCHANGED <<posted, cqes, left>>
        /\ shortage' = shortage \union {work[p].conn}
    BY <1>2 DEF AllocBuffer, Goto, nicVars, Failed, history
  <2>2. d # work[p].conn
    BY <2>1
  <2> QED
    BY <2>1, <2>2, FailedDepth
<1> QED
  BY <1>1, <1>2

LEMMA PostRecvFailsDepth ==
    ASSUME Base, NEW p \in Procs, PostRecvFails(p),
           NEW d \in Conns, d \notin shortage'
    PROVE  Depth(d)' = Depth(d)
<1>1. /\ pc[p] = "post" /\ pc' = [pc EXCEPT ![p] = AfterError(p)]
      /\ work' = [work EXCEPT ![p] = Idle]
      /\ UNCHANGED <<posted, cqes, left>>
      /\ shortage' = shortage \union {work[p].conn}
  BY DEF PostRecvFails, Goto, nicVars, Failed, history
<1>2. d # work[p].conn
  BY <1>1
<1> QED
  BY <1>1, <1>2, FailedDepth

LEMMA PostRecvDepth ==
    ASSUME Base, NEW p \in Procs, PostRecv(p), NEW d \in Conns
    PROVE  Depth(d)' = Depth(d)
<1> DEFINE c == work[p].conn
           more == p # Poller /\ left[p] > 1
           loc == CASE p = Poller -> "poll"
                    [] more -> "alloc"
                    [] OTHER -> "connected"
           w == IF more THEN [Idle EXCEPT !.conn = p] ELSE Idle
<1>1. /\ pc[p] = "post" /\ pc' = [pc EXCEPT ![p] = loc]
      /\ work' = [work EXCEPT ![p] = w]
      /\ posted' = [posted EXCEPT ![c] = Append(@, work[p].buf)]
      /\ left' = IF p = Poller THEN left ELSE [left EXCEPT ![p] = @ - 1]
      /\ UNCHANGED <<cqes>>
  BY DEF PostRecv, Goto
<1>2. /\ c \in Conns /\ work[p].buf \in Buffers /\ posted \in [Conns -> Seq(Buffers)]
      /\ (p # Poller => c = p /\ left[p] > 0 /\ p \in Conns)
      /\ left \in [Conns -> 0..QueueDepth]
  BY <1>1, RunnerConn, Names DEF Base, BufferTypes, ProcTypes
<1>3. Len(Append(posted[c], work[p].buf)) = Len(posted[c]) + 1
  BY <1>2, SeqFacts
<1>4. p = Poller => loc = "poll"
  OBVIOUS
<1>5. p # Poller => loc = IF left[p] > 1 THEN "alloc" ELSE "connected"
  OBVIOUS
<1> HIDE DEF loc, w, c
<1>6. \A e \in Conns : e # c => posted'[e] = posted[e]
  BY <1>1, <1>2
<1>7. Len(posted'[c]) = Len(posted[c]) + 1
  BY <1>1, <1>2, <1>3
<1>8. CASE p = Poller
  <2>1. Due(d)' = Due(d)
    <3>1. d # p
      BY <1>8, Names
    <3> QED
      BY <1>1, <1>8, <3>1, DueStays
  <2>2. Busy(d)' = 0 /\ Busy(d) = IF d = c THEN 1 ELSE 0
    BY <1>1, <1>2, <1>4, <1>8, Names DEF Busy, c, Base, ProcTypes
  <2>3. CASE d = c
    <3>1. /\ -1 \in Int /\ 1 \in Int /\ 0 \in Int /\ 1 + 0 + (-1) + 0 = 0
          /\ Len(posted'[d]) = Len(posted[d]) + 1
          /\ Len(cqes'[d]) = Len(cqes[d]) + 0
          /\ Busy(d)' = Busy(d) + (-1) /\ Due(d)' = Due(d) + 0
      BY <1>1, <1>7, <2>1, <2>2, <2>3, DepthTypes
    <3> QED
      BY <3>1, DepthBalance
  <2>4. CASE d # c
    BY <1>1, <1>6, <2>1, <2>2, <2>4, DepthStays
  <2> QED
    BY <2>3, <2>4
<1>9. CASE p # Poller
  <2>1. Busy(d)' = Busy(d)
    BY <1>1, <1>9, BusyStays
  <2>2. CASE d # c
    <3>1. Due(d)' = Due(d)
      <4>1. left'[d] = left[d]
        BY <1>1, <1>2, <1>9, <2>2
      <4> QED
        BY <1>1, <1>2, <1>9, <2>2, <4>1, DueStays
    <3> QED
      BY <1>1, <1>6, <2>1, <2>2, <3>1, DepthStays
  <2>3. CASE d = c
    <3>1. left'[d] = left[d] - 1 /\ left[d] > 0 /\ left[d] \in Nat
      BY <1>1, <1>2, <1>9, <2>3, Names
    <3>2. pc[d] = "post" /\ pc'[d] = IF left[d] > 1 THEN "alloc" ELSE "connected"
      BY <1>1, <1>2, <1>5, <1>9, <2>3 DEF Base, ProcTypes
    <3>3. Due(d) = left[d] /\ Due(d)' = left[d] - 1
      BY <3>1, <3>2 DEF Due
    <3>4. /\ -1 \in Int /\ 1 \in Int /\ 0 \in Int /\ 1 + 0 + 0 + (-1) = 0
          /\ Len(posted'[d]) = Len(posted[d]) + 1
          /\ Len(cqes'[d]) = Len(cqes[d]) + 0
          /\ Busy(d)' = Busy(d) + 0 /\ Due(d)' = Due(d) + (-1)
      BY <1>1, <1>7, <2>1, <2>3, <3>1, <3>3, DepthTypes
    <3> QED
      BY <3>4, DepthBalance
  <2> QED
    BY <2>2, <2>3
<1> QED
  BY <1>8, <1>9

LEMMA PollDepth ==
    ASSUME Base, NEW c \in Conns, Poll(c), NEW d \in Conns, d \notin misrouted'
    PROVE  Depth(d)' = Depth(d)
<1> DEFINE h == handler[CQOf[c]]
           wc == Head(cqes[c])
           loc == IF wc.data # << >> /\ Known(h, wc.buf) THEN "unpack" ELSE "alloc"
           w == [conn |-> h, buf |-> wc.buf, data |-> wc.data]
<1>1. /\ pc[Poller] = "poll" /\ pc' = [pc EXCEPT ![Poller] = loc]
      /\ w.conn = h /\ work' = [work EXCEPT ![Poller] = w]
      /\ cqes' = [cqes EXCEPT ![c] = Tail(@)]
      /\ misrouted' = IF h = c THEN misrouted ELSE misrouted \union {h, c}
      /\ UNCHANGED <<posted, left>>
  BY DEF Poll, TakeCompletion, Goto
<1>2. h \in Conns /\ cqes \in [Conns -> Seq(Completion)] /\ cqes[c] # << >>
      /\ cqes[c] \in Seq(Completion)
  BY Handed DEF Base, BufferTypes
<1>3. Len(Tail(cqes[c])) = Len(cqes[c]) - 1
  BY <1>2, SeqFacts
<1>4. loc # "poll"
  OBVIOUS
<1> HIDE DEF h, wc, loc, w
<1>5. Busy(d) = 0 /\ Busy(d)' = IF d = h THEN 1 ELSE 0
  BY <1>1, <1>4, Names DEF Busy, Base, ProcTypes
<1>6. Due(d)' = Due(d)
  <2>1. d # Poller
    BY Names
  <2> QED
    BY <1>1, <2>1, Names, DueStays
<1>7. h = c \/ (d # c /\ d # h)
  BY <1>1
<1>8. CASE d = c
  <2>1. Len(cqes'[d]) = Len(cqes[d]) - 1
    BY <1>1, <1>2, <1>3, <1>8
  <2>2. /\ -1 \in Int /\ 1 \in Int /\ 0 \in Int /\ 0 + (-1) + 1 + 0 = 0
        /\ Len(posted'[d]) = Len(posted[d]) + 0
        /\ Len(cqes'[d]) = Len(cqes[d]) + (-1)
        /\ Busy(d)' = Busy(d) + 1 /\ Due(d)' = Due(d) + 0
    BY <1>1, <1>5, <1>6, <1>7, <1>8, <2>1, DepthTypes
  <2> QED
    BY <2>2, DepthBalance
<1>9. CASE d # c
  BY <1>1, <1>2, <1>5, <1>6, <1>7, <1>9, DepthStays
<1> QED
  BY <1>8, <1>9

LEMMA CompletionDepth ==
    ASSUME Base, OnCompletion, NEW d \in Conns
    PROVE  Depth(d)' = Depth(d)
<1>1. /\ UNCHANGED <<posted, cqes, left>>
      /\ pc[Poller] # "poll"
      /\ \E loc \in {"alloc", "deliver", "panicked"} : pc' = [pc EXCEPT ![Poller] = loc]
  BY DEF OnCompletion, Unpack, Unpacked, Deliver, Goto, nicVars, history
<1>2. PICK loc \in {"alloc", "deliver", "panicked"} : pc' = [pc EXCEPT ![Poller] = loc]
  BY <1>1
<1>3. work'[Poller].conn = work[Poller].conn
  <2>1. work \in [Procs -> Holding] /\ work[Poller] \in Holding
    BY Names DEF Base, ProcTypes
  <2>2. CASE Unpack
    BY <2>1, <2>2, Names DEF Unpack, Unpacked, Holding
  <2>3. CASE Deliver
    BY <2>1, <2>3, Names DEF Deliver, Holding
  <2> QED
    BY <2>2, <2>3 DEF OnCompletion
<1>4. pc'[Poller] # "poll"
  BY <1>2, Names DEF Base, ProcTypes
<1>5. Busy(d)' = Busy(d)
  BY <1>1, <1>3, <1>4 DEF Busy
<1>6. Due(d)' = Due(d)
  <2>1. d # Poller
    BY Names
  <2> QED
    BY <1>1, <1>2, <2>1, Names, DueStays
<1> QED
  BY <1>1, <1>5, <1>6, DepthStays

LEMMA QuietDepth ==
    ASSUME Base, UNCHANGED <<posted, cqes, left>>, NEW d \in Conns,
           \/ UNCHANGED <<pc, work>>
           \/ \E c \in Conns : Register(c)
    PROVE  Depth(d)' = Depth(d)
<1>1. CASE UNCHANGED <<pc, work>>
  BY <1>1, DepthStays DEF Busy, Due
<1>2. ASSUME NEW c \in Conns, Register(c)
      PROVE  Depth(d)' = Depth(d)
  <2>1. pc[c] = "register" /\ pc' = [pc EXCEPT ![c] = "alloc"]
        /\ work'[Poller] = work[Poller]
    BY <1>2, Names DEF Register, Goto, Base, ProcTypes
  <2>2. pc'[Poller] = pc[Poller] /\ (pc'[d] = "connected" <=> pc[d] = "connected")
    BY <2>1, Names DEF Base, ProcTypes
  <2> QED
    BY <2>1, <2>2, DepthStays DEF Busy, Due
<1> QED
  BY <1>1, <1>2

LEMMA NextDepth ==
    ASSUME Base, [Next]_vars, NEW d \in Conns, d \notin Impaired'
    PROVE  d \notin Impaired /\ Depth(d)' = Depth(d)
<1> DEFINE Same == UNCHANGED <<closed, broken, shortage, misrouted>>
<1>1. ASSUME NEW c \in Conns, Arrive(c) \/ ArriveSpoilt(c)
      PROVE  Same /\ Depth(d)' = Depth(d)
  <2>1. PICK data \in Seq(Nat) : Fill(c, data)
    BY <1>1, ArriveBase
  <2> QED
    BY <2>1, FillDepth DEF Fill, appVars, history
<1>2. ASSUME NEW c \in Conns, FlushRecv(c)
      PROVE  d \notin Impaired /\ Depth(d)' = Depth(d)
  <2>1. /\ broken' = broken \union {c} /\ posted' = [posted EXCEPT ![c] = Tail(@)]
        /\ UNCHANGED <<cqes, pc, work, left, closed, shortage, misrouted>>
    BY <1>2 DEF FlushRecv, procVars, appVars, history
  <2>2. d # c /\ d \notin Impaired
    BY <2>1 DEF Impaired
  <2>3. posted'[d] = posted[d]
    BY <2>1, <2>2 DEF Base, BufferTypes
  <2> QED
    BY <2>1, <2>2, <2>3, DepthStays DEF Busy, Due
<1>3. ASSUME NEW p \in Procs, PostRecvBuffers(p)
      PROVE  d \notin Impaired /\ Depth(d)' = Depth(d)
  <2>1. UNCHANGED <<closed, broken, misrouted>> /\ shortage \subseteq shortage'
    BY <1>3 DEF PostRecvBuffers, AllocBuffer, PostRecv, PostRecvFails, Failed,
       nicVars, appVars, history
  <2>2. d \notin Impaired /\ d \notin shortage'
    BY <2>1 DEF Impaired
  <2> QED
    BY <1>3, <2>2, AllocDepth, PostRecvDepth, PostRecvFailsDepth DEF PostRecvBuffers
<1>4. ASSUME NEW c \in Conns, Register(c)
      PROVE  Same /\ Depth(d)' = Depth(d)
  BY <1>4, QuietDepth DEF Register, nicVars, appVars, history
<1>5. ASSUME NEW c \in Conns, Recv(c) \/ Close(c)
      PROVE  d \notin Impaired /\ Depth(d)' = Depth(d)
  <2>1. UNCHANGED <<broken, shortage, misrouted>> /\ closed \subseteq closed'
        /\ UNCHANGED <<posted, cqes, left, pc, work>>
    BY <1>5 DEF Recv, Close, nicVars, procVars, history
  <2> QED
    BY <2>1, QuietDepth DEF Impaired
<1>6. ASSUME NEW c \in Conns, Poll(c)
      PROVE  d \notin Impaired /\ Depth(d)' = Depth(d)
  <2>1. UNCHANGED <<closed, broken, shortage>> /\ misrouted \subseteq misrouted'
    BY <1>6 DEF Poll, TakeCompletion, appVars
  <2>2. d \notin Impaired /\ d \notin misrouted'
    BY <2>1 DEF Impaired
  <2> QED
    BY <1>6, <2>2, PollDepth
<1>7. ASSUME OnCompletion
      PROVE  Same /\ Depth(d)' = Depth(d)
  BY <1>7, CompletionDepth
     DEF OnCompletion, Unpack, Unpacked, Deliver, nicVars, appVars, history
<1>8. ASSUME UNCHANGED vars
      PROVE  Same /\ Depth(d)' = Depth(d)
  BY <1>8, QuietDepth DEF vars, nicVars, procVars, appVars, history
<1>9. Same => d \notin Impaired
  BY DEF Impaired
<1> HIDE DEF Same
<1> QED
  BY <1>1, <1>2, <1>3, <1>4, <1>5, <1>6, <1>7, <1>8, <1>9, Names DEF Next, PollerStep

LEMMA DepthInit ==
    ASSUME Init
    PROVE  DepthInv
<1> SUFFICES ASSUME NEW c \in Conns
             PROVE  Depth(c) = QueueDepth
  BY DEF DepthInv
<1>1. Len(posted[c]) = 0 /\ Len(cqes[c]) = 0
  <2>1. posted[c] = << >> /\ cqes[c] = << >>
    BY Names DEF Init
  <2> QED
    BY <2>1
<1>2. Busy(c) = 0 /\ Due(c) = QueueDepth
  BY Names DEF Init, Busy, Due
<1> QED
  BY <1>1, <1>2, Names DEF Depth

(* An open connection has as many receives posted, completed or in the      *)
(* hands of the poller as PostRecvBuffers asked for, unless a buffer could  *)
(* not be posted, the queue pair has reported an error, or a completion was *)
(* handed across connections: OnCompletion replaces every request, on every *)
(* early return.                                                            *)
THEOREM PipelinesAreFull == Spec => []PipelineFull
<1>1. Init => DepthInv
  BY DepthInit
<1>2. Base /\ DepthInv /\ [Next]_vars => DepthInv'
  <2> SUFFICES ASSUME Base, DepthInv, [Next]_vars,
                      NEW d \in Conns, d \notin Impaired'
               PROVE  Depth(d)' = QueueDepth
    BY DEF DepthInv
  <2> QED
    BY NextDepth DEF DepthInv
<1>3. Base /\ DepthInv => PipelineFull
  <2> SUFFICES ASSUME Base, DepthInv,
                      NEW c \in Conns \ Impaired, pc[c] = "connected"
               PROVE  Outstanding(c) = QueueDepth
    BY DEF PipelineFull, Impaired
  <2>1. Depth(c) = QueueDepth /\ Due(c) = 0
    BY DEF DepthInv, Due
  <2> DEFINE m == Len(posted[c]) + Len(cqes[c]) + Busy(c)
  <2>2. Outstanding(c) = m /\ Depth(c) = m + 0
    BY <2>1 DEF Depth, Outstanding, Busy
  <2>3. m \in Nat
    <3> DEFINE a == Len(posted[c])
               b == Len(cqes[c])
    <3>1. c \in Conns
      OBVIOUS
    <3>2. a \in Nat /\ b \in Nat /\ Busy(c) \in Nat
      BY <3>1, DepthTypes
    <3> HIDE DEF a, b
    <3>3. a + b + Busy(c) \in Nat
      BY <3>2
    <3> QED
      BY <3>3 DEF a, b
  <2> HIDE DEF m
  <2> QED
    BY <2>1, <2>2, <2>3
<1> QED
  BY <1>1, <1>2, <1>3, BaseInvariant, PTL DEF Spec

-----------------------------------------------------------------------------
(* The maps of two connections have no buffer in common, and none is in the *)
(* pool.                                                                    *)
MapsInv ==
    /\ \A c, d \in Conns : \A b \in recvBufs[c] : b \in recvBufs[d] => c = d
    /\ \A c \in Conns : \A i \in DOMAIN free : free[i] \notin recvBufs[c]

(* A step that enters no buffer in a map and puts none back in the pool.    *)
LEMMA MapsShrink ==
    ASSUME MapsInv, free' = free, \A c \in Conns : recvBufs'[c] \subseteq recvBufs[c]
    PROVE  MapsInv'
  BY DEF MapsInv

LEMMA AllocMaps ==
    ASSUME Base, OneReceiver, MapsInv, NEW p \in Procs, AllocBuffer(p)
    PROVE  MapsInv'
<1>1. CASE free = << >>
  <2>1. free' = free /\ recvBufs' = recvBufs
    BY <1>1 DEF AllocBuffer
  <2> QED
    BY <2>1, MapsShrink
<1>2. CASE free # << >>
  <2> DEFINE b == Head(free)
             c == work[p].conn
  <2>1. /\ free' = Tail(free) /\ recvBufs' = [recvBufs EXCEPT ![c] = @ \union {b}]
        /\ pc[p] = "alloc"
    BY <1>2 DEF AllocBuffer, Track, Goto
  <2>2. c \in Conns /\ recvBufs \in [Conns -> SUBSET Buffers] /\ free \in Seq(Buffers)
    BY <2>1, RunnerConn DEF Base, BufferTypes
  <2>3. /\ b = free[1] /\ 1 \in DOMAIN free
        /\ \A i \in DOMAIN Tail(free) : i + 1 \in DOMAIN free /\ i + 1 # 1
                                        /\ Tail(free)[i] = free[i + 1]
    BY <1>2, <2>2, SeqFacts
  <2> HIDE DEF b, c
  <2>4. \A i, j \in DOMAIN free : free[i] = free[j] => i = j
    <3>1. Contents[Pool] = free /\ Pool \in Stores
      BY StoreTable, StoreNames DEF ContentsTable
    <3> QED
      BY <3>1, OnePlace
  <2>5. \A d \in Conns : b \notin recvBufs[d]
    BY <2>3 DEF MapsInv
  <2>6. \A d \in Conns : recvBufs'[d] = IF d = c THEN recvBufs[d] \union {b} ELSE recvBufs[d]
    BY <2>1, <2>2
  <2>7. \A d, e \in Conns : \A x \in recvBufs'[d] : x \in recvBufs'[e] => d = e
    BY <2>5, <2>6 DEF MapsInv
  <2>8. ASSUME NEW d \in Conns, NEW i \in DOMAIN free'
        PROVE  free'[i] \notin recvBufs'[d]
    <3>1. i + 1 \in DOMAIN free /\ i + 1 # 1 /\ free'[i] = free[i + 1]
      BY <2>1, <2>3
    <3>2. free[i + 1] # b
      BY <2>3, <2>4, <3>1
    <3> QED
      BY <2>6, <3>1, <3>2 DEF MapsInv
  <2> QED
    BY <2>7, <2>8 DEF MapsInv
<1> QED
  BY <1>1, <1>2

LEMMA PostRecvFailsMaps ==
    ASSUME Base, Tracked, MapsInv, NEW p \in Procs, PostRecvFails(p)
    PROVE  MapsInv'
<1> DEFINE b == work[p].buf
           c == work[p].conn
<1>1. /\ pc[p] = "post"
      /\ recvBufs' = [recvBufs EXCEPT ![c] = @ \ {b}]
      /\ free' = Append(free, b)
  BY DEF PostRecvFails, Goto
<1>2. /\ c \in Conns /\ recvBufs \in [Conns -> SUBSET Buffers]
      /\ free \in Seq(Buffers) /\ b \in Buffers
  BY <1>1, RunnerConn DEF Base, BufferTypes, HeldInv
<1>3. b \in recvBufs[c]
  BY <1>1, <1>2 DEF Tracked, IsPosting, Known
<1> HIDE DEF b, c
<1>4. /\ DOMAIN free' = DOMAIN free \union {Len(free) + 1}
      /\ free'[Len(free) + 1] = b /\ \A i \in DOMAIN free : free'[i] = free[i]
  BY <1>1, <1>2, SeqFacts
<1>5. \A d \in Conns : recvBufs'[d] \subseteq recvBufs[d] /\ b \notin recvBufs'[d]
  BY <1>1, <1>2, <1>3 DEF MapsInv
<1> QED
  BY <1>4, <1>5 DEF MapsInv

LEMMA MapsInit ==
    ASSUME Init
    PROVE  MapsInv
  BY DEF Init, MapsInv

LEMMA NextMaps ==
    ASSUME Base, OneReceiver, Tracked, MapsInv, [Next]_vars
    PROVE  MapsInv'
<1>1. ASSUME NEW c \in Conns, Poll(c)
      PROVE  MapsInv'
  <2>1. free' = free /\ \A d \in Conns : recvBufs'[d] \subseteq recvBufs[d]
    BY <1>1 DEF Poll, Base, BufferTypes
  <2> QED
    BY <2>1, MapsShrink
<1>2. ASSUME NEW p \in Procs, PostRecvBuffers(p)
      PROVE  MapsInv'
  <2>1. CASE PostRecv(p)
    <3>1. UNCHANGED <<free, recvBufs>>
      BY <2>1 DEF PostRecv
    <3> QED
      BY <3>1, MapsShrink
  <2> QED
    BY <1>2, <2>1, AllocMaps, PostRecvFailsMaps DEF PostRecvBuffers
<1>3. ASSUME NEW c \in Conns,
             \/ Arrive(c) \/ ArriveSpoilt(c) \/ FlushRecv(c)
             \/ Register(c) \/ Recv(c) \/ Close(c)
      PROVE  UNCHANGED <<free, recvBufs>>
  BY <1>3 DEF Arrive, ArriveSpoilt, Fill, FlushRecv, Register, Recv, Close
<1>4. ASSUME OnCompletion
      PROVE  UNCHANGED <<free, recvBufs>>
  BY <1>4 DEF OnCompletion, Unpack, Unpacked, Deliver
<1>5. ASSUME UNCHANGED vars
      PROVE  UNCHANGED <<free, recvBufs>>
  BY <1>5 DEF vars
<1>6. UNCHANGED <<free, recvBufs>> => MapsInv'
  BY MapsShrink
<1> QED
  BY <1>1, <1>2, <1>3, <1>4, <1>5, <1>6, Names DEF Next, PollerStep

LEMMA MapsAreApart == Spec => []MapsInv
<1>1. Init => MapsInv
  BY MapsInit
<1>2. Base /\ OneReceiver /\ Tracked /\ MapsInv /\ [Next]_vars => MapsInv'
  BY NextMaps
<1>3. Init => Tracked
  BY TrackedInit
<1>4. Base /\ OneReceiver /\ Tracked /\ [Next]_vars => Tracked'
  BY NextTracked
<1> QED
  BY <1>1, <1>2, <1>3, <1>4, BaseInvariant, EachBufferHasOneReceiver, PTL DEF Spec

-----------------------------------------------------------------------------
(* The messages of a batch whose first one has number n + 1.                *)
Numbered(n, lengths) ==
    [i \in DOMAIN lengths |-> IF lengths[i] = 0 THEN << >> ELSE <<n + i>>]

(* The peer has sent m messages before the buffer was filled, and n after.  *)
Links(m, data, n) ==
    \/ UnpackBatch(data) = {} /\ m = n
    \/ \E lengths \in Batches :
          data = PackBatch(Numbered(m, lengths)) /\ n = m + Len(lengths)

(* s[i] messages were sent before the i-th completion of c.                 *)
Chain(c, s) ==
    /\ s \in [1..Len(cqes[c]) + 1 -> Nat]
    /\ s[Len(cqes[c]) + 1] = numbers[c]
    /\ \A i \in 1..Len(cqes[c]) : Links(s[i], cqes[c][i].data, s[i + 1])

(* The message Recv returned last, and those it will return.  Messages of a *)
(* connection whose queue has another one for its handler are all lost.     *)
Lost(c) == c \in dropped \/ handler[CQOf[c]] \notin {c, None}
Number(c, i) == IF i = 0 THEN received[c] ELSE recvCh[c][i][1]
ComesAfter(c, a, b) == IF c \in dropped THEN b > a ELSE b = a + 1
Reaches(c, a, m) == IF Lost(c) THEN a <= m ELSE a = m
UpTo(c, m) ==
    /\ \A i \in 1..Len(recvCh[c]) : ComesAfter(c, Number(c, i - 1), Number(c, i))
    /\ Reaches(c, Number(c, Len(recvCh[c])), m)

(* The poller has taken the first n messages off the queue of c.            *)
Unpacking(c, n) ==
    \E m \in Nat : Links(m, work[Poller].data, n) /\ UpTo(c, m)
Delivering(c, n) ==
    \E m \in Nat :
        /\ n = m + Len(work[Poller].data)
        /\ \A i \in DOMAIN work[Poller].data :
              work[Poller].data[i] \in {<< >>, <<m + i>>}
        /\ UpTo(c, m)
Reading(c) == work[Poller].conn = c /\ pc[Poller] \in {"unpack", "deliver", "panicked"}
Taken(c, n) ==
    IF Reading(c)
    THEN /\ pc[Poller] = "unpack" => Unpacking(c, n)
         /\ pc[Poller] = "deliver" => Delivering(c, n)
         /\ pc[Poller] = "panicked" => \E m \in Nat : UpTo(c, m)
    ELSE UpTo(c, n)

OrderOf(c) == \E s : Chain(c, s) /\ Taken(c, s[1])
OrderInv == \A c \in Conns : OrderOf(c)
ReaderInv == \A c \in Conns : Reading(c) => handler[CQOf[c]] = c

LEMMA NumberIsNat ==
    ASSUME Base, NEW c \in Conns, NEW i \in 0..Len(recvCh[c])
    PROVE  Number(c, i) \in Nat
<1>1. CASE i = 0
  BY <1>1 DEF Number, Base, AppTypes
<1>2. CASE i # 0
  <2>1. recvCh[c] \in Seq(Message)
    BY DEF Base, AppTypes
  <2>2. recvCh[c][i] \in Message
    <3>1. Len(recvCh[c]) \in Nat /\ DOMAIN recvCh[c] = 1..Len(recvCh[c])
      BY <2>1, SeqFacts
    <3>2. i \in DOMAIN recvCh[c]
      BY <1>2, <3>1
    <3> QED
      BY <2>1, <3>2, SeqFacts
  <2>3. recvCh[c][i] \in Seq(Nat) /\ recvCh[c][i] # << >>
    BY <2>2 DEF Message
  <2>4. Head(recvCh[c][i]) \in Nat /\ Head(recvCh[c][i]) = recvCh[c][i][1]
    BY <2>3, SeqFacts
  <2> QED
    BY <1>2, <2>4 DEF Number
<1> QED
  BY <1>1, <1>2

LEMMA ChannelSeq ==
    ASSUME Base, NEW c \in Conns
    PROVE  recvCh[c] \in Seq(Message) /\ Len(recvCh[c]) \in Nat
<1>1. recvCh[c] \in Seq(Message)
  BY DEF Base, AppTypes
<1> QED
  BY <1>1, LenProperties

(* Nothing changes for an application that waits.                           *)
LEMMA UpToStays ==
    ASSUME NEW c \in Conns, recvCh'[c] = recvCh[c], received'[c] = received[c],
           c \in dropped' <=> c \in dropped, Lost(c) => Lost(c)'
    PROVE  \A m \in Nat : UpTo(c, m) => UpTo(c, m)'
<1>1. \A i : Number(c, i)' = Number(c, i)
  BY DEF Number
<1>2. \A m \in Nat : \A a : Reaches(c, a, m) => Reaches(c, a, m)'
  BY DEF Reaches
<1> QED
  BY <1>1, <1>2 DEF UpTo, ComesAfter

LEMMA TakenStays ==
    ASSUME NEW c \in Conns, recvCh'[c] = recvCh[c], received'[c] = received[c],
           c \in dropped' <=> c \in dropped, Lost(c) => Lost(c)',
           \/ pc'[Poller] = pc[Poller] /\ work'[Poller] = work[Poller]
           \/ ~Reading(c) /\ ~Reading(c)',
           NEW n \in Nat, Taken(c, n)
    PROVE  Taken(c, n)'
<1>1. \A m \in Nat : UpTo(c, m) => UpTo(c, m)'
  BY UpToStays
<1>2. CASE ~Reading(c) /\ ~Reading(c)'
  BY <1>1, <1>2 DEF Taken
<1>3. CASE pc'[Poller] = pc[Poller] /\ work'[Poller] = work[Poller]
  <2>1. Unpacking(c, n) => Unpacking(c, n)'
    BY <1>1, <1>3 DEF Unpacking, Links
  <2>2. Delivering(c, n) => Delivering(c, n)'
    BY <1>1, <1>3 DEF Delivering
  <2>3. Reading(c)' <=> Reading(c)
    BY <1>3 DEF Reading
  <2> QED
    BY <1>1, <1>3, <2>1, <2>2, <2>3 DEF Taken
<1> QED
  BY <1>2, <1>3

LEMMA OrderStays ==
    ASSUME Base, NEW c \in Conns, OrderOf(c),
           cqes'[c] = cqes[c], numbers'[c] = numbers[c],
           \A n \in Nat : Taken(c, n) => Taken(c, n)'
    PROVE  OrderOf(c)'
<1>1. PICK s : Chain(c, s) /\ Taken(c, s[1])
  BY DEF OrderOf
<1>2. s[1] \in Nat
  <2>1. cqes[c] \in Seq(Completion)
    BY Names DEF Base, BufferTypes
  <2>2. Len(cqes[c]) \in Nat
    BY <2>1, LenProperties
  <2>3. 1 \in 1..Len(cqes[c]) + 1
    BY <2>2
  <2> QED
    BY <1>1, <2>3 DEF Chain
<1>3. Chain(c, s)'
  BY <1>1 DEF Chain, Links
<1> QED
  BY <1>1, <1>2, <1>3 DEF OrderOf

(* Every step that takes nothing off a queue and neither unpacks, delivers  *)
(* nor receives.                                                            *)
LEMMA QuietOrder ==
    ASSUME Base, OrderInv, UNCHANGED <<cqes, numbers, recvCh, received, dropped>>,
           \A c \in Conns : Lost(c) => Lost(c)',
           \/ pc'[Poller] = pc[Poller] /\ work'[Poller] = work[Poller]
           \/ /\ pc[Poller] \notin {"unpack", "deliver", "panicked"}
              /\ pc'[Poller] \notin {"unpack", "deliver", "panicked"}
    PROVE  OrderInv'
<1> SUFFICES ASSUME NEW c \in Conns
             PROVE  OrderOf(c)'
  BY DEF OrderInv
<1>1. \A n \in Nat : Taken(c, n) => Taken(c, n)'
  BY TakenStays DEF Reading
<1> QED
  BY <1>1, OrderStays DEF OrderInv

LEMMA EmptyIsSpoilt == UnpackBatch(<< >>) = {}
  BY DEF UnpackBatch, CmdHeaderSize

(* What arrives links up with what has been sent.                           *)
LEMMA ArriveLinks ==
    ASSUME Base, NEW c \in Conns, Arrive(c) \/ ArriveSpoilt(c)
    PROVE  \E data \in Seq(Nat) :
              /\ Fill(c, data)
              /\ Links(numbers[c], data, numbers'[c])
              /\ numbers'[c] \in Nat
              /\ \A d \in Conns : d # c => numbers'[d] = numbers[d]
<1>0. numbers \in [Conns -> Nat]
  BY DEF Base, AppTypes
<1>1. CASE Arrive(c)
  <2>1. PICK lengths \in Batches :
           /\ Fill(c, PackBatch(Messages(c, lengths)))
           /\ numbers' = [numbers EXCEPT ![c] = @ + Len(lengths)]
    BY <1>1 DEF Arrive
  <2>2. PackBatch(Messages(c, lengths)) \in Seq(Nat) /\ Len(lengths) \in Nat
    BY SentMessages
  <2>3. Messages(c, lengths) = Numbered(numbers[c], lengths)
    BY DEF Messages, Numbered
  <2>4. numbers'[c] = numbers[c] + Len(lengths) /\ numbers'[c] \in Nat
        /\ \A d \in Conns : d # c => numbers'[d] = numbers[d]
    BY <1>0, <2>1, <2>2
  <2>5. Links(numbers[c], PackBatch(Messages(c, lengths)), numbers'[c])
    BY <2>3, <2>4 DEF Links
  <2> QED
    BY <2>1, <2>2, <2>4, <2>5
<1>2. CASE ArriveSpoilt(c)
  <2>1. numbers' = numbers
    BY <1>2 DEF ArriveSpoilt
  <2>2. PICK data \in Seq(Nat) : Fill(c, data) /\ UnpackBatch(data) = {}
    <3>1. CASE Fill(c, << >>)
      BY <3>1, EmptyIsSpoilt, IdleHolds
    <3>2. CASE \E lengths \in Batches : Fill(c, Front(PackBatch(Messages(c, lengths))))
      <4>1. PICK lengths \in Batches : Fill(c, Front(PackBatch(Messages(c, lengths))))
        BY <3>2
      <4>2. /\ Messages(c, lengths) \in Seq(Seq(Nat))
            /\ Front(PackBatch(Messages(c, lengths))) \in Seq(Nat)
        BY SentMessages
      <4> QED
        BY <4>1, <4>2, CutBatchIsSpoilt
    <3> QED
      BY <1>2, <3>1, <3>2 DEF ArriveSpoilt
  <2> QED
    BY <1>0, <2>1, <2>2 DEF Links
<1> QED
  BY <1>1, <1>2

LEMMA ArriveOrder ==
    ASSUME Base, OrderInv, NEW c \in Conns, Arrive(c) \/ ArriveSpoilt(c)
    PROVE  OrderInv'
<1>1. PICK data \in Seq(Nat) :
         /\ Fill(c, data)
         /\ Links(numbers[c], data, numbers'[c])
         /\ numbers'[c] \in Nat
         /\ \A d \in Conns : d # c => numbers'[d] = numbers[d]
  BY ArriveLinks
<1> DEFINE wc == [buf |-> Head(posted[c]), data |-> data]
<1>2. /\ posted[c] # << >> /\ cqes' = [cqes EXCEPT ![c] = Append(@, wc)]
      /\ UNCHANGED <<pc, work, recvCh, received, dropped, handler>>
  BY <1>1 DEF Fill, procVars, appVars, history
<1>3. /\ posted[c] \in Seq(Buffers) /\ cqes \in [Conns -> Seq(Completion)]
  BY DEF Base, BufferTypes
<1>4. wc \in Completion /\ wc.data = data
  <2>1. Head(posted[c]) \in Buffers
    BY <1>2, <1>3, SeqFacts
  <2> QED
    BY <2>1 DEF Completion
<1> HIDE DEF wc
<1>5. \A d \in Conns, n \in Nat : Taken(d, n) => Taken(d, n)'
  BY <1>2, TakenStays DEF Lost
<1> SUFFICES ASSUME NEW d \in Conns
             PROVE  OrderOf(d)'
  BY DEF OrderInv
<1>6. CASE d # c
  <2>1. cqes'[d] = cqes[d]
    BY <1>2, <1>3, <1>6
  <2> QED
    BY <1>1, <1>5, <1>6, <2>1, OrderStays DEF OrderInv
<1>7. CASE d = c
  <2>1. PICK s : Chain(c, s) /\ Taken(c, s[1])
    BY DEF OrderInv, OrderOf
  <2> DEFINE L == Len(cqes[c])
             grown == [i \in 1..L + 2 |-> IF i = L + 2 THEN numbers'[c] ELSE s[i]]
  <2>2. /\ L \in Nat /\ cqes'[c] = Append(cqes[c], wc) /\ Len(cqes'[c]) = L + 1
        /\ cqes'[c][L + 1] = wc /\ \A i \in 1..L : cqes'[c][i] = cqes[c][i]
    BY <1>2, <1>3, <1>4, SeqFacts
  <2>3. /\ s \in [1..L + 1 -> Nat] /\ s[L + 1] = numbers[c]
        /\ \A i \in 1..L : Links(s[i], cqes[c][i].data, s[i + 1])
    BY <2>1 DEF Chain
  <2> HIDE DEF L
  <2>4. grown \in [1..L + 2 -> Nat]
    BY <1>1, <2>2, <2>3
  <2>a. grown[L + 2] = numbers'[c] /\ \A i \in 1..L + 1 : grown[i] = s[i]
    BY <2>2
  <2>5. PICK t \in [1..L + 2 -> Nat] :
           t[L + 2] = numbers'[c] /\ \A i \in 1..L + 1 : t[i] = s[i]
    BY <2>4, <2>a
  <2>6. ASSUME NEW i \in 1..L + 1
        PROVE  Links(t[i], cqes'[c][i].data, t[i + 1])
    <3>1. CASE i = L + 1
      <4>1. t[i] = numbers[c] /\ t[i + 1] = numbers'[c]
        BY <2>2, <2>3, <2>5, <3>1
      <4> QED
        BY <1>1, <1>4, <2>2, <3>1, <4>1
    <3>2. CASE i # L + 1
      <4>1. i \in 1..L /\ i + 1 \in 1..L + 1
        BY <2>2, <3>2
      <4> QED
        BY <2>2, <2>3, <2>5, <4>1
    <3> QED
      BY <3>1, <3>2
  <2>7. Chain(c, t)'
    <3>1. Len(cqes'[c]) + 1 = L + 2
      BY <2>2
    <3>2. \A i \in 1..Len(cqes'[c]) : Links(t[i], cqes'[c][i].data, t[i + 1])
      BY <2>2, <2>6
    <3>3. (\A i \in 1..Len(cqes[c]) : Links(t[i], cqes[c][i].data, t[i + 1]))'
      BY <3>2 DEF Links
    <3> QED
      BY <2>5, <3>1, <3>3 DEF Chain
  <2>8. t[1] = s[1] /\ s[1] \in Nat
    <3>1. 1 \in 1..L + 1
      BY <2>2
    <3> QED
      BY <2>3, <2>5, <3>1
  <2> QED
    BY <1>5, <1>7, <2>1, <2>7, <2>8 DEF OrderOf
<1> QED
  BY <1>6, <1>7

-----------------------------------------------------------------------------
(* A completion without data, and one of a cut batch, carry no message.     *)
LEMMA SpoiltLink ==
    ASSUME NEW m \in Nat, NEW data, NEW n, UnpackBatch(data) = {}, Links(m, data, n)
    PROVE  m = n
<1> SUFFICES ASSUME NEW lengths \in Batches, data = PackBatch(Numbered(m, lengths))
             PROVE  FALSE
  BY DEF Links
<1>1. Numbered(m, lengths) \in Seq(Seq(Nat))
  <2>1. lengths \in Seq(0..1)
    BY RecvPathAssumption
  <2>2. Len(lengths) \in Nat /\ DOMAIN lengths = 1..Len(lengths)
    BY <2>1, LenProperties
  <2>3. \A i \in 1..Len(lengths) : <<m + i>> \in Seq(Nat)
    BY <2>2
  <2>4. << >> \in Seq(Nat)
    OBVIOUS
  <2> DEFINE ms == Numbered(m, lengths)
  <2>5. ms \in [1..Len(lengths) -> Seq(Nat)]
    BY <2>2, <2>3, <2>4 DEF Numbered
  <2> HIDE DEF ms
  <2>6. ms \in Seq(Seq(Nat))
    BY <2>2, <2>5, FunctionIsSeq
  <2> QED
    BY <2>6 DEF ms
<1>2. UnpackBatch(data) = {Numbered(m, lengths)}
  BY <1>1, UnpackUndoesPack
<1> QED
  BY <1>2

(* What a batch that can be unpacked holds.                                 *)
LEMMA WholeLink ==
    ASSUME NEW m \in Nat, NEW data, NEW n, UnpackBatch(data) # {}, Links(m, data, n)
    PROVE  \E ms \in Seq(Seq(Nat)) :
              /\ UnpackBatch(data) = {ms}
              /\ n = m + Len(ms)
              /\ \A i \in DOMAIN ms : ms[i] \in {<< >>, <<m + i>>}
<1>1. PICK lengths \in Batches :
         data = PackBatch(Numbered(m, lengths)) /\ n = m + Len(lengths)
  BY DEF Links
<1> DEFINE ms == Numbered(m, lengths)
<1>2. lengths \in Seq(0..1)
  BY RecvPathAssumption
<1>3. Len(lengths) \in Nat /\ DOMAIN lengths = 1..Len(lengths)
  BY <1>2, LenProperties
<1>4. \A i \in 1..Len(lengths) : <<m + i>> \in Seq(Nat)
  BY <1>3
<1>5. << >> \in Seq(Nat)
  OBVIOUS
<1>6. ms \in [1..Len(lengths) -> Seq(Nat)]
  BY <1>3, <1>4, <1>5 DEF Numbered
<1>7. \A i \in DOMAIN ms : ms[i] \in {<< >>, <<m + i>>}
  BY DEF Numbered
<1>8. data = PackBatch(ms)
  BY <1>1
<1> HIDE DEF ms
<1>9. ms \in Seq(Seq(Nat)) /\ Len(ms) = Len(lengths)
  BY <1>3, <1>6, FunctionIsSeq
<1>10. UnpackBatch(data) = {ms}
  BY <1>8, <1>9, UnpackUndoesPack
<1> QED
  BY <1>1, <1>7, <1>9, <1>10

(* The chain of a queue whose first completion is taken off.                *)
LEMMA ChainTail ==
    ASSUME Base, NEW c \in Conns, cqes[c] # << >>,
           NEW s, Chain(c, s),
           cqes'[c] = Tail(cqes[c]), numbers'[c] = numbers[c]
    PROVE  /\ \E t : Chain(c, t)' /\ t[1] = s[2]
           /\ s[1] \in Nat /\ s[2] \in Nat
           /\ Links(s[1], Head(cqes[c]).data, s[2])
<1> DEFINE L == Len(cqes[c])
<1>1. /\ cqes[c] \in Seq(Completion)
  BY Names DEF Base, BufferTypes
<1>2. /\ L \in Nat /\ L > 0 /\ Head(cqes[c]) = cqes[c][1] /\ Len(Tail(cqes[c])) = L - 1
      /\ \A i \in 1..L - 1 : Tail(cqes[c])[i] = cqes[c][i + 1]
  BY <1>1, SeqFacts
<1>3. /\ s \in [1..L + 1 -> Nat] /\ s[L + 1] = numbers[c]
      /\ \A i \in 1..L : Links(s[i], cqes[c][i].data, s[i + 1])
  BY DEF Chain
<1>4. cqes'[c] = Tail(cqes[c])
  OBVIOUS
<1> DEFINE shrunk == [i \in 1..L |-> s[i + 1]]
<1> HIDE DEF L
<1>5. s[1] \in Nat /\ s[2] \in Nat /\ Links(s[1], Head(cqes[c]).data, s[2])
  <2>1. 1 \in 1..L /\ 1 \in 1..L + 1 /\ 2 \in 1..L + 1 /\ 1 + 1 = 2
    BY <1>2
  <2>2. Links(s[1], cqes[c][1].data, s[1 + 1])
    BY <1>3, <2>1
  <2>3. s[1] \in Nat /\ s[2] \in Nat
    BY <1>3, <2>1
  <2> QED
    BY <1>2, <2>1, <2>2, <2>3
<1>6. shrunk \in [1..L -> Nat] /\ \A i \in 1..L : shrunk[i] = s[i + 1]
  BY <1>2, <1>3
<1>7. PICK t \in [1..L -> Nat] : \A i \in 1..L : t[i] = s[i + 1]
  BY <1>6
<1>8. t[1] = s[2] /\ t[L] = numbers[c]
  BY <1>2, <1>3, <1>7
<1>9. ASSUME NEW i \in 1..L - 1
      PROVE  Links(t[i], cqes'[c][i].data, t[i + 1])
  <2>1. i + 1 \in 1..L /\ i \in 1..L /\ i + 1 + 1 = i + 2
    BY <1>2
  <2>2. Links(s[i + 1], cqes[c][i + 1].data, s[i + 1 + 1])
    BY <1>3, <2>1
  <2>3. t[i] = s[i + 1] /\ t[i + 1] = s[i + 1 + 1]
    BY <1>7, <2>1
  <2> QED
    BY <1>2, <1>4, <2>2, <2>3
<1>10. Chain(c, t)'
  <2>1. Len(cqes'[c]) = L - 1 /\ Len(cqes'[c]) + 1 = L
    BY <1>2, <1>4
  <2>2. \A i \in 1..Len(cqes'[c]) : Links(t[i], cqes'[c][i].data, t[i + 1])
    BY <1>9, <2>1
  <2>3. (\A i \in 1..Len(cqes[c]) : Links(t[i], cqes[c][i].data, t[i + 1]))'
    BY <2>2 DEF Links
  <2>4. t \in [1..Len(cqes'[c]) + 1 -> Nat] /\ t[Len(cqes'[c]) + 1] = numbers'[c]
    BY <1>7, <1>8, <2>1
  <2> QED
    BY <2>3, <2>4 DEF Chain
<1> QED
  BY <1>5, <1>8, <1>10

(* A completion can only move the count on.                                 *)
LEMMA LinksGrow ==
    ASSUME NEW m \in Nat, NEW data, NEW n \in Nat, Links(m, data, n)
    PROVE  m <= n
<1>1. \A lengths \in Batches : Len(lengths) \in Nat
  BY RecvPathAssumption, LenProperties
<1> QED
  BY <1>1 DEF Links

(* A completion taken by the handler of another connection is lost; one     *)
(* taken by its own handler is unpacked, unless it has no data.             *)
LEMMA PollOrder ==
    ASSUME Base, CompletionIsKnown, MapsInv, OrderInv, ReaderInv,
           NEW c \in Conns, Poll(c)
    PROVE  OrderInv' /\ ReaderInv'
<1> DEFINE wc == Head(cqes[c])
           h == handler[CQOf[c]]
           loc == IF wc.data # << >> /\ Known(h, wc.buf) THEN "unpack" ELSE "alloc"
           w == [conn |-> h, buf |-> wc.buf, data |-> wc.data]
<1>1. /\ cqes[c] # << >>
      /\ pc[Poller] = "poll" /\ pc' = [pc EXCEPT ![Poller] = loc]
      /\ work' = [work EXCEPT ![Poller] = w] /\ w.conn = h /\ w.data = wc.data
      /\ cqes' = [cqes EXCEPT ![c] = Tail(@)]
      /\ UNCHANGED <<numbers, recvCh, received, dropped, handler>>
  BY DEF Poll, TakeCompletion, Goto, appVars
<1>2. /\ h \in Conns /\ cqes \in [Conns -> Seq(Completion)]
      /\ wc = cqes[c][1] /\ 1 \in DOMAIN cqes[c] /\ wc \in Completion
  BY Handed DEF Base, BufferTypes
<1>3. Known(c, wc.buf)
  BY <1>2 DEF CompletionIsKnown
<1>4. h # c => ~Known(h, wc.buf)
  <2>1. wc.buf \in Buffers
    BY <1>2 DEF Completion
  <2> QED
    BY <1>2, <1>3, <2>1 DEF MapsInv, Known
<1>5. /\ h # c => loc = "alloc"
      /\ h = c => loc = IF wc.data # << >> THEN "unpack" ELSE "alloc"
  BY <1>3, <1>4
<1> HIDE DEF loc, w, h
<1>6. pc'[Poller] = loc /\ work'[Poller].conn = h /\ work'[Poller].data = wc.data
  BY <1>1, Names DEF Base, ProcTypes
<1>7. handler'[CQOf[c]] = h
  BY <1>1 DEF h
<1> HIDE DEF wc
<1>8. ReaderInv'
  <2> SUFFICES ASSUME NEW d \in Conns, Reading(d)'
               PROVE  handler'[CQOf[d]] = d
    BY DEF ReaderInv
  <2>1. d = h /\ h = c
    BY <1>5, <1>6 DEF Reading
  <2> QED
    BY <1>7, <2>1
<1>9. OrderInv'
  <2> SUFFICES ASSUME NEW d \in Conns
               PROVE  OrderOf(d)'
    BY DEF OrderInv
  <2>0. Lost(d)' <=> Lost(d)
    BY <1>1 DEF Lost
  <2>1. ~Reading(d) /\ \A m \in Nat : UpTo(d, m) => UpTo(d, m)'
    BY <1>1, <2>0, UpToStays DEF Reading
  <2>2. CASE d # c
    <3>1. cqes'[d] = cqes[d]
      BY <1>1, <1>2, <2>2
    <3>2. ~Reading(d)'
      BY <1>5, <1>6, <2>2 DEF Reading
    <3>3. \A n \in Nat : Taken(d, n) => Taken(d, n)'
      BY <2>1, <3>2 DEF Taken
    <3> QED
      BY <1>1, <3>1, <3>3, OrderStays DEF OrderInv
  <2>3. CASE d = c
    <3>1. PICK s : Chain(d, s) /\ Taken(d, s[1])
      BY DEF OrderInv, OrderOf
    <3>2. cqes'[d] = Tail(cqes[d]) /\ cqes[d] # << >>
      BY <1>1, <1>2, <2>3
    <3>3. PICK t : Chain(d, t)' /\ t[1] = s[2]
      BY <1>1, <3>1, <3>2, ChainTail
    <3>4. s[1] \in Nat /\ s[2] \in Nat /\ Links(s[1], wc.data, s[2])
      BY <1>1, <3>1, <3>2, <2>3, ChainTail DEF wc
    <3>5. UpTo(d, s[1])
      BY <2>1, <3>1 DEF Taken
    <3>6. Taken(d, s[2])'
      <4>1. CASE h = c /\ wc.data # << >>
        <5>1. pc'[Poller] = "unpack"
          BY <1>5, <1>6, <4>1
        <5>2. Unpacking(d, s[2])'
          BY <1>6, <2>1, <3>4, <3>5 DEF Unpacking, Links
        <5> QED
          BY <1>6, <2>3, <4>1, <5>1, <5>2 DEF Taken, Reading
      <4>2. CASE h = c /\ wc.data = << >>
        <5>1. pc'[Poller] = "alloc"
          BY <1>5, <1>6, <4>2
        <5>2. s[1] = s[2]
          BY <3>4, <4>2, EmptyIsSpoilt, SpoiltLink
        <5> QED
          BY <2>1, <3>4, <3>5, <5>1, <5>2 DEF Taken, Reading
      <4>3. CASE h # c
        <5>1. pc'[Poller] = "alloc"
          BY <1>5, <1>6, <4>3
        <5>2. s[1] <= s[2]
          BY <3>4, LinksGrow
        <5>3. Lost(d)
          BY <1>2, <2>3, <4>3, Names DEF Lost, h
        <5>4. UpTo(d, s[2])
          <6>1. Len(recvCh[d]) \in Nat
            BY ChannelSeq
          <6>2. Len(recvCh[d]) \in 0..Len(recvCh[d])
            BY <6>1
          <6>3. Number(d, Len(recvCh[d])) \in Nat
            BY <6>2, NumberIsNat
          <6> QED
            BY <3>4, <3>5, <5>2, <5>3, <6>3 DEF UpTo, Reaches
        <5> QED
          BY <2>1, <3>4, <5>1, <5>4 DEF Taken, Reading
      <4> QED
        BY <4>1, <4>2, <4>3
    <3> QED
      BY <3>3, <3>6 DEF OrderOf
  <2> QED
    BY <2>2, <2>3
<1> QED
  BY <1>8, <1>9

LEMMA UnpackOrder ==
    ASSUME Base, OrderInv, Unpack
    PROVE  OrderInv'
<1> DEFINE data == work[Poller].data
           unpacked == UnpackBatch(data)
           c == work[Poller].conn
<1>1. /\ pc[Poller] = "unpack"
      /\ pc' = [pc EXCEPT ![Poller] = IF unpacked = {} THEN "alloc" ELSE "deliver"]
      /\ work' = [work EXCEPT ![Poller].buf = None,
                      ![Poller].data = IF unpacked = {} THEN << >>
                                       ELSE CHOOSE ms \in unpacked : TRUE]
      /\ UNCHANGED <<cqes, numbers, recvCh, received, dropped, handler>>
  BY DEF Unpack, Unpacked, Goto, nicVars, appVars, history
<1>2. work[Poller] \in Holding /\ work \in [Procs -> Holding] /\ Poller \in Procs
      /\ pc \in [Procs -> SetUpLocations \union PollerLocations]
  BY Names DEF Base, ProcTypes
<1>3. /\ pc'[Poller] = IF unpacked = {} THEN "alloc" ELSE "deliver"
      /\ work'[Poller].conn = c
      /\ unpacked # {} => work'[Poller].data = CHOOSE ms \in unpacked : TRUE
  BY <1>1, <1>2 DEF Holding
<1> HIDE DEF unpacked, c, data
<1> SUFFICES ASSUME NEW d \in Conns
             PROVE  OrderOf(d)'
  BY DEF OrderInv
<1>0. Lost(d)' <=> Lost(d)
  BY <1>1 DEF Lost
<1>4. \A m \in Nat : UpTo(d, m) => UpTo(d, m)'
  BY <1>0, <1>1, UpToStays
<1>5. CASE d # c
  <2>1. ~Reading(d) /\ ~Reading(d)'
    BY <1>3, <1>5 DEF Reading, c
  <2>2. \A n \in Nat : Taken(d, n) => Taken(d, n)'
    BY <1>0, <1>1, <2>1, TakenStays
  <2> QED
    BY <1>1, <2>2, OrderStays DEF OrderInv
<1>6. CASE d = c
  <2>1. ASSUME NEW n \in Nat, Taken(d, n)
        PROVE  Taken(d, n)'
    <3>1. PICK m \in Nat : Links(m, data, n) /\ UpTo(d, m)
      BY <1>1, <1>6, <2>1 DEF Taken, Reading, Unpacking, c, data
    <3>2. CASE unpacked = {}
      <4>1. m = n
        BY <3>1, <3>2, SpoiltLink DEF unpacked
      <4> QED
        BY <1>3, <1>4, <3>1, <3>2, <4>1 DEF Taken, Reading
    <3>3. CASE unpacked # {}
      <4>1. PICK ms \in Seq(Seq(Nat)) :
               /\ unpacked = {ms}
               /\ n = m + Len(ms)
               /\ \A i \in DOMAIN ms : ms[i] \in {<< >>, <<m + i>>}
        BY <3>1, <3>3, WholeLink DEF unpacked
      <4>2. work'[Poller].data = ms
        BY <1>3, <4>1
      <4>3. Delivering(d, n)'
        <5>1. UpTo(d, m)'
          BY <1>4, <3>1
        <5> QED
          BY <4>1, <4>2, <5>1 DEF Delivering
      <4> QED
        BY <1>3, <3>3, <4>3, <1>6 DEF Taken, Reading
    <3> QED
      BY <3>2, <3>3
  <2> QED
    BY <1>1, <2>1, OrderStays DEF OrderInv
<1> QED
  BY <1>5, <1>6

-----------------------------------------------------------------------------
(* The next message goes to recvCh, or is dropped.                          *)
LEMMA DeliveredUpTo ==
    ASSUME Base, NEW c \in Conns, NEW m \in Nat, UpTo(c, m),
           NEW msg \in Message, msg[1] = m + 1,
           DeliverRecv(c, msg), received' = received,
           handler' = handler, handler[CQOf[c]] = c
    PROVE  UpTo(c, m + 1)'
<1> DEFINE L == Len(recvCh[c])
<1>1. recvCh[c] \in Seq(Message) /\ L \in Nat /\ recvCh \in [Conns -> Seq(Message)]
  BY ChannelSeq DEF Base, AppTypes
<1>2. \A i \in 0..L : Number(c, i) \in Nat
  BY NumberIsNat
<1>3. L \in 0..L
  BY <1>1
<1>4. \A i \in 1..L : i \in 0..L /\ i - 1 \in 0..L
  BY <1>1
<1>5. CASE recvCh' = [recvCh EXCEPT ![c] = Append(@, msg)] /\ dropped' = dropped
  <2>1. /\ recvCh'[c] = Append(recvCh[c], msg) /\ Len(recvCh'[c]) = L + 1
        /\ recvCh'[c][L + 1] = msg /\ \A i \in 1..L : recvCh'[c][i] = recvCh[c][i]
    BY <1>1, <1>5, SeqFacts
  <2> HIDE DEF L
  <2>4. received'[c] = received[c] /\ recvCh'[c][L + 1][1] = m + 1 /\ L + 1 # 0
    BY <1>1, <2>1
  <2> DEFINE Num(i) == IF i = 0 THEN received'[c] ELSE recvCh'[c][i][1]
  <2>5. Num(L + 1) = m + 1
    BY <2>4
  <2>6. \A i \in 0..L : Num(i) = Number(c, i)
    BY <1>1, <2>1 DEF Number
  <2>7. \A i \in 1..L + 1 :
           IF c \in dropped THEN Num(i) > Num(i - 1) ELSE Num(i) = Num(i - 1) + 1
    <3> SUFFICES ASSUME NEW i \in 1..L + 1
                 PROVE  IF c \in dropped THEN Num(i) > Num(i - 1)
                                         ELSE Num(i) = Num(i - 1) + 1
      OBVIOUS
    <3> HIDE DEF Num
    <3>1. CASE i = L + 1
      <4>1. Num(i - 1) = Number(c, L) /\ Num(i) = m + 1 /\ Number(c, L) \in Nat
        BY <1>1, <1>2, <1>3, <2>5, <2>6, <3>1
      <4>2. IF c \in dropped THEN Number(c, L) <= m ELSE Number(c, L) = m
        BY DEF UpTo, Reaches, Lost, L
      <4> QED
        BY <4>1, <4>2
    <3>2. CASE i # L + 1
      <4>1. i \in 1..L /\ i \in 0..L /\ i - 1 \in 0..L
        BY <1>1, <3>2
      <4>2. IF c \in dropped THEN Number(c, i) > Number(c, i - 1)
                             ELSE Number(c, i) = Number(c, i - 1) + 1
        BY <4>1 DEF UpTo, ComesAfter, L
      <4> QED
        BY <2>6, <4>1, <4>2
    <3> QED
      BY <3>1, <3>2
  <2>8. IF c \in dropped THEN Num(L + 1) <= m + 1 ELSE Num(L + 1) = m + 1
    BY <2>5
  <2>9. \A i : Num(i) = Number(c, i)'
    BY DEF Number
  <2> HIDE DEF Num
  <2> QED
    BY <1>5, <2>1, <2>7, <2>8, <2>9 DEF UpTo, ComesAfter, Reaches, Lost
<1>6. CASE dropped' = dropped \union {c} /\ recvCh' = recvCh
  <2>1. \A i : Number(c, i)' = Number(c, i)
    BY <1>6 DEF Number
  <2>2. c \in dropped' /\ Len(recvCh'[c]) = L
    BY <1>6
  <2>3. ASSUME NEW i \in 1..L
        PROVE  Number(c, i) > Number(c, i - 1)
    <3>1. Number(c, i) \in Nat /\ Number(c, i - 1) \in Nat
      BY <1>2, <1>4
    <3>2. IF c \in dropped THEN Number(c, i) > Number(c, i - 1)
                           ELSE Number(c, i) = Number(c, i - 1) + 1
      BY DEF UpTo, ComesAfter
    <3> QED
      BY <3>1, <3>2
  <2>4. Number(c, L) <= m + 1
    <3>1. IF c \in dropped THEN Number(c, L) <= m ELSE Number(c, L) = m
      BY DEF UpTo, Reaches, Lost
    <3>2. Number(c, L) \in Nat
      BY <1>2, <1>3
    <3> QED
      BY <3>1, <3>2
  <2> HIDE DEF L
  <2> QED
    BY <2>1, <2>2, <2>3, <2>4 DEF UpTo, ComesAfter, Reaches, Lost
<1> QED
  BY <1>5, <1>6 DEF DeliverRecv

LEMMA DeliverOrder ==
    ASSUME Base, OrderInv, ReaderInv, Deliver
    PROVE  OrderInv'
<1> DEFINE data == work[Poller].data
           c == work[Poller].conn
           empty == data # << >> /\ Head(data) = << >>
           loc == CASE empty -> "panicked" [] data = << >> -> "alloc" [] OTHER -> "deliver"
<1>1. /\ pc[Poller] = "deliver" /\ pc' = [pc EXCEPT ![Poller] = loc]
      /\ IF empty \/ data = << >>
         THEN UNCHANGED <<recvCh, dropped, work>>
         ELSE /\ DeliverRecv(c, Head(data))
              /\ work' = [work EXCEPT ![Poller].data = Tail(@)]
      /\ UNCHANGED <<cqes, numbers, received, handler>>
  BY DEF Deliver, Goto, nicVars, history
<1>2. /\ work[Poller] \in Holding /\ work \in [Procs -> Holding] /\ Poller \in Procs
      /\ data \in Seq(Seq(Nat)) /\ c \in Conns
      /\ pc \in [Procs -> SetUpLocations \union PollerLocations]
  BY <1>1, Names DEF Base, ProcTypes, PollerInv
<1>3. pc'[Poller] = loc /\ work'[Poller].conn = c
  BY <1>1, <1>2 DEF Holding
<1>4. /\ empty => loc = "panicked"
      /\ data = << >> => loc = "alloc"
      /\ ~empty /\ data # << >> => loc = "deliver"
  BY <1>2
<1>5. ~empty /\ data # << >> => work'[Poller].data = Tail(data)
  BY <1>1, <1>2 DEF Holding
<1> HIDE DEF loc
<1> SUFFICES ASSUME NEW d \in Conns
             PROVE  OrderOf(d)'
  BY DEF OrderInv
<1>6. CASE d # c
  <2>1. ~Reading(d) /\ ~Reading(d)'
    BY <1>3, <1>6 DEF Reading
  <2>2. recvCh'[d] = recvCh[d] /\ (d \in dropped' <=> d \in dropped)
    <3>1. CASE empty \/ data = << >>
      BY <1>1, <3>1
    <3>2. CASE ~(empty \/ data = << >>)
      BY <1>1, <1>2, <1>6, <3>2 DEF DeliverRecv, Base, AppTypes
    <3> QED
      BY <3>1, <3>2
  <2>3. \A n \in Nat : Taken(d, n) => Taken(d, n)'
    BY <1>1, <2>1, <2>2, TakenStays DEF Lost
  <2> QED
    BY <1>1, <2>3, OrderStays DEF OrderInv
<1>7. CASE d = c
  <2>1. ASSUME NEW n \in Nat, Taken(d, n)
        PROVE  Taken(d, n)'
    <3>1. PICK m \in Nat :
             /\ n = m + Len(data)
             /\ \A i \in DOMAIN data : data[i] \in {<< >>, <<m + i>>}
             /\ UpTo(d, m)
      BY <1>1, <1>7, <2>1 DEF Taken, Reading, Delivering
    <3>2. CASE empty
      <4>1. pc'[Poller] = "panicked" /\ UNCHANGED <<recvCh, dropped, received>>
        BY <1>1, <1>3, <1>4, <3>2
      <4>2. UpTo(d, m)'
        BY <1>1, <3>1, <4>1, UpToStays DEF Lost
      <4> QED
        BY <1>3, <1>7, <4>1, <4>2 DEF Taken, Reading
    <3>3. CASE data = << >>
      <4>1. pc'[Poller] = "alloc" /\ UNCHANGED <<recvCh, dropped, received>>
        BY <1>1, <1>3, <1>4, <3>3
      <4>2. n = m
        BY <3>1, <3>3
      <4>3. UpTo(d, n)'
        BY <1>1, <3>1, <4>1, <4>2, UpToStays DEF Lost
      <4> QED
        BY <4>1, <4>3 DEF Taken, Reading
    <3>4. CASE ~empty /\ data # << >>
      <4>1. /\ pc'[Poller] = "deliver" /\ work'[Poller].data = Tail(data)
            /\ DeliverRecv(d, Head(data)) /\ received' = received
        BY <1>1, <1>3, <1>4, <1>5, <1>7, <3>4
      <4>2. /\ Head(data) \in Seq(Nat) /\ Head(data) = data[1] /\ 1 \in DOMAIN data
            /\ Tail(data) \in Seq(Seq(Nat)) /\ Len(Tail(data)) = Len(data) - 1
            /\ DOMAIN Tail(data) = 1..Len(data) - 1
            /\ \A i \in DOMAIN Tail(data) : Tail(data)[i] = data[i + 1]
            /\ Len(data) \in Nat /\ DOMAIN data = 1..Len(data) /\ Len(data) > 0
        BY <1>2, <3>4, SeqFacts
      <4>3. Head(data) # << >>
        BY <3>4
      <4>4. Head(data) = <<m + 1>>
        BY <3>1, <4>2, <4>3
      <4>5. Head(data) \in Message /\ Head(data)[1] = m + 1
        BY <4>2, <4>3, <4>4 DEF Message
      <4>6. UpTo(d, m + 1)'
        <5> DEFINE msg == Head(data)
        <5>1. msg \in Message /\ msg[1] = m + 1 /\ DeliverRecv(d, msg)
          BY <4>1, <4>5
        <5>2. handler[CQOf[d]] = d /\ handler' = handler
          BY <1>1, <1>7 DEF ReaderInv, Reading
        <5> HIDE DEF msg
        <5> QED
          BY <3>1, <4>1, <5>1, <5>2, DeliveredUpTo
      <4>7. n = (m + 1) + Len(Tail(data)) /\ m + 1 \in Nat
        <5> DEFINE k == Len(data)
                   j == Len(Tail(data))
        <5>1. k \in Nat /\ j = k - 1 /\ n = m + k
          BY <3>1, <4>2
        <5> HIDE DEF k, j
        <5>2. n = (m + 1) + j /\ m + 1 \in Nat
          BY <5>1
        <5> QED
          BY <5>2 DEF j
      <4>8. \A i \in DOMAIN Tail(data) : Tail(data)[i] \in {<< >>, <<(m + 1) + i>>}
        <5> SUFFICES ASSUME NEW i \in DOMAIN Tail(data)
                     PROVE  Tail(data)[i] \in {<< >>, <<(m + 1) + i>>}
          OBVIOUS
        <5>0. i \in 1..Len(data) - 1 /\ i \in Nat
          BY <4>2
        <5>1. i + 1 \in DOMAIN data /\ m + (i + 1) = (m + 1) + i
          <6> DEFINE k == Len(data)
          <6>1. k \in Nat /\ i \in 1..k - 1 /\ DOMAIN data = 1..k
            BY <4>2, <5>0
          <6> HIDE DEF k, data
          <6> QED
            BY <6>1
        <5>2. data[i + 1] \in {<< >>, <<m + (i + 1)>>}
          BY <3>1, <5>1
        <5> QED
          BY <4>2, <5>1, <5>2
      <4>9. Delivering(d, n)'
        <5>1. /\ n = (m + 1) + Len(work'[Poller].data)
              /\ \A i \in DOMAIN work'[Poller].data :
                    work'[Poller].data[i] \in {<< >>, <<(m + 1) + i>>}
          BY <4>1, <4>7, <4>8
        <5> HIDE DEF data
        <5>2. \E k \in Nat : /\ n = k + Len(work'[Poller].data)
                             /\ \A i \in DOMAIN work'[Poller].data :
                                   work'[Poller].data[i] \in {<< >>, <<k + i>>}
                             /\ UpTo(d, k)'
          BY <4>6, <4>7, <5>1
        <5> QED
          BY <5>2 DEF Delivering
      <4> QED
        BY <1>3, <1>7, <4>1, <4>9 DEF Taken, Reading
    <3> QED
      BY <3>2, <3>3, <3>4
  <2> QED
    BY <1>1, <2>1, OrderStays DEF OrderInv
<1> QED
  BY <1>6, <1>7

LEMMA RecvOrder ==
    ASSUME Base, OrderInv, NEW c \in Conns, Recv(c)
    PROVE  OrderInv'
<1>1. /\ recvCh[c] # << >>
      /\ received' = [received EXCEPT ![c] = Head(recvCh[c])[1]]
      /\ recvCh' = [recvCh EXCEPT ![c] = Tail(@)]
      /\ UNCHANGED <<cqes, numbers, dropped, pc, work, handler>>
  BY DEF Recv, nicVars, procVars, history
<1>2. recvCh \in [Conns -> Seq(Message)] /\ received \in [Conns -> Nat]
  BY DEF Base, AppTypes
<1> SUFFICES ASSUME NEW d \in Conns
             PROVE  OrderOf(d)'
  BY DEF OrderInv
<1>3. CASE d # c
  <2>1. recvCh'[d] = recvCh[d] /\ received'[d] = received[d]
    BY <1>1, <1>2, <1>3
  <2>2. \A n \in Nat : Taken(d, n) => Taken(d, n)'
    BY <1>1, <2>1, TakenStays DEF Lost
  <2> QED
    BY <1>1, <2>2, OrderStays DEF OrderInv
<1>4. CASE d = c
  <2> DEFINE L == Len(recvCh[c])
  <2>1. /\ recvCh'[c] = Tail(recvCh[c]) /\ received'[c] = recvCh[c][1][1]
        /\ L \in Nat /\ L > 0 /\ Len(recvCh'[c]) = L - 1
        /\ \A i \in 1..L - 1 : recvCh'[c][i] = recvCh[c][i + 1]
    BY <1>1, <1>2, SeqFacts
  <2> HIDE DEF L
  <2> DEFINE Num(i) == IF i = 0 THEN received'[c] ELSE recvCh'[c][i][1]
  <2>2. \A i \in 0..L - 1 : Num(i) = Number(c, i + 1)
    BY <2>1 DEF Number
  <2>3. \A i : Num(i) = Number(c, i)'
    BY DEF Number
  <2> HIDE DEF Num
  <2>4. ASSUME NEW m \in Nat, UpTo(c, m)
        PROVE  UpTo(c, m)'
    <3>1. \A i \in 1..L - 1 : IF c \in dropped THEN Num(i) > Num(i - 1)
                                               ELSE Num(i) = Num(i - 1) + 1
      <4> SUFFICES ASSUME NEW i \in 1..L - 1
                   PROVE  IF c \in dropped THEN Num(i) > Num(i - 1)
                                           ELSE Num(i) = Num(i - 1) + 1
        OBVIOUS
      <4>1. i + 1 \in 1..L /\ i \in 0..L - 1 /\ i - 1 \in 0..L - 1
            /\ i + 1 - 1 = i /\ (i - 1) + 1 = i
        BY <2>1
      <4>2. IF c \in dropped THEN Number(c, i + 1) > Number(c, i + 1 - 1)
                             ELSE Number(c, i + 1) = Number(c, i + 1 - 1) + 1
        BY <2>4, <4>1 DEF UpTo, ComesAfter, L
      <4>3. Num(i) = Number(c, i + 1) /\ Num(i - 1) = Number(c, i)
        BY <2>2, <4>1
      <4> QED
        BY <4>1, <4>2, <4>3
    <3>2. IF Lost(c) THEN Num(L - 1) <= m ELSE Num(L - 1) = m
      <4>1. L - 1 \in 0..L - 1 /\ (L - 1) + 1 = L
        BY <2>1
      <4>2. Num(L - 1) = Number(c, L)
        BY <2>2, <4>1
      <4> QED
        BY <2>4, <4>2 DEF UpTo, Reaches, L
    <3> QED
      BY <1>1, <2>1, <2>3, <3>1, <3>2 DEF UpTo, ComesAfter, Reaches, Lost
  <2>5. ASSUME NEW n \in Nat, Taken(c, n)
        PROVE  Taken(c, n)'
    BY <1>1, <2>4, <2>5 DEF Taken, Reading, Unpacking, Delivering, Links
  <2> QED
    BY <1>1, <1>4, <2>5, OrderStays DEF OrderInv
<1> QED
  BY <1>3, <1>4

LEMMA OrderInit ==
    ASSUME Init
    PROVE  OrderInv
<1> SUFFICES ASSUME NEW c \in Conns
             PROVE  OrderOf(c)
  BY DEF OrderInv
<1>1. cqes[c] = << >> /\ numbers[c] = 0 /\ recvCh[c] = << >> /\ received[c] = 0
      /\ dropped = {} /\ pc[Poller] = "poll"
  BY Names DEF Init
<1>2. Len(<< >>) = 0
  OBVIOUS
<1> DEFINE zeros == [i \in 1..1 |-> 0]
<1>3. PICK s \in [1..1 -> Nat] : s[1] = 0
  <2>1. zeros \in [1..1 -> Nat] /\ zeros[1] = 0
    OBVIOUS
  <2> QED
    BY <2>1
<1>4. Chain(c, s)
  BY <1>1, <1>2, <1>3 DEF Chain
<1>5. Taken(c, s[1])
  BY <1>1, <1>2, <1>3 DEF Taken, Reading, UpTo, ComesAfter, Reaches, Number, Lost
<1> QED
  BY <1>4, <1>5 DEF OrderOf

(* A queue keeps its handler.                                               *)
LEMMA RegisterKeeps ==
    ASSUME Base, NEW c \in Conns, Register(c)
    PROVE  \A q \in CQs : handler[q] # None => handler'[q] = handler[q]
  BY DEF Register, Base, BufferTypes

LEMMA NextOrder ==
    ASSUME Base, CompletionIsKnown, MapsInv, OrderInv, ReaderInv, [Next]_vars
    PROVE  OrderInv'
<1>1. ASSUME NEW c \in Conns, Arrive(c) \/ ArriveSpoilt(c)
      PROVE  OrderInv'
  BY <1>1, ArriveOrder
<1>2. ASSUME NEW c \in Conns, FlushRecv(c) \/ Close(c)
      PROVE  OrderInv'
  <2>1. UNCHANGED <<cqes, numbers, recvCh, received, dropped, pc, work, handler>>
    BY <1>2 DEF FlushRecv, Close, nicVars, appVars, procVars, history
  <2> QED
    BY <2>1, QuietOrder DEF Lost
<1>3. ASSUME NEW c \in Conns, Register(c)
      PROVE  OrderInv'
  <2>1. /\ UNCHANGED <<cqes, numbers, recvCh, received, dropped>>
        /\ pc'[Poller] = pc[Poller] /\ work'[Poller] = work[Poller]
    BY <1>3, Names DEF Register, Goto, nicVars, appVars, Base, ProcTypes, history
  <2>2. \A d \in Conns : Lost(d) => Lost(d)'
    BY <1>3, <2>1, RegisterKeeps, Names DEF Lost
  <2> QED
    BY <2>1, <2>2, QuietOrder
<1>4. ASSUME NEW p \in Procs, PostRecvBuffers(p)
      PROVE  OrderInv'
  <2>1. UNCHANGED <<cqes, numbers, recvCh, received, dropped, handler>>
    BY <1>4 DEF PostRecvBuffers, AllocBuffer, PostRecv, PostRecvFails, nicVars, appVars, history
  <2>2. CASE p # Poller
    <3>1. pc'[Poller] = pc[Poller] /\ work'[Poller] = work[Poller]
      BY <1>4, <2>2, Names DEF PostRecvBuffers, AllocBuffer, PostRecv, PostRecvFails,
         Goto, Base, ProcTypes
    <3> QED
      BY <2>1, <3>1, QuietOrder DEF Lost
  <2>3. CASE p = Poller
    <3>1. /\ pc[Poller] \notin {"unpack", "deliver", "panicked"}
          /\ pc'[Poller] \notin {"unpack", "deliver", "panicked"}
      BY <1>4, <2>3, Names DEF PostRecvBuffers, AllocBuffer, PostRecv, PostRecvFails,
         AfterError, Goto, Base, ProcTypes
    <3> QED
      BY <2>1, <3>1, QuietOrder DEF Lost
  <2> QED
    BY <2>2, <2>3
<1>5. ASSUME NEW c \in Conns, Poll(c)
      PROVE  OrderInv'
  BY <1>5, PollOrder
<1>6. ASSUME OnCompletion
      PROVE  OrderInv'
  BY <1>6, UnpackOrder, DeliverOrder DEF OnCompletion
<1>7. ASSUME UNCHANGED vars
      PROVE  OrderInv'
  <2>1. UNCHANGED <<cqes, numbers, recvCh, received, dropped, pc, work, handler>>
    BY <1>7 DEF vars, nicVars, appVars, procVars, history
  <2> QED
    BY <2>1, QuietOrder DEF Lost
<1>8. ASSUME NEW c \in Conns, Recv(c)
      PROVE  OrderInv'
  BY <1>8, RecvOrder
<1> QED
  BY <1>1, <1>2, <1>3, <1>4, <1>5, <1>6, <1>7, <1>8, Names DEF Next, PollerStep

(* The poller reads for a connection only what its own handler was given.   *)
LEMMA NextReader ==
    ASSUME Base, CompletionIsKnown, MapsInv, OrderInv, ReaderInv, [Next]_vars
    PROVE  ReaderInv'
<1>1. CASE \E c \in Conns : Poll(c)
  BY <1>1, PollOrder
<1>2. CASE ~\E c \in Conns : Poll(c)
  <2>1. \A c \in Conns : Reading(c)' => Reading(c)
    <3>1. ASSUME NEW c \in Conns,
                 Arrive(c) \/ ArriveSpoilt(c) \/ FlushRecv(c) \/ Recv(c) \/ Close(c)
          PROVE  UNCHANGED <<pc, work>>
      BY <3>1 DEF Arrive, ArriveSpoilt, Fill, FlushRecv, Recv, Close, procVars
    <3>2. ASSUME NEW c \in Conns, Register(c) \/ PostRecvBuffers(c)
          PROVE  pc'[Poller] = pc[Poller] /\ work'[Poller] = work[Poller]
      BY <3>2, Names DEF Register, PostRecvBuffers, AllocBuffer, PostRecv, PostRecvFails,
         Goto, Base, ProcTypes
    <3>3. ASSUME PostRecvBuffers(Poller)
          PROVE  pc'[Poller] \notin {"unpack", "deliver", "panicked"}
      BY <3>3, Names DEF PostRecvBuffers, AllocBuffer, PostRecv, PostRecvFails,
         AfterError, Goto, Base, ProcTypes
    <3>4. ASSUME OnCompletion
          PROVE  /\ work'[Poller].conn = work[Poller].conn
                 /\ pc[Poller] \in {"unpack", "deliver"}
      <4>1. work[Poller] \in Holding /\ work \in [Procs -> Holding] /\ Poller \in Procs
        BY Names DEF Base, ProcTypes
      <4> QED
        BY <3>4, <4>1 DEF OnCompletion, Unpack, Unpacked, Deliver, Goto, Holding
    <3>5. ASSUME UNCHANGED vars
          PROVE  UNCHANGED <<pc, work>>
      BY <3>5 DEF vars, procVars
    <3> QED
      BY <1>2, <3>1, <3>2, <3>3, <3>4, <3>5 DEF Next, PollerStep, Reading
  <2>2. \A q \in CQs : handler[q] # None => handler'[q] = handler[q]
    <3>1. ASSUME NEW c \in Conns, Register(c)
          PROVE  \A q \in CQs : handler[q] # None => handler'[q] = handler[q]
      BY <3>1, RegisterKeeps
    <3>2. CASE ~\E c \in Conns : Register(c)
      BY <1>2, <3>2 DEF Next, PollerStep, Arrive, ArriveSpoilt, Fill, FlushRecv,
         PostRecvBuffers, AllocBuffer, PostRecv, PostRecvFails, OnCompletion, Unpack,
         Unpacked, Deliver, Recv, Close, vars
    <3> QED
      BY <3>1, <3>2
  <2> QED
    BY <2>1, <2>2, Names DEF ReaderInv
<1> QED
  BY <1>1, <1>2

LEMMA OrderIsInOrder ==
    ASSUME Base, OrderInv
    PROVE  InOrder
<1> SUFFICES ASSUME NEW c \in Conns
             PROVE  LET got == <<received[c]>> \o [i \in DOMAIN recvCh[c] |-> recvCh[c][i][1]]
                    IN \A i \in 2..Len(got) :
                          IF c \in dropped THEN got[i] > got[i - 1]
                                           ELSE got[i] = got[i - 1] + 1
  BY DEF InOrder
<1> DEFINE waiting == [i \in DOMAIN recvCh[c] |-> recvCh[c][i][1]]
           got == <<received[c]>> \o waiting
           L == Len(recvCh[c])
<1>1. L \in Nat /\ DOMAIN recvCh[c] = 1..L
  BY ChannelSeq, LenProperties
<1>2. \A i \in 0..L : Number(c, i) \in Nat
  BY NumberIsNat
<1>3. \A i \in 1..L : waiting[i] = Number(c, i)
  BY <1>1 DEF Number
<1>4. waiting \in [1..L -> Nat]
  <2>1. \A i \in 1..L : i \in 0..L
    BY <1>1
  <2> QED
    BY <1>1, <1>2, <1>3, <2>1
<1>5. \E m : UpTo(c, m)
  <2>1. PICK s : Taken(c, s[1])
    BY DEF OrderInv, OrderOf
  <2> QED
    BY <2>1 DEF Taken, Reading, Unpacking, Delivering
<1>6. \A i \in 1..L : IF c \in dropped THEN Number(c, i) > Number(c, i - 1)
                                       ELSE Number(c, i) = Number(c, i - 1) + 1
  BY <1>5 DEF UpTo, ComesAfter
<1> DEFINE one == <<received[c]>>
<1>7. waiting \in Seq(Nat) /\ Len(waiting) = L
  <2> HIDE DEF waiting, L
  <2> QED
    BY <1>1, <1>4, FunctionIsSeq
<1>8. one \in Seq(Nat) /\ Len(one) = 1 /\ one[1] = Number(c, 0)
  <2>1. received[c] \in Nat
    BY DEF Base, AppTypes
  <2> QED
    BY <2>1 DEF Number
<1> HIDE DEF waiting, L, one
<1>9. Len(one \o waiting) = L + 1
      /\ \A i \in 1..L + 1 : (one \o waiting)[i] = Number(c, i - 1)
  <2>1. /\ Len(one \o waiting) = Len(one) + Len(waiting)
        /\ \A i \in 1..Len(one) + Len(waiting) :
              (one \o waiting)[i] = IF i <= Len(one) THEN one[i] ELSE waiting[i - Len(one)]
    BY <1>7, <1>8, ConcatProperties
  <2>2. ASSUME NEW i \in 1..L + 1
        PROVE  (one \o waiting)[i] = Number(c, i - 1)
    <3>1. CASE i = 1
      BY <1>1, <1>7, <1>8, <2>1, <3>1
    <3>2. CASE i # 1
      <4>1. i - 1 \in 1..L /\ ~(i <= 1)
        BY <1>1, <3>2
      <4>2. (one \o waiting)[i] = waiting[i - 1]
        BY <1>1, <1>7, <1>8, <2>1, <4>1
      <4> QED
        BY <1>3, <4>1, <4>2
    <3> QED
      BY <3>1, <3>2
  <2> QED
    BY <1>1, <1>7, <1>8, <2>1, <2>2
<1>10. got = one \o waiting
  BY DEF one
<1> HIDE DEF got
<1> SUFFICES ASSUME NEW i \in 2..Len(got)
             PROVE  IF c \in dropped THEN got[i] > got[i - 1]
                                     ELSE got[i] = got[i - 1] + 1
  BY DEF got, waiting
<1>11. i \in 1..L + 1 /\ i - 1 \in 1..L + 1 /\ i - 1 \in 1..L /\ i \in Int
  BY <1>1, <1>9, <1>10
<1>12. got[i] = Number(c, i - 1) /\ got[i - 1] = Number(c, i - 1 - 1)
  BY <1>9, <1>10, <1>11
<1>13. IF c \in dropped THEN Number(c, i - 1) > Number(c, i - 1 - 1)
                        ELSE Number(c, i - 1) = Number(c, i - 1 - 1) + 1
  BY <1>6, <1>11
<1> QED
  BY <1>12, <1>13

(* What Recv has returned, what recvCh holds and what is on the way to it   *)
(* are the numbers of the messages in the order in which the peer packed    *)
(* them.  It needs no queue of its own: the handler of another connection   *)
(* does not know the WRID and delivers nothing.                             *)
THEOREM MessagesInOrder == Spec => []InOrder
<1>1. Init => OrderInv /\ ReaderInv
  BY OrderInit, Names DEF Init, ReaderInv, Reading
<1>2. Base /\ CompletionIsKnown /\ MapsInv /\ OrderInv /\ ReaderInv /\ [Next]_vars
         => OrderInv' /\ ReaderInv'
  BY NextOrder, NextReader
<1>3. Base /\ OrderInv => InOrder
  BY OrderIsInOrder
<1>4. Spec => []CompletionIsKnown
  BY CompletionsAreKnown
<1> QED
  BY <1>1, <1>2, <1>3, <1>4, BaseInvariant, MapsAreApart, PTL DEF Spec
=============================================================================
