---------------------------- MODULE ClientProofs ----------------------------
(***************************************************************************)
(* The clients of a switch.  IInv is an inductive invariant of             *)
(* CommandShell: while no command has failed and the answers are plain, a  *)
(* command returns its own, wherever it is cut into reads, in the middle   *)
(* of a pager or of a line that looks like a prompt too.  ConnectInv is one of SshConnect: for chains   *)
(* of any length and any number of attempts, a connected client talks to   *)
(* its switch.                                                             *)
(***************************************************************************)
EXTENDS CommandShell, SshConnect, SequenceTheorems, WellFoundedInduction, TLAPS

(***************************************************************************)
(* Induction, without an operator as a parameter.                          *)
(***************************************************************************)
LEMMA LeastNumber ==
  ASSUME NEW T, T \subseteq Nat, T # {}
  PROVE  \E x \in T : \A y \in T : ~ (y < x)
<1>1. IsWellFoundedOn(OpToRel(<, Nat), Nat)
  BY NatLessThanWellFounded, Zenon
<1>2. PICK x \in T : \A y \in T : <<y, x>> \notin OpToRel(<, Nat)
  BY <1>1, WFMin, Zenon
<1>3. \A y \in T : y < x => <<y, x>> \in OpToRel(<, Nat)
  BY Zenon DEF OpToRel
<1> QED
  BY <1>2, <1>3, Zenon

LEMMA Induction ==
  ASSUME NEW T, 0 \in T, \A n \in Nat : n \in T => n + 1 \in T
  PROVE  \A n \in Nat : n \in T
<1> SUFFICES ASSUME Nat \ T # {} PROVE FALSE
  OBVIOUS
<1>1. PICK x \in Nat \ T : \A y \in Nat \ T : ~ (y < x)
  BY LeastNumber
<1>2. x # 0 /\ x - 1 \in Nat /\ x - 1 < x /\ (x - 1) + 1 = x
  BY <1>1
<1> QED
  BY <1>1, <1>2

(***************************************************************************)
(* Keep, which drops lines.                                                *)
(***************************************************************************)

\* It looks at one line after the other.
LEMMA KeepUnfolds ==
  ASSUME NEW s, NEW lines, Len(s) \in Nat
  PROVE  \E upto :
           /\ upto[0] = <<>>
           /\ \A n \in 1..Len(s) :
                upto[n] = IF s[n] \in lines THEN Append(upto[n - 1], s[n]) ELSE upto[n - 1]
           /\ Keep(s, lines) = upto[Len(s)]
<1> DEFINE N == Len(s)
           Further(r, n) == IF s[n] \in lines THEN Append(r, s[n]) ELSE r
           Upto(f, k) == /\ f = [n \in 0..k |-> f[n]] /\ f[0] = <<>>
                         /\ \A n \in 1..k : f[n] = Further(f[n - 1], n)
           T == {k \in Nat : \E f : Upto(f, k)}
<1> HIDE DEF Further
<1>1. 0 \in T
  <2>1. Upto([n \in 0..0 |-> <<>>], 0)
    OBVIOUS
  <2> QED
    BY <2>1
<1>2. ASSUME NEW k \in Nat, k \in T PROVE k + 1 \in T
  <2>1. PICK f : Upto(f, k)
    BY <1>2
  <2> DEFINE g == [n \in 0..(k + 1) |-> IF n = k + 1 THEN Further(f[k], k + 1) ELSE f[n]]
  <2>2. g[0] = <<>>
    BY <2>1
  <2>3. ASSUME NEW n \in 1..(k + 1) PROVE g[n] = Further(g[n - 1], n)
    <3>1. g[n - 1] = f[n - 1]
      OBVIOUS
    <3>2. CASE n = k + 1
      BY <3>1, <3>2
    <3>3. CASE n # k + 1
      <4>1. n \in 1..k /\ g[n] = f[n]
        BY <3>3
      <4>2. f[n] = Further(f[n - 1], n)
        BY <2>1, <4>1
      <4> QED
        BY <4>1, <4>2, <3>1
    <3> QED
      BY <3>2, <3>3
  <2>4. g = [n \in 0..(k + 1) |-> g[n]]
    OBVIOUS
  <2> HIDE DEF g
  <2>5. Upto(g, k + 1)
    BY <2>2, <2>3, <2>4, Zenon
  <2> HIDE DEF Upto
  <2> QED
    BY <2>5
<1>3. N \in T
  <2> HIDE DEF T
  <2> QED
    BY <1>1, <1>2, Induction
<1>4. PICK f : Upto(f, N)
  BY <1>3
<1> HIDE DEF T
<1> DEFINE Is(r) == r = [n \in 0..N |-> IF n = 0 THEN <<>> ELSE Further(r[n - 1], n)]
<1>5. Is(f)
  <2>1. f = [n \in 0..N |-> f[n]]
    BY <1>4, Zenon
  <2>2. f[0] = <<>> /\ \A n \in 1..N : f[n] = Further(f[n - 1], n)
    BY <1>4, Zenon
  <2>3. \A n \in 0..N : n = 0 \/ n \in 1..N
    OBVIOUS
  <2>4. \A n \in 0..N : f[n] = IF n = 0 THEN <<>> ELSE Further(f[n - 1], n)
    BY <2>2, <2>3, Zenon
  <2> QED
    BY <2>1, <2>4, Zenon
<1> DEFINE r == CHOOSE r : Is(r)
<1>6. Keep(s, lines) = r[N]
  BY DEF Keep, Further
<1>7. Is(r)
  <2> HIDE DEF Is
  <2> QED
    BY <1>5
<1> HIDE DEF r
<1>8. r[0] = <<>> /\ \A n \in 1..N : r[n] = Further(r[n - 1], n)
  BY <1>7
<1> QED
  BY <1>6, <1>8, Zenon DEF Further

\* A sequence is empty, or another one and a line.
LEMMA FrontAndLast ==
  ASSUME NEW T, NEW s \in Seq(T), s # <<>>
  PROVE  /\ Len(s) \in Nat \ {0} /\ Last(s) = s[Len(s)] /\ Last(s) \in T
         /\ Front(s) \in Seq(T) /\ Len(Front(s)) = Len(s) - 1
         /\ \A i \in 1..(Len(s) - 1) : Front(s)[i] = s[i]
         /\ s = Front(s) \o <<Last(s)>>
<1>1. Len(s) \in Nat \ {0} /\ DOMAIN s = 1..Len(s)
  BY EmptySeq, LenProperties
<1>2. Last(s) = s[Len(s)] /\ Last(s) \in T
  <2>1. Len(s) \in 1..Len(s)
    BY <1>1
  <2>2. Last(s) = s[Len(s)]
    BY DEF Last
  <2> QED
    BY <2>1, <2>2, ElementOfSeq
<1>3. Front(s) = SubSeq(s, 1, Len(s) - 1)
  BY DEF Front
<1>4. /\ SubSeq(s, 1, Len(s) - 1) \in Seq(T)
      /\ Len(SubSeq(s, 1, Len(s) - 1)) = Len(s) - 1
      /\ \A i \in 1..(Len(s) - 1) : SubSeq(s, 1, Len(s) - 1)[i] = s[i]
  <2>1. \A i \in 1..(Len(s) - 1) : s[i] \in T
    <3> SUFFICES ASSUME NEW i \in 1..(Len(s) - 1) PROVE s[i] \in T
      OBVIOUS
    <3>1. i \in 1..Len(s)
      BY <1>1
    <3> QED
      BY <3>1, ElementOfSeq
  <2>2. 1 \in Int /\ Len(s) - 1 \in Int
    BY <1>1
  <2> DEFINE n == Len(s) - 1
             t == SubSeq(s, 1, n)
  <2>3. /\ t \in Seq(T) /\ Len(t) = IF 1 <= n THEN n - 1 + 1 ELSE 0
        /\ \A i \in 1..(n - 1 + 1) : t[i] = s[1 + i - 1]
    <3> HIDE DEF n
    <3> QED
      BY <2>1, <2>2, SubSeqProperties DEF n
  <2> HIDE DEF t
  <2>4. Len(t) = Len(s) - 1
    <3>1. n \in Nat /\ n = Len(s) - 1
      BY <1>1
    <3>2. Len(t) = IF 1 <= n THEN n - 1 + 1 ELSE 0
      BY <2>3, Zenon
    <3> HIDE DEF n
    <3>3. Len(t) = n
      BY <3>1, <3>2
    <3> QED
      BY <3>1, <3>3
  <2>5. \A i \in 1..(Len(s) - 1) : t[i] = s[i]
    <3> SUFFICES ASSUME NEW i \in 1..(Len(s) - 1) PROVE t[i] = s[i]
      OBVIOUS
    <3>1. i \in 1..(n - 1 + 1) /\ 1 + i - 1 = i
      BY <1>1
    <3> QED
      BY <2>3, <3>1
  <2> QED
    BY <2>3, <2>4, <2>5 DEF t
<1>5. SubSeq(s, 1, Len(s)) = SubSeq(s, 1, Len(s) - 1) \o <<s[Len(s)]>>
  <2>1. 1 \in 1..Len(s) /\ Len(s) \in 1..Len(s)
    BY <1>1
  <2> QED
    BY <2>1, SubSeqRecursiveSecond
<1>6. s = Front(s) \o <<Last(s)>>
  BY <1>2, <1>3, <1>5, SubSeqFull
<1> QED
  BY <1>1, <1>2, <1>3, <1>4, <1>6, Zenon

\* Induction over the lines of a sequence.
LEMMA SequenceInduction ==
  ASSUME NEW T, NEW P, <<>> \in P,
         \A s \in Seq(T), e \in T : s \in P => s \o <<e>> \in P
  PROVE  \A s \in Seq(T) : s \in P
<1> DEFINE N == {n \in Nat : \A s \in Seq(T) : Len(s) = n => s \in P}
<1>1. 0 \in N
  <2> SUFFICES ASSUME NEW s \in Seq(T), Len(s) = 0 PROVE s \in P
    OBVIOUS
  <2>1. s = <<>>
    BY EmptySeq
  <2> QED
    BY <2>1
<1>2. ASSUME NEW n \in Nat, n \in N PROVE n + 1 \in N
  <2> SUFFICES ASSUME NEW s \in Seq(T), Len(s) = n + 1 PROVE s \in P
    OBVIOUS
  <2>1. s # <<>>
    BY EmptySeq
  <2>2. /\ Last(s) \in T /\ Front(s) \in Seq(T) /\ Len(Front(s)) = Len(s) - 1
        /\ s = Front(s) \o <<Last(s)>>
    BY <2>1, FrontAndLast, Zenon
  <2>3. Len(Front(s)) = n
    BY <2>2
  <2>4. Front(s) \in P
    BY <1>2, <2>2, <2>3
  <2>5. Front(s) \o <<Last(s)>> \in P
    BY <2>2, <2>4, Zenon
  <2> QED
    BY <2>2, <2>5, Zenon
<1>3. \A n \in Nat : n \in N
  <2> HIDE DEF N
  <2> QED
    BY <1>1, <1>2, Induction
<1> QED
  <2> SUFFICES ASSUME NEW s \in Seq(T) PROVE s \in P
    OBVIOUS
  <2>1. Len(s) \in Nat
    OBVIOUS
  <2> QED
    BY <1>3, <2>1

\* One line more.
LEMMA OneMore ==
  ASSUME NEW T, NEW s \in Seq(T), NEW e \in T
  PROVE  /\ s \o <<e>> \in Seq(T) /\ Len(s \o <<e>>) = Len(s) + 1 /\ Len(s) \in Nat
         /\ (s \o <<e>>)[Len(s) + 1] = e
         /\ \A i \in 1..Len(s) : (s \o <<e>>)[i] = s[i]
         /\ Append(s, e) = s \o <<e>>
         /\ s \o <<e>> # <<>> /\ Last(s \o <<e>>) = e
<1>0. \A x \in T : <<x>> \in Seq(T) /\ Len(<<x>>) = 1 /\ <<x>>[1] = x
  OBVIOUS
<1>1. <<e>> \in Seq(T) /\ Len(<<e>>) = 1 /\ <<e>>[1] = e
  BY <1>0
<1>2. Len(s) \in Nat
  OBVIOUS
<1> DEFINE o == <<e>>
<1>3. o \in Seq(T) /\ Len(o) = 1 /\ o[1] = e
  BY <1>1
<1>4. /\ s \o o \in Seq(T) /\ Len(s \o o) = Len(s) + Len(o)
      /\ \A i \in 1..(Len(s) + Len(o)) : (s \o o)[i] = IF i <= Len(s) THEN s[i] ELSE o[i - Len(s)]
  <2> HIDE DEF o
  <2> QED
    BY <1>3, ConcatProperties
<1> DEFINE t == s \o o
<1>5. t \in Seq(T) /\ Len(t) = Len(s) + Len(o)
      /\ \A i \in 1..(Len(s) + Len(o)) : t[i] = IF i <= Len(s) THEN s[i] ELSE o[i - Len(s)]
  BY <1>4
<1> HIDE DEF o, t
<1>6. Len(t) = Len(s) + 1
  BY <1>3, <1>5
<1>7. t[Len(s) + 1] = e
  <2>1. Len(s) + 1 \in 1..(Len(s) + Len(o)) /\ ~ (Len(s) + 1 <= Len(s)) /\ Len(s) + 1 - Len(s) = 1
    BY <1>2, <1>3
  <2> QED
    BY <2>1, <1>3, <1>5
<1>8. \A i \in 1..Len(s) : t[i] = s[i]
  BY <1>2, <1>3, <1>5
<1>9. t # <<>> /\ Last(t) = e
  <2>1. t # <<>>
    <3>1. Len(t) # 0
      BY <1>2, <1>6
    <3>2. Len(<<>>) = 0
      BY EmptySeq
    <3> QED
      BY <3>1, <3>2
  <2>2. Last(t) = t[Len(t)]
    BY DEF Last
  <2> QED
    BY <2>1, <2>2, <1>6, <1>7
<1>10. Append(s, e) = t
  <2>1. Append(s, e) \in Seq(T) /\ Len(Append(s, e)) = Len(s) + 1
        /\ \A i \in 1..Len(s) : Append(s, e)[i] = s[i]
        /\ Append(s, e)[Len(s) + 1] = e
    OBVIOUS
  <2> DEFINE a == Append(s, e)
  <2>2. a \in Seq(T) /\ Len(a) = Len(s) + 1 /\ (\A i \in 1..Len(s) : a[i] = s[i]) /\ a[Len(s) + 1] = e
    BY <2>1
  <2> HIDE DEF a
  <2>3. \A i \in 1..Len(a) : a[i] = t[i]
    <3> SUFFICES ASSUME NEW i \in 1..Len(a) PROVE a[i] = t[i]
      OBVIOUS
    <3>1. i \in 1..Len(s) \/ i = Len(s) + 1
      BY <1>2, <2>2
    <3> QED
      BY <3>1, <2>2, <1>7, <1>8
  <2>4. Len(a) = Len(t)
    BY <2>2, <1>6
  <2>5. a = t
    BY <2>2, <2>3, <2>4, <1>5, SeqEqual
  <2> QED
    BY <2>5 DEF a
<1> QED
  BY <1>2, <1>5, <1>6, <1>7, <1>8, <1>9, <1>10, Zenon DEF t, o

\* What Keep does with the last line.
LEMMA KeepNothing == ASSUME NEW lines PROVE Keep(<<>>, lines) = <<>>
<1>1. Len(<<>>) = 0
  BY EmptySeq
<1>2. PICK upto : upto[0] = <<>> /\ Keep(<<>>, lines) = upto[Len(<<>>)]
  <2>1. Len(<<>>) \in Nat
    BY <1>1
  <2> DEFINE s == <<>>
  <2>2. Len(s) \in Nat
    BY <2>1
  <2>3. \E upto : upto[0] = <<>> /\ Keep(s, lines) = upto[Len(s)]
    <3> HIDE DEF s
    <3>1. \E upto :
           /\ upto[0] = <<>>
           /\ \A n \in 1..Len(s) :
                upto[n] = IF s[n] \in lines THEN Append(upto[n - 1], s[n]) ELSE upto[n - 1]
           /\ Keep(s, lines) = upto[Len(s)]
      BY <2>2, KeepUnfolds
    <3> QED
      BY <3>1, Zenon
  <2> QED
    BY <2>3
<1> QED
  BY <1>1, <1>2

LEMMA KeepOneMore ==
  ASSUME NEW T, NEW s \in Seq(T), NEW e \in T, NEW lines
  PROVE  Keep(s \o <<e>>, lines) = IF e \in lines THEN Append(Keep(s, lines), e) ELSE Keep(s, lines)
<1> DEFINE t == s \o <<e>>
           Further(r, l) == IF l \in lines THEN Append(r, l) ELSE r
<1>1. /\ t \in Seq(T) /\ Len(t) = Len(s) + 1 /\ Len(s) \in Nat
      /\ t[Len(s) + 1] = e /\ \A i \in 1..Len(s) : t[i] = s[i]
  BY OneMore, Zenon
<1>2. PICK f : /\ f[0] = <<>>
               /\ \A n \in 1..Len(s) : f[n] = Further(f[n - 1], s[n])
               /\ Keep(s, lines) = f[Len(s)]
  <2>1. \E f : /\ f[0] = <<>>
               /\ \A n \in 1..Len(s) : f[n] = IF s[n] \in lines THEN Append(f[n - 1], s[n]) ELSE f[n - 1]
               /\ Keep(s, lines) = f[Len(s)]
    BY <1>1, KeepUnfolds
  <2> QED
    BY <2>1, Zenon
<1> HIDE DEF t
<1>3. PICK g : /\ g[0] = <<>>
               /\ \A n \in 1..Len(t) : g[n] = Further(g[n - 1], t[n])
               /\ Keep(t, lines) = g[Len(t)]
  <2>0. Len(t) \in Nat
    BY <1>1
  <2>1. \E h : /\ h[0] = <<>>
               /\ \A n \in 1..Len(t) : h[n] = IF t[n] \in lines THEN Append(h[n - 1], t[n]) ELSE h[n - 1]
               /\ Keep(t, lines) = h[Len(t)]
    BY <2>0, KeepUnfolds
  <2> QED
    BY <2>1, Zenon
<1> HIDE DEF Further
<1> DEFINE N == {n \in Nat : n <= Len(s) => g[n] = f[n]}
<1>4. \A n \in Nat : n \in N
  <2>1. 0 \in N
    BY <1>2, <1>3
  <2>2. ASSUME NEW n \in Nat, n \in N PROVE n + 1 \in N
    <3> SUFFICES ASSUME n + 1 <= Len(s) PROVE g[n + 1] = f[n + 1]
      OBVIOUS
    <3>1. n + 1 \in 1..Len(s) /\ n + 1 \in 1..Len(t) /\ (n + 1) - 1 = n /\ n <= Len(s)
      BY <1>1
    <3>2. g[n] = f[n]
      BY <2>2, <3>1
    <3>3. g[n + 1] = Further(g[(n + 1) - 1], t[n + 1]) /\ f[n + 1] = Further(f[(n + 1) - 1], s[n + 1])
      BY <1>2, <1>3, <3>1, Zenon
    <3>4. t[n + 1] = s[n + 1]
      BY <1>1, <3>1
    <3> QED
      BY <3>1, <3>2, <3>3, <3>4
  <2> HIDE DEF N
  <2> QED
    BY <2>1, <2>2, Induction
<1>5. g[Len(s)] = Keep(s, lines)
  BY <1>1, <1>2, <1>4
<1>6. Keep(t, lines) = Further(g[Len(s)], e)
  <2>1. Len(t) \in 1..Len(t) /\ Len(t) - 1 = Len(s) /\ t[Len(t)] = e
    BY <1>1
  <2>2. g[Len(t)] = Further(g[Len(t) - 1], t[Len(t)])
    BY <1>3, <2>1, Zenon
  <2> QED
    BY <1>3, <2>1, <2>2
<1>7. Keep(t, lines) = Further(Keep(s, lines), e)
  BY <1>5, <1>6
<1> QED
  BY <1>7, Zenon DEF t, Further

\* What is left are lines of the sequence, of the kind that is kept.
LEMMA KeepType ==
  ASSUME NEW T, NEW s \in Seq(T), NEW lines
  PROVE  Keep(s, lines) \in Seq(T \cap lines)
<1> DEFINE P == {x \in Seq(T) : Keep(x, lines) \in Seq(T \cap lines)}
<1>1. <<>> \in P
  <2>1. <<>> \in Seq(T) /\ <<>> \in Seq(T \cap lines)
    BY EmptySeq
  <2> QED
    BY <2>1, KeepNothing
<1>2. ASSUME NEW x \in Seq(T), NEW e \in T, x \in P PROVE x \o <<e>> \in P
  <2>1. x \o <<e>> \in Seq(T)
    BY OneMore, Zenon
  <2>2. Keep(x \o <<e>>, lines) = IF e \in lines THEN Append(Keep(x, lines), e) ELSE Keep(x, lines)
    BY KeepOneMore, Zenon
  <2> DEFINE k == Keep(x, lines)
             U == T \cap lines
  <2>3. k \in Seq(U) /\ (e \in lines => e \in U)
    BY <1>2
  <2> HIDE DEF k, U
  <2>4. e \in lines => Append(k, e) \in Seq(U)
    BY <2>3
  <2>5. Keep(x \o <<e>>, lines) \in Seq(U)
    BY <2>2, <2>3, <2>4, Zenon DEF k
  <2> QED
    BY <2>1, <2>5, Zenon DEF U
<1>3. \A x \in Seq(T) : x \in P
  <2> HIDE DEF P
  <2> QED
    BY <1>1, <1>2, SequenceInduction
<1> QED
  BY <1>3

\* Nothing is kept if there is nothing of that kind.
LEMMA KeepNone ==
  ASSUME NEW T, NEW s \in Seq(T), NEW lines, \A i \in 1..Len(s) : s[i] \notin lines
  PROVE  Keep(s, lines) = <<>>
<1> DEFINE P == {x \in Seq(T) : (\A i \in 1..Len(x) : x[i] \notin lines) => Keep(x, lines) = <<>>}
<1>1. <<>> \in P
  BY EmptySeq, KeepNothing
<1>2. ASSUME NEW x \in Seq(T), NEW e \in T, x \in P PROVE x \o <<e>> \in P
  <2> DEFINE y == x \o <<e>>
  <2>1. /\ y \in Seq(T) /\ Len(y) = Len(x) + 1 /\ Len(x) \in Nat
        /\ y[Len(x) + 1] = e /\ \A i \in 1..Len(x) : y[i] = x[i]
    BY OneMore, Zenon
  <2>2. Keep(y, lines) = IF e \in lines THEN Append(Keep(x, lines), e) ELSE Keep(x, lines)
    BY KeepOneMore, Zenon
  <2> HIDE DEF y
  <2>3. ASSUME \A i \in 1..Len(y) : y[i] \notin lines PROVE Keep(y, lines) = <<>>
    <3>1. e \notin lines
      <4>1. Len(x) + 1 \in 1..Len(y)
        BY <2>1
      <4> QED
        BY <2>1, <2>3, <4>1
    <3>2. \A i \in 1..Len(x) : x[i] \notin lines
      <4> SUFFICES ASSUME NEW i \in 1..Len(x) PROVE x[i] \notin lines
        OBVIOUS
      <4>1. i \in 1..Len(y)
        BY <2>1
      <4> QED
        BY <2>1, <2>3, <4>1
    <3> QED
      BY <1>2, <2>2, <3>1, <3>2
  <2> QED
    BY <2>1, <2>3 DEF y
<1>3. \A x \in Seq(T) : x \in P
  <2> HIDE DEF P
  <2> QED
    BY <1>1, <1>2, SequenceInduction
<1> QED
  BY <1>3

\* Two parts are looked at one after the other.
LEMMA KeepJoined ==
  ASSUME NEW T, NEW s \in Seq(T), NEW t \in Seq(T), NEW lines
  PROVE  Keep(s \o t, lines) = Keep(s, lines) \o Keep(t, lines)
<1> DEFINE P == {x \in Seq(T) : Keep(s \o x, lines) = Keep(s, lines) \o Keep(x, lines)}
<1>0. Keep(s, lines) \in Seq(T \cap lines)
  BY KeepType, Zenon
<1>1. <<>> \in P
  <2>1. <<>> \in Seq(T) /\ s \o <<>> = s
    BY EmptySeq, ConcatEmptySeq, Zenon
  <2>2. Keep(s, lines) \o <<>> = Keep(s, lines)
    BY <1>0, ConcatEmptySeq, Zenon
  <2>3. Keep(<<>>, lines) = <<>>
    BY KeepNothing, Zenon
  <2>4. Keep(s \o <<>>, lines) = Keep(s, lines) \o Keep(<<>>, lines)
    BY <2>1, <2>2, <2>3, Zenon
  <2> QED
    BY <2>1, <2>4, Zenon
<1>2. ASSUME NEW x \in Seq(T), NEW e \in T, x \in P PROVE x \o <<e>> \in P
  <2>1. x \o <<e>> \in Seq(T) /\ s \o x \in Seq(T) /\ <<e>> \in Seq(T)
    <3>1. s \o x \in Seq(T)
      BY ConcatProperties, Zenon
    <3>2. \A y \in T : <<y>> \in Seq(T)
      OBVIOUS
    <3> QED
      BY <3>1, <3>2, OneMore, Zenon
  <2>2. s \o (x \o <<e>>) = (s \o x) \o <<e>>
    <3> DEFINE o == <<e>>
    <3>1. o \in Seq(T)
      BY <2>1
    <3> HIDE DEF o
    <3>2. (s \o x) \o o = s \o (x \o o)
      BY <3>1, ConcatAssociative
    <3> QED
      BY <3>2 DEF o
  <2>3. Keep(x \o <<e>>, lines) = IF e \in lines THEN Append(Keep(x, lines), e) ELSE Keep(x, lines)
    BY KeepOneMore, Zenon
  <2>4. Keep((s \o x) \o <<e>>, lines)
          = IF e \in lines THEN Append(Keep(s \o x, lines), e) ELSE Keep(s \o x, lines)
    BY <2>1, KeepOneMore, Zenon
  <2>5. Keep(s \o x, lines) = Keep(s, lines) \o Keep(x, lines)
    BY <1>2
  <2> DEFINE U == T \cap lines
             ks == Keep(s, lines)
             kx == Keep(x, lines)
  <2>6. ks \in Seq(U) /\ kx \in Seq(U) /\ ks \o kx \in Seq(U)
    <3>1. ks \in Seq(U) /\ kx \in Seq(U)
      BY <1>0, KeepType, Zenon
    <3> HIDE DEF U, ks, kx
    <3> QED
      BY <3>1, ConcatProperties, Zenon
  <2>7. Keep(s \o (x \o <<e>>), lines) = ks \o Keep(x \o <<e>>, lines)
    <3>1. CASE e \notin lines
      BY <2>2, <2>3, <2>4, <2>5, <3>1, Zenon
    <3>2. CASE e \in lines
      <4>1. e \in U /\ <<e>> \in Seq(U)
        <5>1. e \in U
          BY <3>2
        <5>2. \A W : \A y \in W : <<y>> \in Seq(W)
          OBVIOUS
        <5> QED
          BY <5>1, <5>2, Zenon
      <4> HIDE DEF U
      <4>2. Append(ks \o kx, e) = (ks \o kx) \o <<e>> /\ Append(kx, e) = kx \o <<e>>
        <5> HIDE DEF ks, kx
        <5>1. \A y \in Seq(U) : Append(y, e) = y \o <<e>>
          BY <4>1, OneMore
        <5> QED
          BY <2>6, <5>1, Zenon
      <4>3. (ks \o kx) \o <<e>> = ks \o (kx \o <<e>>)
        <5> DEFINE o == <<e>>
        <5>1. o \in Seq(U)
          BY <4>1
        <5> HIDE DEF o, ks, kx
        <5>2. (ks \o kx) \o o = ks \o (kx \o o)
          BY <2>6, <5>1, ConcatAssociative
        <5> QED
          BY <5>2 DEF o
      <4> QED
        BY <2>2, <2>3, <2>4, <2>5, <3>2, <4>2, <4>3, Zenon
    <3> QED
      BY <3>1, <3>2, Zenon
  <2> QED
    BY <2>1, <2>7, Zenon
<1>3. \A x \in Seq(T) : x \in P
  <2> HIDE DEF P
  <2> QED
    BY <1>1, <1>2, SequenceInduction
<1> QED
  BY <1>3

\* What is dropped first is not missed if it is to be dropped anyway.
LEMMA KeepTwice ==
  ASSUME NEW T, NEW s \in Seq(T), NEW lines, NEW fewer, T \cap fewer \subseteq lines
  PROVE  Keep(Keep(s, lines), fewer) = Keep(s, fewer)
<1> DEFINE P == {x \in Seq(T) : Keep(Keep(x, lines), fewer) = Keep(x, fewer)}
<1>1. <<>> \in P
  BY EmptySeq, KeepNothing
<1>2. ASSUME NEW x \in Seq(T), NEW e \in T, x \in P PROVE x \o <<e>> \in P
  <2>1. x \o <<e>> \in Seq(T)
    BY OneMore, Zenon
  <2>2. Keep(x \o <<e>>, lines) = IF e \in lines THEN Append(Keep(x, lines), e) ELSE Keep(x, lines)
    BY KeepOneMore, Zenon
  <2>3. Keep(x \o <<e>>, fewer) = IF e \in fewer THEN Append(Keep(x, fewer), e) ELSE Keep(x, fewer)
    BY KeepOneMore, Zenon
  <2>4. e \in fewer => e \in lines
    OBVIOUS
  <2> DEFINE k == Keep(x, lines)
             U == T \cap lines
  <2>5. k \in Seq(U) /\ (e \in lines => e \in U)
    BY KeepType
  <2> HIDE DEF U
  <2>6. e \in lines => /\ Append(k, e) = k \o <<e>>
                       /\ Keep(k \o <<e>>, fewer)
                             = IF e \in fewer THEN Append(Keep(k, fewer), e) ELSE Keep(k, fewer)
    <3> HIDE DEF k
    <3>1. \A y \in Seq(U), l \in U : Append(y, l) = y \o <<l>>
      BY OneMore
    <3>2. \A y \in Seq(U), l \in U :
            Keep(y \o <<l>>, fewer) = IF l \in fewer THEN Append(Keep(y, fewer), l) ELSE Keep(y, fewer)
      BY KeepOneMore
    <3> QED
      BY <2>5, <3>1, <3>2, Zenon
  <2>7. Keep(k, fewer) = Keep(x, fewer)
    BY <1>2
  <2>8. Keep(Keep(x \o <<e>>, lines), fewer) = Keep(x \o <<e>>, fewer)
    <3>1. CASE e \notin lines
      BY <3>1, <2>2, <2>3, <2>4, <2>7, Zenon
    <3>2. CASE e \in lines
      BY <3>2, <2>2, <2>3, <2>6, <2>7, Zenon
    <3> QED
      BY <3>1, <3>2, Zenon
  <2> QED
    BY <2>1, <2>8, Zenon
<1>3. \A x \in Seq(T) : x \in P
  <2> HIDE DEF P
  <2> QED
    BY <1>1, <1>2, SequenceInduction
<1> QED
  BY <1>3

\* Two sequences that differ only in what is dropped leave the same.
LEMMA KeepSame ==
  ASSUME NEW s, NEW t, NEW lines, Len(s) \in Nat, Len(t) = Len(s),
         \A i \in 1..Len(s) : t[i] = s[i] \/ (t[i] \notin lines /\ s[i] \notin lines)
  PROVE  Keep(t, lines) = Keep(s, lines)
<1> DEFINE Further(r, l) == IF l \in lines THEN Append(r, l) ELSE r
<1>1. PICK f : /\ f[0] = <<>>
               /\ \A n \in 1..Len(s) : f[n] = Further(f[n - 1], s[n])
               /\ Keep(s, lines) = f[Len(s)]
  <2>1. \E f : /\ f[0] = <<>>
               /\ \A n \in 1..Len(s) : f[n] = IF s[n] \in lines THEN Append(f[n - 1], s[n]) ELSE f[n - 1]
               /\ Keep(s, lines) = f[Len(s)]
    BY KeepUnfolds
  <2> QED
    BY <2>1, Zenon
<1>2. PICK g : /\ g[0] = <<>>
               /\ \A n \in 1..Len(t) : g[n] = Further(g[n - 1], t[n])
               /\ Keep(t, lines) = g[Len(t)]
  <2>1. \E h : /\ h[0] = <<>>
               /\ \A n \in 1..Len(t) : h[n] = IF t[n] \in lines THEN Append(h[n - 1], t[n]) ELSE h[n - 1]
               /\ Keep(t, lines) = h[Len(t)]
    BY KeepUnfolds
  <2> QED
    BY <2>1, Zenon
<1>3. \A n \in 1..Len(s) : \A r : Further(r, t[n]) = Further(r, s[n])
  OBVIOUS
<1> HIDE DEF Further
<1> DEFINE N == {n \in Nat : n <= Len(s) => g[n] = f[n]}
<1>4. \A n \in Nat : n \in N
  <2>1. 0 \in N
    BY <1>1, <1>2
  <2>2. ASSUME NEW n \in Nat, n \in N PROVE n + 1 \in N
    <3> SUFFICES ASSUME n + 1 <= Len(s) PROVE g[n + 1] = f[n + 1]
      OBVIOUS
    <3>1. n + 1 \in 1..Len(s) /\ n + 1 \in 1..Len(t) /\ (n + 1) - 1 = n /\ n <= Len(s)
      OBVIOUS
    <3>2. g[n] = f[n]
      BY <2>2, <3>1
    <3>3. g[n + 1] = Further(g[(n + 1) - 1], t[n + 1]) /\ f[n + 1] = Further(f[(n + 1) - 1], s[n + 1])
      BY <1>1, <1>2, <3>1, Zenon
    <3>4. \A r : Further(r, t[n + 1]) = Further(r, s[n + 1])
      BY <1>3, <3>1, Zenon
    <3> QED
      BY <3>1, <3>2, <3>3, <3>4
  <2> HIDE DEF N
  <2> QED
    BY <2>1, <2>2, Induction
<1>5. g[Len(s)] = f[Len(s)]
  BY <1>4
<1> QED
  BY <1>1, <1>2, <1>5

(***************************************************************************)
(* Answers.                                                                *)
(***************************************************************************)
ContentPieces == [of : Nat \ {0}, kind : Kind \ (Pagers \cup {"tail", "key", "prompt"})]

LEMMA KindsOfPieces ==
  /\ ContentPieces \subseteq Shown /\ Shown \subseteq Piece /\ ContentPieces \subseteq Piece
  /\ LogLine \in Piece /\ LogLine \notin Shown
  /\ \A l \in Piece : l.of \in Nat /\ l.kind \in Kind
  /\ \A l \in Piece :
       l \in Shown <=> l.of # 0 /\ l.kind \notin {"pager", "pagerlike", "tail", "key"}
  /\ \A l \in Piece : l \in ContentPieces <=> l \in Shown /\ l.kind # "prompt"
<1>1. \A l \in Piece : l = [of |-> l.of, kind |-> l.kind] /\ l.of \in Nat /\ l.kind \in Kind
  BY DEF Piece
<1>2. \A l \in Piece :
        l \in Shown <=> l.of # 0 /\ l.kind \notin {"pager", "pagerlike", "tail", "key"}
  BY DEF Piece, Shown, Pagers
<1>3. \A l \in Piece : l \in ContentPieces <=> l \in Shown /\ l.kind # "prompt"
  BY DEF Piece, Shown, ContentPieces, Pagers
<1>4. ContentPieces \subseteq Shown /\ Shown \subseteq Piece /\ ContentPieces \subseteq Piece
  BY DEF Piece, Shown, ContentPieces
<1>5. LogLine \in Piece /\ LogLine \notin Shown
  BY DEF LogLine, Piece, Shown, Kind
<1> QED
  BY <1>1, <1>2, <1>3, <1>4, <1>5

LEMMA PiecesOfAnswer ==
  ASSUME NEW k \in Nat, NEW a \in Seq(Kind)
  PROVE  /\ PiecesOf(k, a) \in Seq(Piece) /\ Len(PiecesOf(k, a)) = Len(a) /\ Len(a) \in Nat
         /\ \A i \in 1..Len(a) : PiecesOf(k, a)[i] = [of |-> k, kind |-> a[i]]
         /\ a # <<>> => PiecesOf(k, a) # <<>> /\ Last(PiecesOf(k, a)) = [of |-> k, kind |-> Last(a)]
<1>1. Len(a) \in Nat /\ DOMAIN a = 1..Len(a) /\ \A i \in 1..Len(a) : a[i] \in Kind
  OBVIOUS
<1> DEFINE u == PiecesOf(k, a)
<1>2. u = [i \in 1..Len(a) |-> [of |-> k, kind |-> a[i]]]
  BY <1>1 DEF PiecesOf
<1>3. \A i \in 1..Len(a) : u[i] = [of |-> k, kind |-> a[i]] /\ u[i] \in Piece
  BY <1>1, <1>2 DEF Piece
<1>4. u \in Seq(Piece) /\ Len(u) = Len(a)
  <2> HIDE DEF u
  <2>1. u \in [1..Len(a) -> Piece]
    BY <1>2, <1>3
  <2> QED
    BY <1>1, <2>1
<1> HIDE DEF u
<1>5. a # <<>> => u # <<>> /\ Last(u) = [of |-> k, kind |-> Last(a)]
  <2> SUFFICES ASSUME a # <<>> PROVE u # <<>> /\ Last(u) = [of |-> k, kind |-> Last(a)]
    OBVIOUS
  <2>1. Len(a) # 0 /\ Len(a) \in 1..Len(a)
    BY <1>1, EmptySeq
  <2>2. Last(u) = u[Len(u)] /\ Last(a) = a[Len(a)]
    BY DEF Last
  <2>3. u # <<>>
    BY <1>4, <2>1, EmptySeq
  <2> QED
    BY <2>1, <2>2, <2>3, <1>3, <1>4
<1> QED
  BY <1>1, <1>3, <1>4, <1>5 DEF u

\* What is kept of a text ends in its last line, if that is kept.
LEMMA LastIsKept ==
  ASSUME NEW s \in Seq(Piece), s # <<>>, NEW lines
  PROVE  /\ Last(s) \in lines =>
              /\ Keep(s, lines) = Append(Keep(Front(s), lines), Last(s))
              /\ Last(Keep(s, lines)) = Last(s)
         /\ Last(s) \notin lines => Keep(s, lines) = Keep(Front(s), lines)
<1>1. Last(s) \in Piece /\ Front(s) \in Seq(Piece) /\ s = Front(s) \o <<Last(s)>>
  BY FrontAndLast, Zenon
<1> DEFINE f == Front(s)
           e == Last(s)
           U == Piece \cap lines
           k == Keep(f, lines)
<1>2. Keep(s, lines) = IF e \in lines THEN Append(k, e) ELSE k
  <2>1. \A y \in Seq(Piece), l \in Piece :
          Keep(y \o <<l>>, lines) = IF l \in lines THEN Append(Keep(y, lines), l) ELSE Keep(y, lines)
    BY KeepOneMore
  <2> QED
    BY <1>1, <2>1, Zenon
<1>3. k \in Seq(U)
  BY <1>1, KeepType, Zenon
<1>4. e \in lines => Last(Append(k, e)) = e
  <2> SUFFICES ASSUME e \in lines PROVE Last(Append(k, e)) = e
    OBVIOUS
  <2>1. e \in U
    BY <1>1
  <2> HIDE DEF k, e, U
  <2>2. Append(k, e) = k \o <<e>> /\ Last(k \o <<e>>) = e
    BY <1>3, <2>1, OneMore
  <2> QED
    BY <2>2
<1> QED
  BY <1>2, <1>4, Zenon

\* clean_command_output takes away nothing but the prompt that ends the answer.
LEMMA CleanedAnswer ==
  ASSUME NEW k \in Nat \ {0}, NEW a \in Seq(Kind), a # <<>>, Last(a) \in {"prompt", "ask"},
         NEW text \in Seq(Piece),
         \A i \in 1..Len(text) : text[i].of = k \/ text[i] = LogLine,
         Keep(text, Shown) = Keep(PiecesOf(k, a), Shown)
  PROVE  /\ clean_command_output(text) \in Seq(Piece)
         /\ \A l \in Range(clean_command_output(text)) : l.of \in {0, k}
         /\ Content(clean_command_output(text)) = Content(PiecesOf(k, a))
<1> DEFINE u == PiecesOf(k, a)
<1>1. u \in Seq(Piece) /\ u # <<>> /\ Last(u) = [of |-> k, kind |-> Last(a)]
  BY PiecesOfAnswer
<1>2. \A x \in Seq(Piece) : /\ Content(x) = Keep(x, ContentPieces)
                           /\ Keep(Keep(x, Shown), ContentPieces) = Keep(x, ContentPieces)
  <2>1. \A x : Content(x) = Keep(x, ContentPieces)
    BY DEF Content, ContentPieces
  <2>2. Piece \cap ContentPieces \subseteq Shown
    BY KindsOfPieces
  <2>3. \A x \in Seq(Piece) : Keep(Keep(x, Shown), ContentPieces) = Keep(x, ContentPieces)
    <3> SUFFICES ASSUME NEW x \in Seq(Piece)
                 PROVE  Keep(Keep(x, Shown), ContentPieces) = Keep(x, ContentPieces)
      OBVIOUS
    <3> DEFINE lines == Shown
               fewer == ContentPieces
    <3>1. Piece \cap fewer \subseteq lines
      BY <2>2
    <3> HIDE DEF lines, fewer
    <3>2. Keep(Keep(x, lines), fewer) = Keep(x, fewer)
      BY <3>1, KeepTwice
    <3> QED
      BY <3>2 DEF lines, fewer
  <2> QED
    BY <2>1, <2>3, Zenon
<1>3. Content(text) = Content(u)
  BY <1>1, <1>2, Zenon
<1>4. \A i \in 1..Len(text) : text[i].of \in {0, k}
  BY DEF LogLine
<1>5. CASE clean_command_output(text) = text
  BY <1>3, <1>4, <1>5 DEF Range
<1>6. CASE clean_command_output(text) # text
  <2>1. /\ text # <<>> /\ Last(text).kind \in {"prompt", "promptlike"}
        /\ clean_command_output(text) = Front(text)
    BY <1>6 DEF clean_command_output
  <2>2. /\ Len(text) \in Nat \ {0} /\ Last(text) = text[Len(text)] /\ Last(text) \in Piece
        /\ Front(text) \in Seq(Piece) /\ Len(Front(text)) = Len(text) - 1
        /\ \A i \in 1..(Len(text) - 1) : Front(text)[i] = text[i]
    BY <2>1, FrontAndLast, Zenon
  <2>3. Last(text).of = k
    <3>1. Len(text) \in 1..Len(text)
      BY <2>2
    <3>2. LogLine.kind = "line"
      BY DEF LogLine
    <3> QED
      BY <2>1, <2>2, <3>1, <3>2
  <2>4. Last(text) \in Shown
    BY <2>1, <2>2, <2>3, KindsOfPieces
  <2>5. Last(Keep(text, Shown)) = Last(text)
    BY <2>1, <2>4, LastIsKept, Zenon
  <2>6. Last(u) \in Shown
    BY <1>1 DEF Shown, Kind, Pagers
  <2>7. Last(Keep(u, Shown)) = Last(u)
    <3> HIDE DEF u
    <3> QED
      BY <1>1, <2>6, LastIsKept, Zenon
  <2>8. Last(text).kind = "prompt"
    <3>1. Last(text) = Last(u)
      BY <2>5, <2>7, Zenon
    <3>2. Last(u).kind \in {"prompt", "ask"}
      BY <1>1
    <3> QED
      BY <2>1, <3>1, <3>2
  <2>9. Last(text) \notin ContentPieces
    BY <2>2, <2>8, KindsOfPieces
  <2>10. Keep(text, ContentPieces) = Keep(Front(text), ContentPieces)
    BY <2>1, <2>9, LastIsKept, Zenon
  <2>11. Content(Front(text)) = Content(u)
    BY <2>2, <2>10, <1>2, <1>3, Zenon
  <2>12. \A l \in Range(Front(text)) : l.of \in {0, k}
    <3> DEFINE f == Front(text)
    <3>1. f \in Seq(Piece) /\ Len(f) = Len(text) - 1 /\ \A i \in 1..(Len(text) - 1) : f[i] = text[i]
      BY <2>2
    <3> HIDE DEF f
    <3>2. DOMAIN f = 1..(Len(text) - 1)
      BY <3>1
    <3>3. \A i \in DOMAIN f : f[i].of \in {0, k}
      BY <3>1, <3>2, <2>2, <1>4
    <3> QED
      BY <3>3 DEF f, Range
  <2> QED
    BY <2>1, <2>2, <2>11, <2>12
<1> QED
  BY <1>5, <1>6

(***************************************************************************)
(* Types.                                                                  *)
(***************************************************************************)

\* A sequence is read in two parts.
LEMMA Parts ==
  ASSUME NEW T, NEW s \in Seq(T), NEW n \in 0..Len(s)
  PROVE  LET first == SubSeq(s, 1, n)
             rest == SubSeq(s, n + 1, Len(s))
         IN  /\ first \in Seq(T) /\ rest \in Seq(T) /\ s = first \o rest
             /\ Len(first) = n /\ Len(rest) = Len(s) - n /\ Len(s) \in Nat
             /\ \A i \in 1..n : first[i] = s[i]
             /\ \A i \in 1..(Len(s) - n) : rest[i] = s[n + i]
<1> DEFINE first == SubSeq(s, 1, n)
           rest == SubSeq(s, n + 1, Len(s))
           N == Len(s)
<1>0. N \in Nat /\ n \in Nat /\ n <= N /\ \A i \in 1..N : s[i] \in T
  BY LenProperties, ElementOfSeq
<1>1. /\ first \in Seq(T) /\ Len(first) = IF 1 <= n THEN n - 1 + 1 ELSE 0
      /\ \A i \in 1..(n - 1 + 1) : first[i] = s[1 + i - 1]
  <2>1. \A i \in 1..n : s[i] \in T
    BY <1>0
  <2> QED
    BY <1>0, <2>1, SubSeqProperties
<1>2. /\ rest \in Seq(T) /\ Len(rest) = IF n + 1 <= N THEN N - (n + 1) + 1 ELSE 0
      /\ \A i \in 1..(N - (n + 1) + 1) : rest[i] = s[n + 1 + i - 1]
  <2> DEFINE m == n + 1
  <2>1. \A i \in m..N : s[i] \in T
    BY <1>0
  <2>2. m \in Int /\ N \in Int
    BY <1>0
  <2>3. /\ SubSeq(s, m, N) \in Seq(T) /\ Len(SubSeq(s, m, N)) = IF m <= N THEN N - m + 1 ELSE 0
        /\ \A i \in 1..(N - m + 1) : SubSeq(s, m, N)[i] = s[m + i - 1]
    <3> HIDE DEF m, N
    <3> QED
      BY <2>1, <2>2, SubSeqProperties
  <2> QED
    BY <2>3, Zenon
<1>3. first \o rest = s
  <2>1. first \o rest = SubSeq(s, 1, Len(s))
    <3>1. 1 \in 1..(Len(s) + 1) /\ n \in (1 - 1)..Len(s) /\ Len(s) \in n..Len(s)
      BY <1>0
    <3> QED
      BY <3>1, ConcatAdjacentSubSeq
  <2> QED
    BY <2>1, SubSeqFull
<1> HIDE DEF first, rest, N
<1>4. Len(first) = n /\ Len(rest) = N - n
  BY <1>0, <1>1, <1>2
<1>5. \A i \in 1..n : first[i] = s[i]
  <2> SUFFICES ASSUME NEW i \in 1..n PROVE first[i] = s[i]
    OBVIOUS
  <2>1. i \in 1..(n - 1 + 1) /\ 1 + i - 1 = i
    BY <1>0
  <2> QED
    BY <1>1, <2>1
<1>6. \A i \in 1..(N - n) : rest[i] = s[n + i]
  <2> SUFFICES ASSUME NEW i \in 1..(N - n) PROVE rest[i] = s[n + i]
    OBVIOUS
  <2>1. i \in 1..(N - (n + 1) + 1) /\ n + 1 + i - 1 = n + i
    BY <1>0
  <2> QED
    BY <1>2, <2>1
<1> QED
  BY <1>0, <1>1, <1>2, <1>3, <1>4, <1>5, <1>6, Zenon DEF first, rest, N

\* The first of a sequence, and the others.
LEMMA HeadAndTail ==
  ASSUME NEW T, NEW s \in Seq(T), s # <<>>
  PROVE  /\ Head(s) \in T /\ Head(s) = s[1] /\ Tail(s) \in Seq(T)
         /\ Len(s) \in Nat \ {0} /\ Len(Tail(s)) = Len(s) - 1
         /\ \A i \in 1..(Len(s) - 1) : Tail(s)[i] = s[i + 1]
         /\ s = <<Head(s)>> \o Tail(s)
<1>1. Len(s) \in Nat \ {0}
  BY EmptySeq
<1>2. /\ Head(s) \in T /\ Tail(s) \in Seq(T) /\ Len(Tail(s)) = Len(s) - 1
      /\ \A i \in 1..Len(Tail(s)) : Tail(s)[i] = s[i + 1]
  BY HeadTailProperties
<1>3. Head(s) = s[1]
  OBVIOUS
<1>4. s = <<Head(s)>> \o Tail(s)
  <2>1. SubSeq(s, 1, Len(s)) = <<s[1]>> \o SubSeq(s, 1 + 1, Len(s))
    <3>1. 1 \in 1..Len(s) /\ Len(s) \in 1..Len(s)
      BY <1>1
    <3> QED
      BY <3>1, SubSeqRecursiveFirst
  <2>2. SubSeq(s, 1 + 1, Len(s)) = Tail(s)
    <3>1. 1 + 1 = 2
      OBVIOUS
    <3> QED
      BY <3>1, TailIsSubSeq
  <2> QED
    BY <1>3, <2>1, <2>2, SubSeqFull
<1> QED
  BY <1>1, <1>2, <1>3, <1>4

Statuses == {"ok", "skipped", "failed"}
Results == [status : Statuses, lines : Seq(Piece)]

LEMMA CleanedType ==
  ASSUME NEW lines \in Seq(Piece) PROVE clean_command_output(lines) \in Seq(Piece)
<1>1. lines # <<>> => Front(lines) \in Seq(Piece)
  BY FrontAndLast
<1> QED
  BY <1>1 DEF clean_command_output

\* The tail that goes with its marker is dropped with it; all the rest is as it was.
LEMMA Marked ==
  ASSUME NEW text \in Seq(Piece)
  PROVE  /\ WithTail(text) \in Seq(Piece) /\ Len(WithTail(text)) = Len(text) /\ Len(text) \in Nat
         /\ DOMAIN text = 1..Len(text)
         /\ \A i \in 1..Len(text) :
              \/ WithTail(text)[i] = text[i]
              \/ WithTail(text)[i].kind = "pager" /\ text[i].kind = "tail"
<1>1. Len(text) \in Nat /\ DOMAIN text = 1..Len(text) /\ \A i \in 1..Len(text) : text[i] \in Piece
  BY LenProperties, ElementOfSeq
<1> DEFINE v == WithTail(text)
<1>2. /\ v = [i \in 1..Len(text) |-> v[i]]
      /\ \A i \in 1..Len(text) :
           v[i] = text[i] \/ (v[i] = [text[i] EXCEPT !.kind = "pager"] /\ text[i].kind = "tail")
  BY <1>1 DEF WithTail
<1>3. \A l \in Piece : [l EXCEPT !.kind = "pager"] \in Piece /\ [l EXCEPT !.kind = "pager"].kind = "pager"
  BY DEF Piece, Kind
<1> HIDE DEF v
<1>4. \A i \in 1..Len(text) : v[i] \in Piece
  BY <1>1, <1>2, <1>3
<1>5. v \in Seq(Piece) /\ Len(v) = Len(text)
  <2>1. v \in [1..Len(text) -> Piece]
    BY <1>2, <1>4
  <2> QED
    BY <1>1, <2>1
<1>6. \A i \in 1..Len(text) : v[i] = text[i] \/ (v[i].kind = "pager" /\ text[i].kind = "tail")
  <2> SUFFICES ASSUME NEW i \in 1..Len(text), v[i] # text[i]
               PROVE  v[i].kind = "pager" /\ text[i].kind = "tail"
    OBVIOUS
  <2>1. v[i] = [text[i] EXCEPT !.kind = "pager"] /\ text[i].kind = "tail"
    BY <1>2
  <2>2. [text[i] EXCEPT !.kind = "pager"].kind = "pager"
    BY <1>1, <1>3
  <2> QED
    BY <2>1, <2>2, Zenon
<1> QED
  BY <1>1, <1>5, <1>6 DEF v

LEMMA Stripped ==
  ASSUME NEW text \in Seq(Piece)
  PROVE  /\ strip_pager_prompt(text) \in Seq(Piece)
         /\ Keep(strip_pager_prompt(text), Shown) = Keep(text, Shown)
         /\ \A i \in DOMAIN strip_pager_prompt(text) :
              \E j \in DOMAIN text : strip_pager_prompt(text)[i] = text[j]
<1> DEFINE kept == [of : Nat, kind : Kind \ Pagers]
           lines == Shown
           v == WithTail(text)
           U == {v[j] : j \in 1..Len(text)}
           k == strip_pager_prompt(text)
<1>1. k = Keep(v, kept)
  BY DEF strip_pager_prompt
<1>2. Piece \cap lines \subseteq kept
  BY DEF Shown
<1>3. /\ v \in Seq(Piece) /\ Len(v) = Len(text) /\ Len(text) \in Nat /\ DOMAIN text = 1..Len(text)
      /\ \A i \in 1..Len(text) : v[i] = text[i] \/ (v[i].kind = "pager" /\ text[i].kind = "tail")
  BY Marked, Zenon
<1>4. \A l \in kept : l.kind # "pager"
  BY DEF Pagers
<1>5. \A l \in lines : l.kind # "pager" /\ l.kind # "tail"
  BY DEF Shown, Pagers
<1> HIDE DEF v
<1>6. v \in Seq(U) /\ U \subseteq Piece
  <2>1. v \in [1..Len(v) -> Piece]
    BY <1>3, LenProperties
  <2>2. U \subseteq Piece
    BY <1>3, <2>1
  <2>3. v \in [1..Len(text) -> U]
    BY <1>3, <2>1
  <2> HIDE DEF U
  <2> QED
    BY <1>3, <2>2, <2>3
<1> HIDE DEF kept, lines, k
<1>7. Keep(k, lines) = Keep(text, lines)
  <2>1. Keep(k, lines) = Keep(v, lines)
    BY <1>1, <1>2, <1>3, KeepTwice
  <2>2. \A i \in 1..Len(text) : v[i] = text[i] \/ (v[i] \notin lines /\ text[i] \notin lines)
    BY <1>3, <1>5
  <2>3. Keep(v, lines) = Keep(text, lines)
    BY <1>3, <2>2, KeepSame
  <2> QED
    BY <2>1, <2>3
<1>8. k \in Seq(U \cap kept)
  <2> HIDE DEF U
  <2> QED
    BY <1>1, <1>6, KeepType
<1>9. k \in Seq(Piece)
  <2>1. U \cap kept \subseteq Piece
    BY <1>6
  <2> HIDE DEF U
  <2> QED
    BY <1>8, <2>1, SeqMonotonic
<1>10. \A i \in DOMAIN k : \E j \in DOMAIN text : k[i] = text[j]
  <2> SUFFICES ASSUME NEW i \in DOMAIN k PROVE \E j \in DOMAIN text : k[i] = text[j]
    OBVIOUS
  <2>1. k[i] \in U \cap kept
    <3> HIDE DEF U
    <3>1. DOMAIN k = 1..Len(k)
      BY <1>8, LenProperties
    <3> QED
      BY <1>8, <3>1, ElementOfSeq
  <2>2. PICK j \in 1..Len(text) : k[i] = v[j]
    BY <2>1
  <2>3. v[j].kind # "pager"
    BY <1>4, <2>1, <2>2
  <2> QED
    BY <1>3, <2>2, <2>3
<1> QED
  BY <1>7, <1>9, <1>10 DEF lines, k

SwitchTypes ==
  /\ input \in Seq(0..Len(script)) /\ answering \in Seq(Piece) /\ wire \in Seq(Piece)
  /\ holding \in BOOLEAN /\ silent \in BOOLEAN /\ given \in Seq(Seq(Kind)) /\ logs \in Nat

\* What a command returned is added to what the others did.
LEMMA ReturnTypes ==
  ASSUME TypeOK, pc = "waiting", SwitchTypes', Len(given') = Len(given),
         NEW status \in Statuses, NEW lines \in Seq(Piece), Returns(status, lines)
  PROVE  /\ TypeOK' /\ pc' # "waiting" /\ next' = next + 1 /\ script' = script
         /\ results' = results \o <<[status |-> status, lines |-> clean_command_output(lines)]>>
<1> DEFINE r == [status |-> status, lines |-> clean_command_output(lines)]
<1>0. /\ results \in Seq(Results) /\ Len(results) = next - 1 /\ next \in Nat /\ next <= Len(script)
      /\ Len(script) \in Nat /\ Len(given) = next /\ next >= 1
  BY ScriptAssumption DEF TypeOK, Results, Statuses
<1>1. r \in Results
  BY CleanedType DEF Results
<1>2. results' = Append(results, r)
  BY DEF Returns
<1> HIDE DEF r
<1>3. results' = results \o <<r>> /\ results' \in Seq(Results) /\ Len(results') = Len(results) + 1
  BY <1>0, <1>1, <1>2, OneMore
<1>4. /\ pc' \in {"failed", "idle"} /\ next' = next + 1 /\ output' = <<>> /\ detected' = FALSE
      /\ transport' = transport /\ dryRun' = dryRun /\ script' = script
  BY DEF Returns
<1>5. output' \in Seq(Piece) /\ pc' # "waiting"
  BY <1>4, EmptySeq
<1>6. next' \in 1..(Len(script') + 1) /\ Len(results') = next' - 1 /\ Len(given') = next' - 1
  BY <1>0, <1>3, <1>4
<1>7. TypeOK'
  BY <1>3, <1>4, <1>5, <1>6 DEF TypeOK, SwitchTypes, Results, Statuses
<1> QED
  BY <1>3, <1>4, <1>5, <1>7 DEF r

\* A key is typed, and the client reads on.
LEMMA KeyTypes ==
  ASSUME TypeOK, pc = "waiting", NEW rest \in Seq(Piece), AnswersKey(rest), wire' \in Seq(Piece)
  PROVE  TypeOK' /\ input' = input \o <<Key>>
<1>0. Key \in 0..Len(script) /\ input \in Seq(0..Len(script))
  <2>1. Len(script) \in Nat
    BY ScriptAssumption DEF TypeOK
  <2> QED
    BY <2>1 DEF TypeOK, Key
<1>1. input' = input \o <<Key>> /\ input' \in Seq(0..Len(script))
  <2>1. input' = Append(input, Key)
    BY DEF AnswersKey
  <2> DEFINE U == 0..Len(script)
  <2>2. Key \in U /\ input \in Seq(U)
    BY <1>0
  <2> HIDE DEF U
  <2>3. Append(input, Key) = input \o <<Key>> /\ input \o <<Key>> \in Seq(U)
    BY <2>2, OneMore
  <2> QED
    BY <2>1, <2>3 DEF U
<1> QED
  BY <1>1 DEF TypeOK, AnswersKey

\* What the clients make of what they read, if they do not return it.
LEMMA ReadTypes ==
  ASSUME TypeOK, pc = "waiting", NEW n \in 1..Len(wire)
  PROVE  LET w1 == SubSeq(wire, 1, n)
             w2 == SubSeq(wire, n + 1, Len(wire))
         IN  /\ w1 \in Seq(Piece) /\ w2 \in Seq(Piece) /\ output \o w1 \in Seq(Piece)
             /\ strip_pager_prompt(output \o w1) \in Seq(Piece)
<1> DEFINE w1 == SubSeq(wire, 1, n)
           w2 == SubSeq(wire, n + 1, Len(wire))
           text == output \o w1
<1>1. output \in Seq(Piece) /\ wire \in Seq(Piece) /\ n \in 0..Len(wire)
  BY DEF TypeOK
<1>2. w1 \in Seq(Piece) /\ w2 \in Seq(Piece)
  BY <1>1, Parts, Zenon
<1>3. text \in Seq(Piece)
  BY <1>1, <1>2, ConcatProperties, Zenon
<1> HIDE DEF w1, w2, text
<1>4. strip_pager_prompt(text) \in Seq(Piece)
  BY <1>3, Stripped, Zenon
<1> QED
  BY <1>2, <1>3, <1>4, Zenon DEF w1, w2, text

\* The command that is typed, and what the switch is to answer.
LEMMA ExecuteTypes == ASSUME TypeOK, execute_command PROVE TypeOK'
<1>0. /\ next \in Nat /\ next >= 1 /\ Len(given) = next - 1 /\ given \in Seq(Seq(Kind))
      /\ input \in Seq(0..Len(script)) /\ next \in 0..Len(script) /\ next <= Len(script)
  <2>1. Len(script) \in Nat
    BY ScriptAssumption DEF TypeOK
  <2> QED
    BY <2>1 DEF TypeOK, execute_command
<1>1. given' \in Seq(Seq(Kind)) /\ Len(given') = next
  <2> DEFINE U == Seq(Kind)
             e == <<>>
  <2>1. e \in U /\ given \in Seq(U) /\ given' = Append(given, e)
    BY <1>0, EmptySeq DEF execute_command
  <2> HIDE DEF U, e
  <2>2. Append(given, e) \in Seq(U) /\ Len(Append(given, e)) = Len(given) + 1
    BY <2>1, OneMore
  <2> QED
    BY <1>0, <2>1, <2>2 DEF U
<1>2. input' \in Seq(0..Len(script))
  BY <1>0 DEF execute_command
<1>3. wire' \in Seq(Piece) /\ output' \in Seq(Piece)
  <2>1. <<>> \in Seq(Piece)
    BY EmptySeq
  <2> QED
    BY <2>1 DEF execute_command, clear_buffer, TypeOK
<1> QED
  BY <1>0, <1>1, <1>2, <1>3 DEF execute_command, TypeOK

LEMMA SkipTypes == ASSUME TypeOK, Skip PROVE TypeOK'
<1>0. /\ next \in Nat /\ next >= 1 /\ Len(given) = next - 1 /\ given \in Seq(Seq(Kind))
      /\ next <= Len(script) /\ Len(script) \in Nat
      /\ results \in Seq(Results) /\ Len(results) = next - 1
  <2>1. Len(script) \in Nat
    BY ScriptAssumption DEF TypeOK
  <2> QED
    BY <2>1 DEF TypeOK, Skip, Results, Statuses
<1>1. given' \in Seq(Seq(Kind)) /\ Len(given') = next
  <2> DEFINE U == Seq(Kind)
             e == <<>>
  <2>1. e \in U /\ given \in Seq(U) /\ given' = Append(given, e)
    BY <1>0, EmptySeq DEF Skip
  <2> HIDE DEF U, e
  <2>2. Append(given, e) \in Seq(U) /\ Len(Append(given, e)) = Len(given) + 1
    BY <2>1, OneMore
  <2> QED
    BY <1>0, <2>1, <2>2 DEF U
<1>2. results' \in Seq(Results) /\ Len(results') = next
  <2> DEFINE r == [status |-> "skipped", lines |-> <<>>]
  <2>1. r \in Results
    BY EmptySeq DEF Results, Statuses
  <2>2. results' = Append(results, r)
    BY DEF Skip
  <2> HIDE DEF r
  <2> QED
    BY <1>0, <2>1, <2>2, OneMore
<1>3. /\ next' = next + 1
      /\ UNCHANGED <<transport, dryRun, script, pc, output, detected, input, answering, holding, wire,
                     silent, logs>> /\ pc = "idle"
  BY DEF Skip
<1>4. next' \in 1..(Len(script') + 1) /\ Len(results') = next' - 1 /\ Len(given') = next' - 1
  BY <1>0, <1>1, <1>2, <1>3
<1> QED
  BY <1>1, <1>2, <1>3, <1>4 DEF TypeOK, Results, Statuses

LEMMA TakesCommandTypes ==
  ASSUME TypeOK, TakesCommand
  PROVE  /\ TypeOK' /\ input # <<>> /\ Head(input) \in 1..Len(script)
         /\ \E a \in AnswersTo[script[Head(input)].kind] :
              /\ a \in Seq(Kind) /\ a # <<>> /\ Last(a) \in {"prompt", "ask"} /\ TailsFollow(a)
              /\ answering' = PiecesOf(Head(input), a)
              /\ given' = [given EXCEPT ![Head(input)] = a]
<1> DEFINE c == Head(input)
<1>0. input # <<>> /\ c # 0 /\ input \in Seq(0..Len(script)) /\ given \in Seq(Seq(Kind))
  BY DEF TakesCommand, TypeOK, Key
<1>1. c \in 0..Len(script) /\ Tail(input) \in Seq(0..Len(script))
  BY <1>0, HeadAndTail, Zenon
<1>2. c \in 1..Len(script)
  BY <1>0, <1>1
<1>3. script[c].kind \in DOMAIN AnswersTo
  <2> DEFINE U == [kind : DOMAIN AnswersTo, tolerated : BOOLEAN]
  <2>1. script \in Seq(U)
    BY ScriptAssumption DEF TypeOK
  <2>2. script[c] \in U
    <3> HIDE DEF U, c
    <3> QED
      BY <1>2, <2>1, ElementOfSeq
  <2> QED
    BY <2>2
<1>4. PICK a \in AnswersTo[script[c].kind] :
        answering' = PiecesOf(c, a) /\ given' = [given EXCEPT ![c] = a]
  BY DEF TakesCommand
<1>5. /\ a \in Seq(Kind) /\ a # <<>> /\ Last(a) \in {"prompt", "ask"}
      /\ TailsFollow(a)
  BY <1>3, <1>4, AnswerAssumption
<1>6. answering' \in Seq(Piece)
  <2>1. c \in Nat
    BY <1>2
  <2> QED
    BY <1>4, <1>5, <2>1, PiecesOfAnswer
<1>7. given' \in Seq(Seq(Kind)) /\ Len(given') = Len(given)
  <2>1. CASE c \in 1..Len(given)
    <3> DEFINE U == Seq(Kind)
    <3>1. a \in U /\ given \in Seq(U)
      BY <1>0, <1>5
    <3> HIDE DEF U, c
    <3>2. [given EXCEPT ![c] = a] \in Seq(U) /\ Len([given EXCEPT ![c] = a]) = Len(given)
      BY <2>1, <3>1, ExceptSeq
    <3> QED
      BY <1>4, <3>2 DEF U
  <2>2. CASE c \notin 1..Len(given)
    <3>1. DOMAIN given = 1..Len(given) /\ given = [i \in DOMAIN given |-> given[i]]
      BY <1>0
    <3> HIDE DEF c
    <3>2. [given EXCEPT ![c] = a] = given
      BY <2>2, <3>1
    <3> QED
      BY <1>0, <1>4, <3>2
  <2> QED
    BY <2>1, <2>2
<1>8. TypeOK'
  <2>1. /\ UNCHANGED <<client, holding, wire, logs>> /\ silent' = FALSE /\ input' = Tail(input)
    BY DEF TakesCommand
  <2> QED
    BY <2>1, <1>1, <1>6, <1>7 DEF TypeOK, client
<1> QED
  BY <1>0, <1>2, <1>4, <1>5, <1>8

LEMMA WritesTypes ==
  ASSUME TypeOK, Writes
  PROVE  TypeOK' /\ wire' = wire \o <<Head(answering)>> /\ OnTheWay' = OnTheWay
<1>0. answering # <<>> /\ answering \in Seq(Piece) /\ wire \in Seq(Piece)
  BY DEF Writes, TypeOK
<1> DEFINE h == Head(answering)
           t == Tail(answering)
<1>1. h \in Piece /\ t \in Seq(Piece) /\ answering = <<h>> \o t
  BY <1>0, HeadAndTail, Zenon
<1>2. wire' = Append(wire, h) /\ answering' = t
  BY DEF Writes
<1> HIDE DEF h, t
<1>3. wire' = wire \o <<h>> /\ wire' \in Seq(Piece)
  BY <1>0, <1>1, <1>2, OneMore
<1>4. (wire \o <<h>>) \o t = wire \o (<<h>> \o t)
  <2> DEFINE o == <<h>>
  <2>1. o \in Seq(Piece)
    <3>1. \A x \in Piece : <<x>> \in Seq(Piece)
      OBVIOUS
    <3> QED
      BY <1>1, <3>1
  <2> HIDE DEF o
  <2>2. (wire \o o) \o t = wire \o (o \o t)
    BY <1>0, <1>1, <2>1, ConcatAssociative
  <2> QED
    BY <2>2 DEF o
<1>5. OnTheWay' = OnTheWay
  BY <1>1, <1>2, <1>3, <1>4 DEF OnTheWay
<1>6. UNCHANGED <<client, input, given, logs>> /\ silent' = FALSE /\ holding' \in BOOLEAN
  BY DEF Writes
<1>7. TypeOK'
  BY <1>1, <1>2, <1>3, <1>6 DEF TypeOK, client
<1> QED
  BY <1>3, <1>5, <1>7 DEF h

LEMMA LogsTypes ==
  ASSUME TypeOK, Logs
  PROVE  TypeOK' /\ wire' = wire \o <<LogLine>>
<1>1. wire \in Seq(Piece) /\ LogLine \in Piece
  BY KindsOfPieces DEF TypeOK
<1>2. wire' = wire \o <<LogLine>> /\ wire' \in Seq(Piece)
  <2>1. wire' = Append(wire, LogLine)
    BY DEF Logs
  <2> QED
    BY <1>1, <2>1, OneMore
<1> QED
  BY <1>2 DEF Logs, TypeOK, client

LEMMA TakesKeyTypes == ASSUME TypeOK, TakesKey PROVE TypeOK'
<1>1. Tail(input) \in Seq(0..Len(script))
  BY HeadAndTail DEF TakesKey, TypeOK
<1> QED
  BY <1>1 DEF TakesKey, TypeOK, client

\* The four things that the client does with what it reads.
ReadOn(n) ==
  LET text == output \o SubSeq(wire, 1, n) IN
  \/ PressAnyKey(text) /\ AnswersKey(<<>>)
  \/ ~ PressAnyKey(text) /\ HasPager(text) /\ AnswersKey(strip_pager_prompt(text))
  \/ /\ Asks(text) /\ Returns("ok", text)
     /\ UNCHANGED <<input, answering, holding, silent, given, logs>>
  \/ /\ ~ PressAnyKey(text) /\ ~ HasPager(text)
     /\ output' = text /\ detected' = LooksFinished(text)
     /\ UNCHANGED <<transport, dryRun, script, next, pc, results, input, answering, holding, silent,
                    given, logs>>

LEMMA ReceiveCases ==
  ASSUME Receive
  PROVE  \E n \in 1..Len(wire) :
           pc = "waiting" /\ wire' = SubSeq(wire, n + 1, Len(wire)) /\ ReadOn(n)
<1>1. PICK n \in 1..Len(wire) :
        LET text == output \o SubSeq(wire, 1, n) IN
        /\ pc = "waiting"
        /\ wire' = SubSeq(wire, n + 1, Len(wire))
        /\ CASE PressAnyKey(text) -> AnswersKey(<<>>)
             [] HasPager(text) /\ ~ PressAnyKey(text) -> AnswersKey(strip_pager_prompt(text))
             [] Asks(text) /\ ~ HasPager(text) ->
                  /\ Returns("ok", text)
                  /\ UNCHANGED <<input, answering, holding, silent, given, logs>>
             [] OTHER ->
                  /\ output' = text /\ detected' = LooksFinished(text)
                  /\ UNCHANGED <<transport, dryRun, script, next, pc, results, input, answering,
                                 holding, silent, given, logs>>
  BY DEF Receive
<1> DEFINE text == output \o SubSeq(wire, 1, n)
<1>2. pc = "waiting" /\ wire' = SubSeq(wire, n + 1, Len(wire))
  BY <1>1
<1>4. ~ (PressAnyKey(text) /\ Asks(text))
  BY DEF PressAnyKey, Asks
<1> DEFINE key == PressAnyKey(text)
           pager == HasPager(text)
           asks == Asks(text)
           A == AnswersKey(<<>>)
           B == AnswersKey(strip_pager_prompt(text))
           C == Returns("ok", text) /\ UNCHANGED <<input, answering, holding, silent, given, logs>>
           D == /\ output' = text /\ detected' = LooksFinished(text)
                /\ UNCHANGED <<transport, dryRun, script, next, pc, results, input, answering,
                               holding, silent, given, logs>>
<1>5. (key /\ A) \/ (~ key /\ pager /\ B) \/ (asks /\ C) \/ (~ key /\ ~ pager /\ D)
  <2>1. (CASE key -> A [] pager /\ ~ key -> B [] asks /\ ~ pager -> C [] OTHER -> D)
    BY <1>1, Zenon
  <2>2. key \in BOOLEAN /\ pager \in BOOLEAN /\ asks \in BOOLEAN
    BY DEF PressAnyKey, HasPager, Asks
  <2>3. ~ (key /\ asks)
    BY <1>4
  <2> HIDE DEF key, pager, asks, A, B, C, D
  <2>4. CASE key
    BY <2>1, <2>2, <2>3, <2>4
  <2>5. CASE ~ key /\ pager
    BY <2>1, <2>2, <2>5
  <2>6. CASE ~ key /\ ~ pager /\ asks
    BY <2>1, <2>2, <2>6
  <2>7. CASE ~ key /\ ~ pager /\ ~ asks
    BY <2>1, <2>2, <2>7
  <2> QED
    BY <2>4, <2>5, <2>6, <2>7
<1>6. ReadOn(n)
  BY <1>5 DEF ReadOn
<1> QED
  BY <1>2, <1>6

LEMMA ReceiveTypes == ASSUME TypeOK, Receive PROVE TypeOK'
<1>1. PICK n \in 1..Len(wire) :
        pc = "waiting" /\ wire' = SubSeq(wire, n + 1, Len(wire)) /\ ReadOn(n)
  BY ReceiveCases
<1> DEFINE text == output \o SubSeq(wire, 1, n)
<1>2. wire' \in Seq(Piece) /\ text \in Seq(Piece) /\ strip_pager_prompt(text) \in Seq(Piece)
  BY <1>1, ReadTypes, Zenon
<1>3. <<>> \in Seq(Piece)
  BY EmptySeq
<1> HIDE DEF text
<1>4. CASE AnswersKey(<<>>)
  BY <1>1, <1>2, <1>3, <1>4, KeyTypes
<1>5. CASE AnswersKey(strip_pager_prompt(text))
  BY <1>1, <1>2, <1>5, KeyTypes
<1>6. CASE Returns("ok", text) /\ UNCHANGED <<input, answering, holding, silent, given, logs>>
  <2>1. SwitchTypes' /\ Len(given') = Len(given)
    BY <1>2, <1>6 DEF SwitchTypes, TypeOK, Returns
  <2>2. "ok" \in Statuses
    BY DEF Statuses
  <2> QED
    BY <1>1, <1>2, <1>6, <2>1, <2>2, ReturnTypes
<1>7. CASE /\ output' = text /\ detected' = LooksFinished(text)
           /\ UNCHANGED <<transport, dryRun, script, next, pc, results, input, answering, holding,
                          silent, given, logs>>
  <2>1. LooksFinished(text) \in BOOLEAN
    BY DEF LooksFinished
  <2> QED
    BY <1>2, <1>7, <2>1 DEF TypeOK
<1> QED
  BY <1>1, <1>4, <1>5, <1>6, <1>7 DEF ReadOn, text

\* The answer that is returned when the line is quiet.
LEMMA QuietTypes ==
  ASSUME TypeOK, pc = "waiting", UNCHANGED switch, NEW status \in Statuses, NEW lines \in Seq(Piece),
         Returns(status, lines)
  PROVE  TypeOK'
<1>1. SwitchTypes' /\ Len(given') = Len(given)
  BY DEF SwitchTypes, TypeOK, Returns, switch
<1> QED
  BY <1>1, ReturnTypes

LEMMA IdleTypes == ASSUME TypeOK, IdleSettle PROVE TypeOK'
<1>1. output \in Seq(Piece) /\ "ok" \in Statuses /\ pc = "waiting"
  BY DEF TypeOK, Statuses, IdleSettle
<1>2. CASE AnswersKey(strip_pager_prompt(output)) /\ UNCHANGED wire
  <2>1. strip_pager_prompt(output) \in Seq(Piece)
    BY <1>1, Stripped, Zenon
  <2>2. wire' \in Seq(Piece)
    BY <1>2 DEF TypeOK
  <2> QED
    BY <1>1, <1>2, <2>1, <2>2, KeyTypes
<1>3. CASE Returns("ok", output) /\ UNCHANGED switch
  BY <1>1, <1>3, QuietTypes
<1> QED
  BY <1>2, <1>3 DEF IdleSettle

LEMMA TypesStep == TypeOK /\ [Next]_vars => TypeOK'
<1> SUFFICES ASSUME TypeOK, [Next]_vars PROVE TypeOK'
  OBVIOUS
<1>1. CASE Confirm
  <2>1. output \in Seq(Piece) /\ "ok" \in Statuses /\ pc = "waiting"
    BY <1>1 DEF TypeOK, Statuses, Confirm
  <2> QED
    BY <1>1, <2>1, QuietTypes DEF Confirm
<1>2. CASE TimeOut
  <2>1. <<>> \in Seq(Piece) /\ "failed" \in Statuses /\ pc = "waiting"
    BY <1>2, EmptySeq DEF Statuses, TimeOut
  <2> QED
    BY <1>2, <2>1, QuietTypes DEF TimeOut
<1>3. CASE Finish
  BY <1>3 DEF Finish, TypeOK, switch
<1>4. CASE Pauses
  BY <1>4 DEF Pauses, TypeOK, client
<1>5. CASE UNCHANGED vars
  BY <1>5 DEF TypeOK, vars, client, switch
<1> QED
  BY <1>1, <1>2, <1>3, <1>4, <1>5, ReceiveTypes, IdleTypes, ExecuteTypes, SkipTypes,
     TakesCommandTypes, TakesKeyTypes, WritesTypes, LogsTypes
     DEF Next, Client, Switch, Stopped, ssh_wait_for_prompt, serial_wait_for_prompt

(***************************************************************************)
(* Reading.                                                                *)
(***************************************************************************)

LEMMA ShownOfBoth ==
  \A s, t \in Seq(Piece) : Keep(s \o t, Shown) = Keep(s, Shown) \o Keep(t, Shown)
<1> DEFINE lines == Shown
<1> HIDE DEF lines
<1>1. \A s, t \in Seq(Piece) : Keep(s \o t, lines) = Keep(s, lines) \o Keep(t, lines)
  BY KeepJoined
<1> QED
  BY <1>1 DEF lines

\* What is read goes from the lines on the way to the output.
LEMMA OnTheWayParts ==
  ASSUME TypeOK, NEW n \in 0..Len(wire)
  PROVE  LET w1 == SubSeq(wire, 1, n)
             w2 == SubSeq(wire, n + 1, Len(wire))
             text == output \o w1
             rest == w2 \o answering
         IN  /\ w1 \in Seq(Piece) /\ w2 \in Seq(Piece) /\ text \in Seq(Piece) /\ rest \in Seq(Piece)
             /\ OnTheWay \in Seq(Piece) /\ Len(OnTheWay) = n + Len(rest) /\ Len(rest) \in Nat
             /\ Len(w1) = n
             /\ \A i \in 1..n : OnTheWay[i] = w1[i] /\ w1[i] = wire[i]
             /\ \A i \in 1..Len(rest) : OnTheWay[n + i] = rest[i]
             /\ output \o OnTheWay = text \o rest
<1> DEFINE w1 == SubSeq(wire, 1, n)
           w2 == SubSeq(wire, n + 1, Len(wire))
           text == output \o w1
           rest == w2 \o answering
<1>1. wire \in Seq(Piece) /\ output \in Seq(Piece) /\ answering \in Seq(Piece)
  BY DEF TypeOK
<1>2. /\ w1 \in Seq(Piece) /\ w2 \in Seq(Piece) /\ wire = w1 \o w2 /\ Len(w1) = n
      /\ \A i \in 1..n : w1[i] = wire[i]
  BY <1>1, Parts, Zenon
<1> HIDE DEF w1, w2
<1>3. text \in Seq(Piece) /\ rest \in Seq(Piece)
  BY <1>1, <1>2, ConcatProperties, Zenon
<1>4. OnTheWay = w1 \o rest
  <2>1. (w1 \o w2) \o answering = w1 \o (w2 \o answering)
    BY <1>1, <1>2, ConcatAssociative
  <2> QED
    BY <1>2, <2>1, Zenon DEF OnTheWay
<1>5. output \o OnTheWay = text \o rest
  <2>1. (output \o w1) \o rest = output \o (w1 \o rest)
    <3>1. \A s, t, u \in Seq(Piece) : (s \o t) \o u = s \o (t \o u)
      BY ConcatAssociative
    <3> HIDE DEF rest
    <3>2. output \in Seq(Piece) /\ w1 \in Seq(Piece) /\ rest \in Seq(Piece)
      BY <1>1, <1>2, <1>3
    <3> QED
      BY <3>1, <3>2
  <2> QED
    BY <1>4, <2>1, Zenon
<1> HIDE DEF text, rest
<1>6. /\ OnTheWay \in Seq(Piece) /\ Len(OnTheWay) = Len(w1) + Len(rest)
      /\ \A i \in 1..(Len(w1) + Len(rest)) :
           OnTheWay[i] = IF i <= Len(w1) THEN w1[i] ELSE rest[i - Len(w1)]
  BY <1>2, <1>3, <1>4, ConcatProperties
<1>7. Len(rest) \in Nat /\ n \in Nat
  BY <1>3, LenProperties
<1>8. \A i \in 1..n : OnTheWay[i] = w1[i]
  BY <1>2, <1>6, <1>7
<1>9. \A i \in 1..Len(rest) : OnTheWay[n + i] = rest[i]
  <2> SUFFICES ASSUME NEW i \in 1..Len(rest) PROVE OnTheWay[n + i] = rest[i]
    OBVIOUS
  <2>1. n + i \in 1..(Len(w1) + Len(rest)) /\ ~ (n + i <= Len(w1)) /\ n + i - Len(w1) = i
    BY <1>2, <1>7
  <2> QED
    BY <1>6, <2>1
<1> QED
  BY <1>2, <1>3, <1>5, <1>6, <1>7, <1>8, <1>9, Zenon DEF w1, w2, text, rest

LEMMA JoinedLines ==
  ASSUME NEW s \in Seq(Piece), NEW t \in Seq(Piece)
  PROVE  /\ s \o t \in Seq(Piece) /\ Len(s \o t) = Len(s) + Len(t) /\ Len(s) \in Nat /\ Len(t) \in Nat
         /\ DOMAIN (s \o t) = 1..(Len(s) + Len(t)) /\ DOMAIN s = 1..Len(s) /\ DOMAIN t = 1..Len(t)
         /\ \A i \in 1..Len(s) : (s \o t)[i] = s[i]
         /\ \A i \in 1..Len(t) : (s \o t)[Len(s) + i] = t[i]
         /\ \A i \in DOMAIN (s \o t) :
              i \in 1..Len(s) \/ (i - Len(s) \in 1..Len(t) /\ (s \o t)[i] = t[i - Len(s)])
<1> DEFINE u == s \o t
<1>1. /\ u \in Seq(Piece) /\ Len(u) = Len(s) + Len(t)
      /\ \A i \in 1..(Len(s) + Len(t)) : u[i] = IF i <= Len(s) THEN s[i] ELSE t[i - Len(s)]
  BY ConcatProperties
<1>2. Len(s) \in Nat /\ Len(t) \in Nat /\ DOMAIN s = 1..Len(s) /\ DOMAIN t = 1..Len(t)
  BY LenProperties
<1> HIDE DEF u
<1>3. DOMAIN u = 1..(Len(s) + Len(t))
  BY <1>1, LenProperties
<1>4. \A i \in 1..Len(s) : u[i] = s[i]
  BY <1>1, <1>2
<1>5. \A i \in 1..Len(t) : u[Len(s) + i] = t[i]
  <2> SUFFICES ASSUME NEW i \in 1..Len(t) PROVE u[Len(s) + i] = t[i]
    OBVIOUS
  <2>1. Len(s) + i \in 1..(Len(s) + Len(t)) /\ ~ (Len(s) + i <= Len(s)) /\ Len(s) + i - Len(s) = i
    BY <1>2
  <2> QED
    BY <1>1, <2>1
<1>6. \A i \in DOMAIN u : i \in 1..Len(s) \/ (i - Len(s) \in 1..Len(t) /\ u[i] = t[i - Len(s)])
  BY <1>1, <1>2, <1>3
<1> QED
  BY <1>1, <1>2, <1>3, <1>4, <1>5, <1>6, Zenon DEF u

LEMMA ReadKeeps ==
  ASSUME TypeOK, AnswerIsKept, OfThisCommand, KeyComesFirst, QuestionComesLast,
         NEW n \in 0..Len(wire),
         wire' = SubSeq(wire, n + 1, Len(wire)), UNCHANGED <<answering, next, given>>,
         output' \in Seq(Piece),
         Keep(output', Shown) = Keep(output \o SubSeq(wire, 1, n), Shown),
         \A i \in DOMAIN output' :
           \E j \in DOMAIN (output \o SubSeq(wire, 1, n)) :
             output'[i] = (output \o SubSeq(wire, 1, n))[j]
  PROVE  AnswerIsKept' /\ OfThisCommand' /\ KeyComesFirst' /\ QuestionComesLast'
<1> DEFINE w1 == SubSeq(wire, 1, n)
           w2 == SubSeq(wire, n + 1, Len(wire))
           text == output \o w1
           rest == w2 \o answering
<1>1. /\ w1 \in Seq(Piece) /\ w2 \in Seq(Piece) /\ text \in Seq(Piece) /\ rest \in Seq(Piece)
      /\ OnTheWay \in Seq(Piece) /\ Len(OnTheWay) = n + Len(rest) /\ Len(rest) \in Nat
      /\ Len(w1) = n
      /\ \A i \in 1..n : OnTheWay[i] = w1[i] /\ w1[i] = wire[i]
      /\ \A i \in 1..Len(rest) : OnTheWay[n + i] = rest[i]
      /\ output \o OnTheWay = text \o rest
  BY OnTheWayParts, Zenon
<1>2. OnTheWay' = rest
  BY DEF OnTheWay
<1>3. n \in Nat /\ output \in Seq(Piece) /\ wire \in Seq(Piece) /\ n <= Len(wire) /\ Len(wire) \in Nat
  <2>1. output \in Seq(Piece) /\ wire \in Seq(Piece)
    BY DEF TypeOK
  <2>2. Len(wire) \in Nat
    BY <2>1, LenProperties
  <2> QED
    BY <2>1, <2>2
<1>4. \A i \in 1..Len(w2) : w2[i] = wire[n + i] /\ n + i \in 1..Len(wire)
  <2>1. Len(w2) = Len(wire) - n /\ \A i \in 1..(Len(wire) - n) : w2[i] = wire[n + i]
    BY <1>3, Parts, Zenon
  <2> HIDE DEF w2
  <2> QED
    BY <1>3, <2>1
<1>5. /\ DOMAIN text = 1..(Len(output) + Len(w1)) /\ DOMAIN output = 1..Len(output)
      /\ \A i \in 1..Len(output) : text[i] = output[i]
      /\ \A i \in DOMAIN text :
           i \in 1..Len(output) \/ (i - Len(output) \in 1..Len(w1) /\ text[i] = w1[i - Len(output)])
  <2>1. \A t \in Seq(Piece) :
          /\ DOMAIN (output \o t) = 1..(Len(output) + Len(t)) /\ DOMAIN output = 1..Len(output)
          /\ \A i \in 1..Len(output) : (output \o t)[i] = output[i]
          /\ \A i \in DOMAIN (output \o t) :
               i \in 1..Len(output)
                 \/ (i - Len(output) \in 1..Len(t) /\ (output \o t)[i] = t[i - Len(output)])
    BY <1>3, JoinedLines
  <2> HIDE DEF w1
  <2> QED
    BY <1>1, <2>1, Zenon
<1>6. Keep(output', Shown) = Keep(text, Shown)
      /\ \A i \in DOMAIN output' : \E j \in DOMAIN text : output'[i] = text[j]
  OBVIOUS
<1>7. wire' = w2
  OBVIOUS
<1>8. DOMAIN OnTheWay = 1..(n + Len(rest)) /\ DOMAIN rest = 1..Len(rest) /\ DOMAIN w2 = 1..Len(w2)
  <2> HIDE DEF w2, rest
  <2> QED
    BY <1>1, LenProperties
<1> HIDE DEF w1, w2, text, rest
<1>9. AnswerIsKept'
  <2>1. Keep(text \o rest, Shown) = Keep(text, Shown) \o Keep(rest, Shown)
    BY <1>1, ShownOfBoth, Zenon
  <2>2. Keep(output' \o rest, Shown) = Keep(output', Shown) \o Keep(rest, Shown)
    BY <1>1, ShownOfBoth, Zenon
  <2>3. Keep(output' \o rest, Shown) = Keep(output \o OnTheWay, Shown)
    BY <1>1, <1>6, <2>1, <2>2
  <2> QED
    BY <1>2, <2>3 DEF AnswerIsKept
<1>10. OfThisCommand'
  <2>1. \A i \in DOMAIN text : text[i].of = next \/ text[i] = LogLine
    <3> SUFFICES ASSUME NEW i \in DOMAIN text PROVE text[i].of = next \/ text[i] = LogLine
      OBVIOUS
    <3>1. CASE i \in 1..Len(output)
      BY <3>1, <1>5 DEF OfThisCommand
    <3>2. CASE i - Len(output) \in 1..Len(w1) /\ text[i] = w1[i - Len(output)]
      <4>1. PICK k \in 1..n : text[i] = w1[k]
        BY <3>2, <1>1
      <4>2. text[i] = wire[k] /\ k \in DOMAIN wire
        <5>1. DOMAIN wire = 1..Len(wire)
          BY <1>3, LenProperties
        <5> QED
          BY <4>1, <5>1, <1>1, <1>3
      <4> QED
        BY <4>2 DEF OfThisCommand
    <3> QED
      BY <3>1, <3>2, <1>5
  <2>2. \A i \in DOMAIN output' : output'[i].of = next \/ output'[i] = LogLine
    BY <2>1, <1>6
  <2>3. \A i \in DOMAIN w2 : w2[i].of = next \/ w2[i] = LogLine
    <3>1. DOMAIN wire = 1..Len(wire)
      BY <1>3, LenProperties
    <3> QED
      BY <3>1, <1>4, <1>8 DEF OfThisCommand
  <2> QED
    BY <2>2, <2>3, <1>7 DEF OfThisCommand
<1>11. ASSUME NEW i \in 1..Len(rest) PROVE n + i \in DOMAIN OnTheWay /\ OnTheWay[n + i] = rest[i]
  BY <1>1, <1>3, <1>8
<1>12. KeyComesFirst'
  <2>1. KeysFirst(rest)
    <3> SUFFICES ASSUME NEW i \in 1..Len(rest), NEW j \in 1..Len(rest), i < j, rest[j].kind = "key"
                 PROVE  rest[i] \notin Shown
      BY <1>8 DEF KeysFirst
    <3>1. n + i < n + j
      BY <1>3
    <3> QED
      BY <3>1, <1>11 DEF KeyComesFirst, KeysFirst
  <2>2. ASSUME NEW i \in 1..Len(rest), rest[i].kind = "key" PROVE Keep(output', Shown) = <<>>
    <3>1. n + i \in DOMAIN OnTheWay /\ OnTheWay[n + i].kind = "key"
      BY <2>2, <1>11
    <3>2. Keep(output, Shown) = <<>>
      BY <3>1 DEF KeyComesFirst
    <3>3. \A k \in 1..Len(w1) : w1[k] \notin Shown
      <4> SUFFICES ASSUME NEW k \in 1..Len(w1) PROVE w1[k] \notin Shown
        OBVIOUS
      <4>1. k \in 1..n /\ k \in DOMAIN OnTheWay /\ k < n + i
        <5>1. Len(w1) = n /\ DOMAIN OnTheWay = 1..(n + Len(rest)) /\ n \in Nat /\ Len(rest) \in Nat
          BY <1>1, <1>3, <1>8, Zenon
        <5> QED
          BY <5>1
      <4> QED
        BY <3>1, <4>1, <1>1 DEF KeyComesFirst, KeysFirst
    <3>4. Keep(w1, Shown) = <<>>
      BY <3>3, <1>1, KeepNone
    <3>5. Keep(text, Shown) = Keep(output, Shown) \o Keep(w1, Shown)
      BY <1>1, <1>3, ShownOfBoth, Zenon DEF text
    <3>6. <<>> \o <<>> = <<>>
      OBVIOUS
    <3> QED
      BY <3>2, <3>4, <3>5, <3>6, <1>6
  <2> QED
    BY <2>1, <2>2, <1>2, <1>8 DEF KeyComesFirst
<1>13. QuestionComesLast'
  <2>1. AsksLast(rest)
    <3> SUFFICES ASSUME NEW i \in 1..Len(rest), NEW j \in 1..Len(rest), i < j, rest[i].kind = "ask"
                 PROVE  rest[j] = LogLine
      BY <1>8 DEF AsksLast
    <3>1. n + i < n + j
      BY <1>3
    <3> QED
      BY <3>1, <1>11 DEF QuestionComesLast, AsksLast
  <2>2. ASSUME NEW i \in DOMAIN output', output'[i].kind = "ask", NEW j \in 1..Len(rest)
        PROVE  rest[j] = LogLine
    <3>1. PICK k \in DOMAIN text : output'[i] = text[k]
      BY <1>6
    <3>2. CASE k \in 1..Len(output)
      <4>1. k \in DOMAIN output /\ output[k].kind = "ask"
        BY <2>2, <3>1, <3>2, <1>5
      <4> QED
        BY <4>1, <1>11 DEF QuestionComesLast
    <3>3. CASE k - Len(output) \in 1..Len(w1) /\ text[k] = w1[k - Len(output)]
      <4>1. PICK m \in 1..n : text[k] = w1[m]
        BY <3>3, <1>1
      <4>2. m \in DOMAIN OnTheWay /\ m < n + j
        BY <1>1, <1>3, <1>8
      <4>3. OnTheWay[m].kind = "ask"
        <5>1. OnTheWay[m] = w1[m]
          BY <1>1
        <5> QED
          BY <2>2, <3>1, <4>1, <5>1
      <4> QED
        BY <4>2, <4>3, <1>11 DEF QuestionComesLast, AsksLast
    <3> QED
      BY <3>2, <3>3, <1>5
  <2> QED
    BY <2>1, <2>2, <1>2, <1>8 DEF QuestionComesLast
<1> QED
  BY <1>9, <1>10, <1>12, <1>13

(***************************************************************************)
(* A complete answer.                                                      *)
(***************************************************************************)
Whole(text) ==
  /\ text \in Seq(Piece) /\ given[next] # <<>> /\ Last(given[next]) \in {"prompt", "ask"}
  /\ \A i \in 1..Len(text) : text[i].of = next \/ text[i] = LogLine
  /\ Keep(text, Shown) = Keep(PiecesOf(next, given[next]), Shown)

LEMMA LogLineIsALine ==
  /\ LogLine.kind \notin {"prompt", "promptlike", "pager", "pagerlike", "key", "ask"}
  /\ LogLine.of = 0
BY DEF LogLine

\* The text that a read makes is of the command if all that was there is.
LEMMA TextOfCommand ==
  ASSUME TypeOK, NEW n \in 0..Len(wire), NEW A,
         \A i \in DOMAIN output : output[i] \in A, \A i \in DOMAIN wire : wire[i] \in A
  PROVE  LET text == output \o SubSeq(wire, 1, n) IN
         /\ \A i \in DOMAIN text : text[i] \in A
         /\ DOMAIN text = 1..Len(text)
<1> DEFINE w1 == SubSeq(wire, 1, n)
           text == output \o w1
<1>1. /\ w1 \in Seq(Piece) /\ text \in Seq(Piece) /\ Len(w1) = n
      /\ \A i \in 1..n : w1[i] = wire[i]
  BY OnTheWayParts, Zenon
<1>2. output \in Seq(Piece) /\ wire \in Seq(Piece)
  BY DEF TypeOK
<1>3. n \in Nat /\ n <= Len(wire) /\ Len(wire) \in Nat /\ DOMAIN wire = 1..Len(wire)
  BY <1>2, LenProperties
<1>4. /\ DOMAIN text = 1..(Len(output) + Len(w1)) /\ DOMAIN output = 1..Len(output)
      /\ Len(text) = Len(output) + Len(w1)
      /\ \A i \in 1..Len(output) : text[i] = output[i]
      /\ \A i \in DOMAIN text :
           i \in 1..Len(output) \/ (i - Len(output) \in 1..Len(w1) /\ text[i] = w1[i - Len(output)])
  <2>1. \A t \in Seq(Piece) :
          /\ DOMAIN (output \o t) = 1..(Len(output) + Len(t)) /\ DOMAIN output = 1..Len(output)
          /\ Len(output \o t) = Len(output) + Len(t)
          /\ \A i \in 1..Len(output) : (output \o t)[i] = output[i]
          /\ \A i \in DOMAIN (output \o t) :
               i \in 1..Len(output)
                 \/ (i - Len(output) \in 1..Len(t) /\ (output \o t)[i] = t[i - Len(output)])
    BY <1>2, JoinedLines
  <2> HIDE DEF w1
  <2> QED
    BY <1>1, <2>1, Zenon
<1> HIDE DEF w1, text
<1>5. ASSUME NEW i \in DOMAIN text PROVE text[i] \in A
  <2>1. CASE i \in 1..Len(output)
    BY <2>1, <1>4
  <2>2. CASE i - Len(output) \in 1..Len(w1) /\ text[i] = w1[i - Len(output)]
    <3>1. PICK k \in 1..n : text[i] = w1[k]
      BY <2>2, <1>1
    <3>2. k \in DOMAIN wire /\ text[i] = wire[k]
      BY <3>1, <1>1, <1>3
    <3> QED
      BY <3>2
  <2> QED
    BY <2>1, <2>2, <1>4
<1>6. DOMAIN text = 1..Len(text)
  BY <1>4
<1> QED
  BY <1>5, <1>6 DEF text, w1

\* The line is quiet and the output looks finished: then it is.
LEMMA QuietAnswer ==
  ASSUME TypeOK, OnCourse, pc = "waiting", wire = <<>>, Quiet,
         LooksFinished(output) \/ Asks(output)
  PROVE  Whole(output) /\ Settled
<1>0. /\ output \in Seq(Piece) /\ DOMAIN output = 1..Len(output) /\ answering \in Seq(Piece)
      /\ DOMAIN answering = 1..Len(answering) /\ next \in Nat \ {0} /\ Len(answering) \in Nat
  BY ScriptAssumption DEF TypeOK
<1>1. Asks(output) => \E i \in DOMAIN output : output[i].kind = "ask"
  <2> SUFFICES ASSUME Asks(output) PROVE \E i \in DOMAIN output : output[i].kind = "ask"
    OBVIOUS
  <2>1. output # <<>> /\ Last(output).kind = "ask"
    BY DEF Asks
  <2>2. Len(output) \in 1..Len(output) /\ Last(output) = output[Len(output)]
    <3>1. Len(output) \in Nat \ {0} /\ Last(output) = output[Len(output)]
      BY <1>0, <2>1, FrontAndLast, Zenon
    <3> QED
      BY <3>1
  <2> QED
    BY <1>0, <2>1, <2>2
<1>2. LooksFinished(output) => \E i \in DOMAIN output : output[i].kind \in {"prompt", "promptlike"}
  BY DEF LooksFinished
<1>3. ~ NotTaken
  BY <1>1, <1>2, LogLineIsALine DEF NotTaken
<1>4. Taken
  BY <1>3 DEF OnCourse
<1>5. OnTheWay = answering
  BY <1>0, ConcatEmptySeq DEF OnTheWay
<1>6. ~ silent
  <2> SUFFICES ASSUME silent PROVE FALSE
    OBVIOUS
  <2>1. answering # <<>> /\ ~ LooksFinished(output)
    BY DEF OnCourse
  <2>2. \A j \in DOMAIN answering : answering[j] = LogLine
    BY <1>1, <1>4, <1>5, <2>1 DEF Taken, QuestionComesLast
  <2>3. 1 \in DOMAIN answering
    <3>1. Len(answering) # 0
      BY <1>0, <2>1, EmptySeq
    <3> QED
      BY <1>0, <3>1
  <2>4. answering[1].of = next
    BY <1>4, <2>3 DEF Taken, OfThisCommand
  <2> QED
    BY <1>0, <2>2, <2>3, <2>4, LogLineIsALine
<1>7. ~ holding /\ answering = <<>> /\ input = <<>>
  <2>1. ~ MarkerUnread /\ ~ KeyUnread
    BY EmptySeq DEF MarkerUnread, KeyUnread
  <2> QED
    BY <1>4, <1>6, <2>1 DEF Quiet, Taken, HeldPieceIsSeen
<1>8. output \o OnTheWay = output
  BY <1>0, <1>5, <1>7, ConcatEmptySeq
<1>9. Whole(output)
  BY <1>0, <1>4, <1>8 DEF Whole, Taken, AnswerIsKept, OfThisCommand
<1>10. Settled
  BY <1>7, EmptySeq DEF Settled
<1> QED
  BY <1>9, <1>10

\* A question ends the answer.
LEMMA AskedAnswer ==
  ASSUME TypeOK, Taken, NEW n \in 1..Len(wire), Asks(output \o SubSeq(wire, 1, n))
  PROVE  /\ Whole(output \o SubSeq(wire, 1, n))
         /\ answering = <<>> /\ ~ holding
         /\ \A i \in DOMAIN SubSeq(wire, n + 1, Len(wire)) : SubSeq(wire, n + 1, Len(wire))[i] = LogLine
<1> DEFINE w1 == SubSeq(wire, 1, n)
           w2 == SubSeq(wire, n + 1, Len(wire))
           text == output \o w1
           rest == w2 \o answering
<1>0. n \in 0..Len(wire)
  BY DEF TypeOK
<1>1. /\ w1 \in Seq(Piece) /\ w2 \in Seq(Piece) /\ text \in Seq(Piece) /\ rest \in Seq(Piece)
      /\ OnTheWay \in Seq(Piece) /\ Len(OnTheWay) = n + Len(rest) /\ Len(rest) \in Nat
      /\ Len(w1) = n
      /\ \A i \in 1..n : OnTheWay[i] = w1[i] /\ w1[i] = wire[i]
      /\ \A i \in 1..Len(rest) : OnTheWay[n + i] = rest[i]
      /\ output \o OnTheWay = text \o rest
  BY <1>0, OnTheWayParts, Zenon
<1>2. /\ output \in Seq(Piece) /\ answering \in Seq(Piece) /\ next \in Nat \ {0}
      /\ DOMAIN OnTheWay = 1..(n + Len(rest)) /\ n \in Nat \ {0}
  <2> HIDE DEF rest
  <2>1. DOMAIN OnTheWay = 1..(n + Len(rest))
    BY <1>1, LenProperties
  <2> QED
    BY <2>1 DEF TypeOK
<1>3. Last(text) = w1[n]
  <2>1. Len(output \o w1) = Len(output) + n /\ (output \o w1)[Len(output) + n] = w1[n]
    <3> HIDE DEF w1
    <3>1. /\ Len(output \o w1) = Len(output) + Len(w1)
          /\ \A i \in 1..Len(w1) : (output \o w1)[Len(output) + i] = w1[i]
      <4>1. w1 \in Seq(Piece) /\ output \in Seq(Piece)
        BY <1>1, <1>2, Zenon
      <4> QED
        BY <4>1, JoinedLines, Zenon
    <3> QED
      BY <1>1, <1>2, <3>1
  <2>2. Last(text) = text[Len(text)]
    BY DEF Last
  <2> QED
    BY <2>1, <2>2
<1>4. OnTheWay[n].kind = "ask"
  <2>1. Last(text).kind = "ask"
    BY DEF Asks
  <2>2. OnTheWay[n] = w1[n]
    BY <1>1, <1>2
  <2> HIDE DEF w1, text
  <2> QED
    BY <2>1, <2>2, <1>3
<1> HIDE DEF rest
<1>5. \A i \in 1..Len(rest) : rest[i] = LogLine
  <2> SUFFICES ASSUME NEW i \in 1..Len(rest) PROVE rest[i] = LogLine
    OBVIOUS
  <2>1. n \in DOMAIN OnTheWay /\ n + i \in DOMAIN OnTheWay /\ n < n + i
    <3>1. DOMAIN OnTheWay = 1..(n + Len(rest)) /\ n \in Nat \ {0} /\ Len(rest) \in Nat
      BY <1>1, <1>2, Zenon
    <3> QED
      BY <3>1
  <2>2. AsksLast(OnTheWay)
    BY DEF Taken, QuestionComesLast
  <2>3. OnTheWay[n + i] = LogLine
    BY <1>4, <2>1, <2>2 DEF AsksLast
  <2> QED
    BY <1>1, <2>3
<1>6. /\ Len(rest) = Len(w2) + Len(answering) /\ Len(w2) \in Nat /\ Len(answering) \in Nat
      /\ DOMAIN w2 = 1..Len(w2) /\ DOMAIN answering = 1..Len(answering)
      /\ \A i \in 1..Len(w2) : rest[i] = w2[i]
      /\ \A i \in 1..Len(answering) : rest[Len(w2) + i] = answering[i]
  <2> HIDE DEF w2
  <2>1. \A s, t \in Seq(Piece) :
          /\ Len(s \o t) = Len(s) + Len(t) /\ Len(s) \in Nat /\ Len(t) \in Nat
          /\ DOMAIN s = 1..Len(s) /\ DOMAIN t = 1..Len(t)
          /\ \A i \in 1..Len(s) : (s \o t)[i] = s[i]
          /\ \A i \in 1..Len(t) : (s \o t)[Len(s) + i] = t[i]
    BY JoinedLines
  <2> QED
    BY <1>1, <1>2, <2>1, Zenon DEF rest
<1> HIDE DEF w2
<1>7. answering = <<>>
  <2> SUFFICES ASSUME answering # <<>> PROVE FALSE
    OBVIOUS
  <2>1. Len(answering) # 0
    BY <1>2, EmptySeq
  <2>2. 1 \in 1..Len(answering) /\ Len(w2) + 1 \in 1..Len(rest)
    BY <1>6, <2>1
  <2>3. answering[1] = LogLine
    BY <1>5, <1>6, <2>2
  <2>4. answering[1].of = next
    BY <1>6, <2>2 DEF Taken, OfThisCommand
  <2> QED
    BY <1>2, <2>3, <2>4, LogLineIsALine
<1>8. \A i \in DOMAIN w2 : w2[i] = LogLine
  <2> SUFFICES ASSUME NEW i \in 1..Len(w2) PROVE w2[i] = LogLine
    BY <1>6
  <2>1. i \in 1..Len(rest)
    BY <1>6
  <2> QED
    BY <1>5, <1>6, <2>1
<1>9. Keep(text, Shown) = Keep(PiecesOf(next, given[next]), Shown)
  <2>1. Keep(rest, Shown) = <<>>
    <3> DEFINE lines == Shown
    <3>1. \A i \in 1..Len(rest) : rest[i] \notin lines
      BY <1>5, KindsOfPieces
    <3> HIDE DEF lines
    <3>2. Keep(rest, lines) = <<>>
      BY <1>1, <3>1, KeepNone
    <3> QED
      BY <3>2 DEF lines
  <2>2. Keep(text, Shown) \o <<>> = Keep(text, Shown)
    <3>1. Keep(text, Shown) \in Seq(Piece \cap Shown)
      BY <1>1, KeepType, Zenon
    <3> QED
      BY <3>1, ConcatEmptySeq, Zenon
  <2>3. Keep(text \o rest, Shown) = Keep(text, Shown) \o Keep(rest, Shown)
    BY <1>1, ShownOfBoth, Zenon
  <2>4. Keep(output \o OnTheWay, Shown) = Keep(PiecesOf(next, given[next]), Shown)
    BY DEF Taken, AnswerIsKept
  <2> QED
    BY <1>1, <2>1, <2>2, <2>3, <2>4, Zenon
<1>10. \A i \in 1..Len(text) : text[i].of = next \/ text[i] = LogLine
  <2> DEFINE A == {l \in Piece : l.of = next \/ l = LogLine}
  <2>1. (\A i \in DOMAIN output : output[i] \in A) /\ (\A i \in DOMAIN wire : wire[i] \in A)
    <3>1. \A s \in Seq(Piece) : \A i \in DOMAIN s : s[i] \in Piece
      OBVIOUS
    <3>2. output \in Seq(Piece) /\ wire \in Seq(Piece)
      BY DEF TypeOK
    <3>3. /\ \A i \in DOMAIN output : output[i].of = next \/ output[i] = LogLine
          /\ \A i \in DOMAIN wire : wire[i].of = next \/ wire[i] = LogLine
      BY DEF Taken, OfThisCommand
    <3> QED
      BY <3>1, <3>2, <3>3
  <2>2. (\A i \in DOMAIN text : text[i] \in A) /\ DOMAIN text = 1..Len(text)
    <3> HIDE DEF A
    <3> QED
      BY <1>0, <2>1, TextOfCommand, Zenon
  <2> HIDE DEF text
  <2> QED
    BY <2>2
<1>11. Whole(text)
  BY <1>1, <1>9, <1>10 DEF Whole, Taken
<1>12. ~ holding
  BY <1>7 DEF Taken, HeldPieceIsSeen
<1> QED
  BY <1>7, <1>8, <1>11, <1>12, Zenon DEF w2

(***************************************************************************)
(* The steps of the client keep OnCourse.                                  *)
(***************************************************************************)

\* A key is typed at a pager: the switch has seen the command.
LEMMA KeyStep ==
  ASSUME TypeOK, OnCourse, Taken, pc = "waiting", NEW n \in 0..Len(wire),
         wire' = SubSeq(wire, n + 1, Len(wire)),
         NEW rest \in Seq(Piece), AnswersKey(rest),
         Keep(rest, Shown) = Keep(output \o SubSeq(wire, 1, n), Shown),
         \A i \in DOMAIN rest :
           \E j \in DOMAIN (output \o SubSeq(wire, 1, n)) :
             rest[i] = (output \o SubSeq(wire, 1, n))[j]
  PROVE  OnCourse'
<1>1. /\ input' = input \o <<Key>> /\ silent' = FALSE /\ output' = rest
      /\ UNCHANGED <<pc, next, given, answering, holding>>
  <2>1. wire' \in Seq(Piece)
    BY OnTheWayParts, Zenon
  <2> QED
    BY <2>1, KeyTypes DEF AnswersKey
<1>2. /\ \A i \in DOMAIN input' : input'[i] = Key
      /\ input' # <<>>
  <2>1. input \in Seq(0..Len(script)) /\ Key \in 0..Len(script)
    <3>1. Len(script) \in Nat
      BY ScriptAssumption DEF TypeOK
    <3> QED
      BY <3>1 DEF TypeOK, Key
  <2> DEFINE U == 0..Len(script)
             longer == input \o <<Key>>
  <2>2. /\ longer \in Seq(U) /\ Len(longer) = Len(input) + 1 /\ Len(input) \in Nat
        /\ longer[Len(input) + 1] = Key /\ (\A i \in 1..Len(input) : longer[i] = input[i])
        /\ longer # <<>>
    <3>1. input \in Seq(U) /\ Key \in U
      BY <2>1
    <3> HIDE DEF U
    <3> QED
      BY <3>1, OneMore
  <2> HIDE DEF longer, U
  <2>3. DOMAIN longer = 1..(Len(input) + 1) /\ DOMAIN input = 1..Len(input)
    BY <2>1, <2>2, LenProperties
  <2>4. \A i \in DOMAIN longer : longer[i] = Key
    <3> SUFFICES ASSUME NEW i \in DOMAIN longer PROVE longer[i] = Key
      OBVIOUS
    <3>1. i = Len(input) + 1 \/ i \in 1..Len(input)
      BY <2>2, <2>3
    <3> QED
      BY <3>1, <2>2, <2>3 DEF Taken
  <2> QED
    BY <1>1, <2>2, <2>4 DEF longer
<1>3. AnswerIsKept' /\ OfThisCommand' /\ KeyComesFirst' /\ QuestionComesLast'
  <2>1. UNCHANGED <<answering, next, given>> /\ output' \in Seq(Piece)
    BY <1>1
  <2>2. Keep(output', Shown) = Keep(output \o SubSeq(wire, 1, n), Shown)
        /\ \A i \in DOMAIN output' :
             \E j \in DOMAIN (output \o SubSeq(wire, 1, n)) :
               output'[i] = (output \o SubSeq(wire, 1, n))[j]
    BY <1>1
  <2> QED
    BY <2>1, <2>2, ReadKeeps, Zenon DEF Taken
<1>4. HeldPieceIsSeen' /\ TailsToCome'
  BY <1>1, <1>2 DEF Taken, HeldPieceIsSeen, AtTail, TailsToCome
<1>5. Taken'
  BY <1>1, <1>2, <1>3, <1>4 DEF Taken
<1> QED
  BY <1>1, <1>5 DEF OnCourse

\* A command that has its whole answer leaves nothing behind.
LEMMA SettledStep ==
  ASSUME OnCourse, ~ silent, pc' # "waiting", Settled', UNCHANGED silent
  PROVE  OnCourse'
BY DEF OnCourse

\* A pager is answered when its marker is read.
LEMMA MarkerIsRead ==
  ASSUME TypeOK, NEW n \in 0..Len(wire), ~ HasPager(output \o SubSeq(wire, 1, n)),
         NEW i \in DOMAIN wire, wire[i].kind = "pager"
  PROVE  i \in n + 1..Len(wire)
<1> DEFINE w1 == SubSeq(wire, 1, n)
           text == output \o w1
<1>1. /\ w1 \in Seq(Piece) /\ text \in Seq(Piece) /\ Len(w1) = n
      /\ \A j \in 1..n : w1[j] = wire[j]
  BY OnTheWayParts, Zenon
<1>2. output \in Seq(Piece) /\ wire \in Seq(Piece) /\ Len(wire) \in Nat /\ i \in 1..Len(wire) /\ n \in Nat
  <2>1. output \in Seq(Piece) /\ wire \in Seq(Piece)
    BY DEF TypeOK
  <2>2. Len(wire) \in Nat /\ DOMAIN wire = 1..Len(wire)
    BY <2>1, LenProperties
  <2> QED
    BY <2>1, <2>2
<1> HIDE DEF w1
<1>3. /\ Len(output) \in Nat /\ DOMAIN text = 1..(Len(output) + Len(w1))
      /\ \A j \in 1..Len(w1) : text[Len(output) + j] = w1[j]
  BY <1>1, <1>2, JoinedLines
<1> HIDE DEF text
<1>4. ~ HasPager(text)
  BY DEF text, w1
<1>5. ~ (i <= n)
  <2> SUFFICES ASSUME i <= n PROVE FALSE
    OBVIOUS
  <2>1. i \in 1..n /\ i \in 1..Len(w1) /\ Len(output) + i \in DOMAIN text
    BY <1>1, <1>2, <1>3
  <2>2. text[Len(output) + i] = wire[i]
    BY <1>1, <1>3, <2>1
  <2> QED
    BY <1>4, <2>1, <2>2 DEF HasPager, Pagers
<1> QED
  BY <1>2, <1>5

LEMMA ReceiveStep == ASSUME TypeOK, OnCourse, Receive PROVE OnCourse'
<1>1. PICK n \in 1..Len(wire) :
        pc = "waiting" /\ wire' = SubSeq(wire, n + 1, Len(wire)) /\ ReadOn(n)
  BY ReceiveCases
<1> DEFINE w1 == SubSeq(wire, 1, n)
           w2 == SubSeq(wire, n + 1, Len(wire))
           text == output \o w1
           rest == w2 \o answering
<1>2. n \in 0..Len(wire) /\ Len(wire) \in Nat \ {0} /\ DOMAIN wire = 1..Len(wire) /\ wire \in Seq(Piece)
      /\ output \in Seq(Piece) /\ n \in Nat \ {0} /\ n <= Len(wire) /\ next \in Nat \ {0}
  <2>1. wire \in Seq(Piece) /\ Len(wire) \in Nat /\ DOMAIN wire = 1..Len(wire)
    BY DEF TypeOK
  <2> QED
    BY <2>1 DEF TypeOK
<1>3. ~ silent
  BY <1>2, EmptySeq DEF OnCourse
<1>4. /\ w1 \in Seq(Piece) /\ w2 \in Seq(Piece) /\ text \in Seq(Piece) /\ Len(w1) = n
      /\ \A i \in 1..n : OnTheWay[i] = w1[i] /\ w1[i] = wire[i]
  BY <1>2, OnTheWayParts, Zenon
<1>5. Last(text) = w1[n] /\ w1[n] = wire[n] /\ text # <<>>
  <2>1. Len(output \o w1) = Len(output) + n /\ (output \o w1)[Len(output) + n] = w1[n] /\ Len(output) \in Nat
    <3> HIDE DEF w1
    <3>1. /\ Len(output \o w1) = Len(output) + Len(w1) /\ Len(output) \in Nat
          /\ \A i \in 1..Len(w1) : (output \o w1)[Len(output) + i] = w1[i]
      BY <1>2, <1>4, JoinedLines
    <3> QED
      BY <1>2, <1>4, <3>1
  <2>2. Last(text) = text[Len(text)]
    BY DEF Last
  <2>3. w1[n] = wire[n]
    BY <1>2, <1>4
  <2>4. text # <<>>
    <3>1. Len(text) # 0
      BY <1>2, <2>1
    <3> QED
      BY <3>1, EmptySeq
  <2> QED
    BY <2>1, <2>2, <2>3, <2>4
<1>6. CASE NotTaken
  <2>1. (\A i \in DOMAIN text : text[i] = LogLine) /\ DOMAIN text = 1..Len(text)
    <3> DEFINE A == {LogLine}
    <3>1. (\A i \in DOMAIN output : output[i] \in A) /\ (\A i \in DOMAIN wire : wire[i] \in A)
      BY <1>6 DEF NotTaken
    <3> HIDE DEF A
    <3>2. (\A i \in DOMAIN text : text[i] \in A) /\ DOMAIN text = 1..Len(text)
      BY <1>2, <3>1, TextOfCommand, Zenon
    <3> QED
      BY <3>2 DEF A
  <2>2. Last(text) = LogLine
    BY <1>2, <1>5, <1>6 DEF NotTaken
  <2> HIDE DEF text
  <2>3. ~ PressAnyKey(text) /\ ~ HasPager(text) /\ ~ Asks(text)
    BY <2>1, <2>2, LogLineIsALine DEF PressAnyKey, HasPager, Asks, Pagers
  <2>4. /\ output' = text
        /\ UNCHANGED <<transport, dryRun, script, next, pc, results, input, answering, holding, silent,
                       given, logs>>
    BY <1>1, <2>3 DEF ReadOn, text
  <2>5. \A i \in DOMAIN wire' : wire'[i] = LogLine
    <3>1. /\ Len(w2) = Len(wire) - n /\ \A i \in 1..(Len(wire) - n) : w2[i] = wire[n + i]
      BY <1>2, Parts, Zenon
    <3>2. DOMAIN w2 = 1..Len(w2)
      <4> HIDE DEF w2
      <4> QED
        BY <1>4, LenProperties
    <3> HIDE DEF w2
    <3>3. \A i \in 1..(Len(wire) - n) : n + i \in DOMAIN wire
      BY <1>2
    <3>4. \A i \in DOMAIN w2 : w2[i] = LogLine
      BY <1>6, <3>1, <3>2, <3>3 DEF NotTaken
    <3> QED
      BY <1>1, <3>4 DEF w2
  <2>6. NotTaken'
    BY <1>6, <2>1, <2>4, <2>5 DEF NotTaken
  <2> QED
    BY <1>1, <1>3, <2>4, <2>6 DEF OnCourse
<1>7. CASE Taken
  <2>1. CASE PressAnyKey(text) /\ AnswersKey(<<>>)
    <3>1. OnTheWay[n].kind = "key"
      BY <1>2, <1>4, <1>5, <2>1 DEF PressAnyKey
    <3>2. DOMAIN OnTheWay = 1..Len(OnTheWay) /\ n \in DOMAIN OnTheWay /\ n <= Len(OnTheWay)
      <4> HIDE DEF w1, w2, text
      <4>1. OnTheWay \in Seq(Piece) /\ Len(OnTheWay) = n + Len(rest) /\ Len(rest) \in Nat
        BY <1>2, OnTheWayParts, Zenon DEF w2
      <4> HIDE DEF rest
      <4> QED
        BY <1>2, <4>1, LenProperties
    <3>3. Keep(output, Shown) = <<>> /\ \A i \in 1..(n - 1) : OnTheWay[i] \notin Shown
      <4>1. Keep(output, Shown) = <<>>
        BY <1>7, <3>1, <3>2 DEF Taken, KeyComesFirst
      <4>2. \A i \in 1..(n - 1) : i \in DOMAIN OnTheWay /\ i < n
        BY <1>2, <3>2
      <4> QED
        BY <1>7, <3>1, <3>2, <4>1, <4>2 DEF Taken, KeyComesFirst, KeysFirst
    <3>4. \A i \in 1..n : w1[i] \notin Shown
      <4> SUFFICES ASSUME NEW i \in 1..n PROVE w1[i] \notin Shown
        OBVIOUS
      <4>1. CASE i = n
        <5>1. w1[n].kind = "key"
          BY <1>5, <2>1 DEF PressAnyKey
        <5> HIDE DEF w1
        <5>2. w1[n] \in Piece
          BY <1>2, <1>4, ElementOfSeq
        <5> QED
          BY <4>1, <5>1, <5>2, KindsOfPieces
      <4>2. CASE i # n
        BY <1>2, <1>4, <3>3, <4>2
      <4> QED
        BY <4>1, <4>2
    <3>5. Keep(text, Shown) = <<>>
      <4> HIDE DEF w1
      <4>1. Keep(w1, Shown) = <<>>
        <5> DEFINE lines == Shown
        <5>1. \A i \in 1..Len(w1) : w1[i] \notin lines
          BY <1>4, <3>4
        <5> HIDE DEF lines
        <5>2. Keep(w1, lines) = <<>>
          BY <1>4, <5>1, KeepNone
        <5> QED
          BY <5>2 DEF lines
      <4>2. Keep(output \o w1, Shown) = Keep(output, Shown) \o Keep(w1, Shown)
        BY <1>2, <1>4, ShownOfBoth, Zenon
      <4>3. <<>> \o <<>> = <<>>
        OBVIOUS
      <4> QED
        BY <3>3, <4>1, <4>2, <4>3
    <3>6. Keep(<<>>, Shown) = <<>> /\ <<>> \in Seq(Piece) /\ DOMAIN <<>> = {}
      BY KeepNothing, EmptySeq
    <3> HIDE DEF w1, w2, text, rest
    <3> DEFINE r == <<>>
    <3>7. /\ r \in Seq(Piece) /\ AnswersKey(r)
          /\ Keep(r, Shown) = Keep(output \o SubSeq(wire, 1, n), Shown)
          /\ \A i \in DOMAIN r :
               \E j \in DOMAIN (output \o SubSeq(wire, 1, n)) :
                 r[i] = (output \o SubSeq(wire, 1, n))[j]
      BY <2>1, <3>5, <3>6 DEF text, w1
    <3> HIDE DEF r
    <3> QED
      BY <1>1, <1>2, <1>7, <3>7, KeyStep, Zenon
  <2>2. CASE AnswersKey(strip_pager_prompt(text))
    <3> DEFINE r == strip_pager_prompt(text)
    <3>1. /\ r \in Seq(Piece) /\ Keep(r, Shown) = Keep(text, Shown)
          /\ \A i \in DOMAIN r : \E j \in DOMAIN text : r[i] = text[j]
      <4> HIDE DEF text
      <4> QED
        BY <1>4, Stripped, Zenon
    <3>2. AnswersKey(r)
      BY <2>2
    <3> HIDE DEF r
    <3> QED
      BY <1>1, <1>2, <1>7, <3>1, <3>2, KeyStep, Zenon
  <2>3. CASE /\ Asks(text) /\ Returns("ok", text)
             /\ UNCHANGED <<input, answering, holding, silent, given, logs>>
    <3>1. answering = <<>> /\ ~ holding /\ \A i \in DOMAIN w2 : w2[i] = LogLine
      BY <1>7, <2>3, AskedAnswer, Zenon
    <3>2. pc' # "waiting"
      BY <2>3 DEF Returns
    <3>3. Settled'
      BY <1>1, <1>7, <2>3, <3>1 DEF Settled, Taken
    <3> QED
      BY <1>3, <2>3, <3>2, <3>3, SettledStep
  <2>4. CASE /\ ~ PressAnyKey(text) /\ ~ HasPager(text)
             /\ output' = text /\ detected' = LooksFinished(text)
             /\ UNCHANGED <<transport, dryRun, script, next, pc, results, input, answering, holding,
                            silent, given, logs>>
    <3>1. AnswerIsKept' /\ OfThisCommand' /\ KeyComesFirst' /\ QuestionComesLast'
      <4>1. /\ UNCHANGED <<answering, next, given>> /\ output' \in Seq(Piece)
            /\ Keep(output', Shown) = Keep(text, Shown)
            /\ \A i \in DOMAIN output' : \E j \in DOMAIN text : output'[i] = text[j]
        <5> HIDE DEF text
        <5> QED
          BY <1>4, <2>4
      <4> QED
        BY <1>1, <1>2, <1>7, <4>1, ReadKeeps, Zenon DEF Taken
    <3>2. HeldPieceIsSeen'
      <4>1. UNCHANGED <<holding, answering, input>>
        BY <2>4
      <4>2. MarkerUnread => MarkerUnread'
        <5> SUFFICES ASSUME MarkerUnread PROVE MarkerUnread'
          OBVIOUS
        <5>1. PICK i \in DOMAIN wire : wire[i].kind = "pager"
          BY DEF MarkerUnread
        <5>2. i \in n + 1..Len(wire)
          BY <1>2, <1>7, <2>4, <5>1, MarkerIsRead
        <5>3. /\ Len(w2) = Len(wire) - n /\ \A j \in 1..(Len(wire) - n) : w2[j] = wire[n + j]
          BY <1>2, Parts, Zenon
        <5>4. DOMAIN w2 = 1..Len(w2)
          <6> HIDE DEF w2
          <6> QED
            BY <1>4, LenProperties
        <5> HIDE DEF w2
        <5>5. i - n \in 1..(Len(wire) - n) /\ n + (i - n) = i
          BY <1>2, <5>2
        <5>6. i - n \in DOMAIN w2 /\ w2[i - n] = wire[i]
          BY <5>3, <5>4, <5>5
        <5> QED
          BY <1>1, <5>1, <5>6 DEF MarkerUnread, w2
      <4>3. KeyUnread => KeyUnread'
        <5> SUFFICES ASSUME KeyUnread PROVE KeyUnread'
          OBVIOUS
        <5>1. wire[Len(wire)].kind = "key"
          BY DEF KeyUnread, Last
        <5>2. n # Len(wire)
          BY <1>5, <2>4, <5>1 DEF PressAnyKey
        <5>3. /\ Len(w2) = Len(wire) - n /\ \A i \in 1..(Len(wire) - n) : w2[i] = wire[n + i]
          BY <1>2, Parts, Zenon
        <5> HIDE DEF w2
        <5> DEFINE L == Len(wire)
                   M == Len(w2)
        <5>4. M \in 1..(L - n) /\ n + M = L /\ M # 0
          <6>1. L \in Nat /\ n \in Nat /\ n <= L /\ n # L /\ M = L - n
            BY <1>2, <5>2, <5>3, Zenon
          <6> HIDE DEF L, M
          <6> QED
            BY <6>1
        <5>5. w2 # <<>>
          BY <5>4, EmptySeq
        <5>6. Last(w2) = wire[Len(wire)]
          <6>1. Len(w2) \in 1..(Len(wire) - n) /\ n + Len(w2) = Len(wire)
            BY <5>4
          <6>2. Last(w2) = w2[Len(w2)]
            BY DEF Last
          <6> QED
            BY <5>3, <6>1, <6>2
        <5> QED
          BY <1>1, <5>1, <5>5, <5>6 DEF w2, KeyUnread
      <4>4. AtTail' = AtTail
        BY <4>1 DEF AtTail
      <4> QED
        BY <1>7, <4>1, <4>2, <4>3, <4>4 DEF Taken, HeldPieceIsSeen
    <3>3. Taken'
      BY <1>7, <2>4, <3>1, <3>2 DEF Taken, TailsToCome
    <3> QED
      BY <1>1, <1>3, <2>4, <3>3 DEF OnCourse
  <2> QED
    BY <1>1, <2>1, <2>2, <2>3, <2>4, Zenon DEF ReadOn
<1> QED
  BY <1>1, <1>6, <1>7 DEF OnCourse

LEMMA ConfirmStep == ASSUME TypeOK, OnCourse, Confirm PROVE OnCourse'
<1>1. pc = "waiting" /\ wire = <<>> /\ Quiet /\ LooksFinished(output) /\ Returns("ok", output)
      /\ UNCHANGED switch
  BY DEF Confirm, TypeOK
<1>2. Settled
  BY <1>1, QuietAnswer
<1>3. pc' # "waiting"
  BY <1>1 DEF Returns
<1> QED
  BY <1>1, <1>2, <1>3 DEF Settled, switch, OnCourse

LEMMA IdleStep == ASSUME TypeOK, OnCourse, IdleSettle PROVE OnCourse'
<1>1. pc = "waiting" /\ wire = <<>> /\ Quiet /\ output # <<>> /\ output \in Seq(Piece)
  BY DEF IdleSettle, TypeOK
<1>2. CASE (LooksFinished(output) \/ Asks(output)) /\ Returns("ok", output) /\ UNCHANGED switch
  <2>1. Settled
    BY <1>1, <1>2, QuietAnswer
  <2>2. pc' # "waiting"
    BY <1>2 DEF Returns
  <2> QED
    BY <1>2, <2>1, <2>2 DEF Settled, switch, OnCourse
<1>3. CASE HasPager(output) /\ AnswersKey(strip_pager_prompt(output)) /\ UNCHANGED wire
  <2>1. Taken
    <3>1. ~ NotTaken
      BY <1>3, LogLineIsALine DEF NotTaken, HasPager, Pagers
    <3> QED
      BY <1>1, <3>1 DEF OnCourse
  <2>2. wire = <<>> /\ Len(wire) = 0 /\ 0 \in 0..Len(wire)
    BY <1>1, EmptySeq
  <2>3. SubSeq(wire, 1, 0) = <<>> /\ wire' = SubSeq(wire, 0 + 1, Len(wire))
    <3>1. SubSeq(wire, 1, 0) = <<>>
      BY SubSeqEmpty
    <3>2. SubSeq(wire, 0 + 1, Len(wire)) = <<>>
      <4>1. 0 + 1 = 1
        OBVIOUS
      <4> QED
        BY <2>2, <3>1, <4>1
    <3> QED
      BY <1>1, <1>3, <3>1, <3>2
  <2>4. output \o SubSeq(wire, 1, 0) = output
    BY <1>1, <2>3, ConcatEmptySeq
  <2> DEFINE r == strip_pager_prompt(output)
  <2>5. /\ r \in Seq(Piece) /\ AnswersKey(r)
        /\ Keep(r, Shown) = Keep(output, Shown)
        /\ \A i \in DOMAIN r : \E j \in DOMAIN output : r[i] = output[j]
    BY <1>1, <1>3, Stripped, Zenon
  <2> HIDE DEF r
  <2>6. /\ Keep(r, Shown) = Keep(output \o SubSeq(wire, 1, 0), Shown)
        /\ \A i \in DOMAIN r :
             \E j \in DOMAIN (output \o SubSeq(wire, 1, 0)) :
               r[i] = (output \o SubSeq(wire, 1, 0))[j]
    BY <2>4, <2>5
  <2> QED
    BY <1>1, <2>1, <2>2, <2>3, <2>5, <2>6, KeyStep, Zenon
<1> QED
  BY <1>2, <1>3 DEF IdleSettle

LEMMA ExecuteStep == ASSUME TypeOK, OnCourse, execute_command PROVE OnCourse'
<1>1. Settled /\ ~ silent
  BY DEF execute_command, OnCourse, Settled
<1>2. /\ next \in 0..Len(script) /\ input \in Seq(0..Len(script)) /\ Len(given) = next - 1
      /\ next \in Nat \ {0} /\ given \in Seq(Seq(Kind)) /\ wire \in Seq(Piece)
  <2>1. Len(script) \in Nat
    BY ScriptAssumption DEF TypeOK
  <2> QED
    BY <2>1 DEF TypeOK, execute_command
<1> DEFINE U == 0..Len(script)
           i1 == input \o <<next>>
<1>3. /\ i1 \in Seq(U) /\ Len(i1) = Len(input) + 1 /\ Len(input) \in Nat
      /\ (\A i \in 1..Len(input) : i1[i] = input[i])
      /\ i1 # <<>> /\ Last(i1) = next /\ Append(input, next) = i1
  <2>1. input \in Seq(U) /\ next \in U
    BY <1>2
  <2> HIDE DEF U
  <2> QED
    BY <2>1, OneMore
<1>4. DOMAIN input = 1..Len(input)
  BY <1>2, LenProperties
<1>5. DOMAIN i1 = 1..(Len(input) + 1)
  <2> HIDE DEF i1, U
  <2> QED
    BY <1>3, LenProperties
<1>6. input' = i1
  BY <1>3 DEF execute_command
<1> HIDE DEF i1, U
<1>7. \A i \in DOMAIN i1 : i < Len(i1) => i1[i] = Key
  <2> SUFFICES ASSUME NEW i \in DOMAIN i1, i < Len(i1) PROVE i1[i] = Key
    OBVIOUS
  <2>1. i \in 1..Len(input)
    BY <1>3, <1>5
  <2> QED
    BY <2>1, <1>1, <1>3, <1>4 DEF Settled
<1>8. given'[next] = <<>>
  <2> DEFINE S == Seq(Kind)
             e == <<>>
  <2>1. e \in S /\ given \in Seq(S) /\ given' = Append(given, e)
    BY <1>2, EmptySeq DEF execute_command
  <2> HIDE DEF S, e
  <2>2. Append(given, e) = given \o <<e>> /\ (given \o <<e>>)[Len(given) + 1] = e
    BY <2>1, OneMore
  <2>3. Len(given) + 1 = next
    BY <1>2
  <2> QED
    BY <2>1, <2>2, <2>3 DEF e
<1>9. /\ UNCHANGED <<next, answering, holding, silent>> /\ output' = <<>> /\ pc' = "waiting"
      /\ \A i \in DOMAIN wire' : wire'[i] = LogLine
  <2>1. wire' = wire \/ wire' = <<>>
    BY DEF execute_command, clear_buffer
  <2>2. DOMAIN <<>> = {}
    OBVIOUS
  <2> QED
    BY <1>1, <2>1, <2>2 DEF execute_command, Settled
<1>10. NotTaken'
  <2>1. input' # <<>> /\ Last(input') = next' /\ \A i \in DOMAIN input' : i < Len(input') => input'[i] = Key
    BY <1>3, <1>6, <1>7, <1>9
  <2>2. DOMAIN output' = {}
    BY <1>9
  <2> QED
    BY <1>1, <1>8, <1>9, <2>1, <2>2 DEF NotTaken, Settled
<1> QED
  BY <1>1, <1>9, <1>10 DEF OnCourse

LEMMA SkipStep == ASSUME TypeOK, OnCourse, Skip PROVE OnCourse'
BY DEF Skip, OnCourse, Settled

LEMMA FinishStep == ASSUME TypeOK, OnCourse, Finish PROVE OnCourse'
BY DEF Finish, OnCourse, Settled, switch

(***************************************************************************)
(* The steps of the switch keep OnCourse.                                  *)
(***************************************************************************)
LEMMA TakesKeyStep == ASSUME TypeOK, OnCourse, TakesKey PROVE OnCourse'
<1>1. /\ input # <<>> /\ input' = Tail(input) /\ holding' = FALSE /\ silent' = FALSE
      /\ UNCHANGED <<client, answering, wire, given>>
      /\ holding \/ Head(input) = Key
  BY DEF TakesKey
<1>2. /\ Head(input) = input[1] /\ Len(input) \in Nat \ {0} /\ Len(Tail(input)) = Len(input) - 1
      /\ \A i \in 1..(Len(input) - 1) : Tail(input)[i] = input[i + 1]
      /\ Tail(input) \in Seq(0..Len(script)) /\ DOMAIN input = 1..Len(input)
  <2>1. input \in Seq(0..Len(script))
    BY DEF TypeOK
  <2>2. DOMAIN input = 1..Len(input)
    BY <2>1, LenProperties
  <2> QED
    BY <1>1, <2>1, <2>2, HeadAndTail
<1> DEFINE t == Tail(input)
<1>3. DOMAIN t = 1..(Len(input) - 1)
  <2> HIDE DEF t
  <2>1. t \in Seq(0..Len(script)) /\ Len(t) = Len(input) - 1
    BY <1>2 DEF t
  <2> QED
    BY <2>1, LenProperties
<1>4. \A i \in DOMAIN t : i + 1 \in DOMAIN input /\ t[i] = input[i + 1]
  BY <1>2, <1>3
<1>5. Settled => Settled'
  BY <1>1, <1>4 DEF Settled
<1>8. holding \/ answering = <<>>
  BY DEF TakesKey
<1>6. Taken => Taken'
  <2> SUFFICES ASSUME Taken PROVE Taken'
    OBVIOUS
  <2>1. \A i \in DOMAIN input' : input'[i] = Key
    BY <1>1, <1>4 DEF Taken
  <2>2. UNCHANGED <<output, next, given, wire, answering>>
    BY <1>1 DEF client
  <2>3. AnswerIsKept' /\ OfThisCommand' /\ KeyComesFirst' /\ QuestionComesLast'
    BY <2>2 DEF Taken, AnswerIsKept, OfThisCommand, KeyComesFirst, QuestionComesLast, OnTheWay
  <2>4. ~ AtTail \/ answering = <<>>
    BY <1>8 DEF Taken, HeldPieceIsSeen
  <2>5. HeldPieceIsSeen' /\ TailsToCome'
    BY <1>1, <2>2, <2>4 DEF Taken, HeldPieceIsSeen, TailsToCome, AtTail
  <2> QED
    BY <1>1, <2>1, <2>2, <2>3, <2>5 DEF Taken
<1>7. NotTaken => NotTaken'
  <2> SUFFICES ASSUME NotTaken PROVE NotTaken'
    OBVIOUS
  <2>1. input[1] = Key
    BY <1>1, <1>2 DEF NotTaken
  <2>2. Len(input) # 1
    <3>1. Last(input) = next /\ Last(input) = input[Len(input)] /\ next # Key
      BY ScriptAssumption DEF NotTaken, Last, TypeOK, Key
    <3> QED
      BY <2>1, <3>1
  <2> HIDE DEF t
  <2>3. t # <<>> /\ Last(t) = next
    <3>1. Len(t) = Len(input) - 1 /\ Len(t) # 0 /\ Len(t) \in 1..(Len(input) - 1) /\ Len(t) + 1 = Len(input)
      BY <1>2, <2>2 DEF t
    <3>2. Last(t) = t[Len(t)] /\ Last(input) = input[Len(input)]
      BY DEF Last
    <3>3. t[Len(t)] = input[Len(t) + 1]
      BY <1>3, <1>4, <3>1
    <3> QED
      BY <3>1, <3>2, <3>3, EmptySeq DEF NotTaken
  <2>4. \A i \in DOMAIN t : i < Len(t) => t[i] = Key
    <3> SUFFICES ASSUME NEW i \in DOMAIN t, i < Len(t) PROVE t[i] = Key
      OBVIOUS
    <3>1. i + 1 \in DOMAIN input /\ i + 1 < Len(input)
      BY <1>2, <1>3, <1>4 DEF t
    <3> QED
      BY <1>4, <3>1 DEF NotTaken
  <2> QED
    BY <1>1, <2>3, <2>4 DEF NotTaken, t, client
<1> QED
  BY <1>1, <1>5, <1>6, <1>7 DEF OnCourse, client

LEMMA WritesStep == ASSUME TypeOK, OnCourse, Writes PROVE OnCourse'
<1>0. /\ answering # <<>> /\ answering' = Tail(answering) /\ silent' = FALSE
      /\ holding' = (Head(answering).kind \in {"tail", "more", "key"}) /\ ~ holding
      /\ UNCHANGED <<client, input, given>>
      /\ wire' = wire \o <<Head(answering)>> /\ OnTheWay' = OnTheWay
  BY WritesTypes DEF Writes
<1>1. pc = "waiting" /\ Taken
  BY <1>0 DEF OnCourse, Settled, NotTaken
<1> DEFINE h == Head(answering)
           t == Tail(answering)
<1>2. /\ h \in Piece /\ t \in Seq(Piece) /\ Len(answering) \in Nat \ {0} /\ Len(t) = Len(answering) - 1
      /\ h = answering[1] /\ (\A i \in 1..(Len(answering) - 1) : t[i] = answering[i + 1])
      /\ answering \in Seq(Piece) /\ wire \in Seq(Piece)
  <2>1. answering \in Seq(Piece) /\ wire \in Seq(Piece)
    BY DEF TypeOK
  <2> QED
    BY <1>0, <2>1, HeadAndTail, Zenon
<1>3. DOMAIN answering = 1..Len(answering) /\ DOMAIN t = 1..(Len(answering) - 1)
  <2> HIDE DEF t
  <2> QED
    BY <1>2, LenProperties
<1>4. h.of = next
  <2>1. 1 \in DOMAIN answering
    BY <1>2, <1>3
  <2> QED
    BY <1>1, <1>2, <2>1 DEF Taken, OfThisCommand
<1>5. \A i \in DOMAIN t : t[i].of = next
  <2>1. \A i \in DOMAIN t : i + 1 \in DOMAIN answering /\ t[i] = answering[i + 1]
    BY <1>2, <1>3
  <2> QED
    BY <1>1, <2>1 DEF Taken, OfThisCommand
<1>6. t # <<>> => Last(t) = Last(answering)
  <2> SUFFICES ASSUME t # <<>> PROVE Last(t) = Last(answering)
    OBVIOUS
  <2> HIDE DEF t, h
  <2>1. Len(t) \in Nat \ {0}
    BY <1>2, EmptySeq
  <2>2. Len(t) \in 1..(Len(answering) - 1) /\ Len(t) + 1 = Len(answering)
    BY <1>2, <2>1
  <2>3. Last(t) = t[Len(t)] /\ Last(answering) = answering[Len(answering)]
    BY DEF Last
  <2> QED
    BY <1>2, <2>2, <2>3
<1>7. h.kind \notin {"prompt", "ask"} => t # <<>>
  <2> SUFFICES ASSUME h.kind \notin {"prompt", "ask"}, t = <<>> PROVE FALSE
    OBVIOUS
  <2>1. Len(answering) = 1
    <3> HIDE DEF t
    <3> QED
      BY <1>2, EmptySeq
  <2>2. Last(answering) = h
    BY <1>2, <2>1 DEF Last
  <2> QED
    BY <1>0, <1>1, <2>2 DEF Taken
<1> DEFINE w == wire \o <<h>>
<1>8. /\ w # <<>> /\ Last(w) = h /\ (\A i \in DOMAIN w : w[i].of = next \/ w[i] = LogLine)
      /\ \A i \in DOMAIN wire : i \in DOMAIN w /\ w[i] = wire[i]
      /\ Len(wire) + 1 \in DOMAIN w /\ w[Len(wire) + 1] = h
  <2> HIDE DEF h, t
  <2>1. /\ w \in Seq(Piece) /\ Len(w) = Len(wire) + 1 /\ Len(wire) \in Nat
        /\ w[Len(wire) + 1] = h /\ (\A i \in 1..Len(wire) : w[i] = wire[i])
        /\ w # <<>> /\ Last(w) = h
    BY <1>2, OneMore
  <2> HIDE DEF w
  <2>2. DOMAIN w = 1..(Len(wire) + 1) /\ DOMAIN wire = 1..Len(wire)
    BY <1>2, <2>1, LenProperties
  <2>3. ASSUME NEW i \in DOMAIN w PROVE w[i].of = next \/ w[i] = LogLine
    <3>1. i \in 1..Len(wire) \/ i = Len(wire) + 1
      BY <2>1, <2>2
    <3> QED
      BY <1>1, <1>4, <2>1, <2>2, <3>1 DEF Taken, OfThisCommand
  <2>4. \A i \in DOMAIN wire : i \in DOMAIN w /\ w[i] = wire[i]
    BY <2>1, <2>2
  <2>5. Len(wire) + 1 \in DOMAIN w
    BY <2>1, <2>2
  <2> QED
    BY <2>1, <2>3, <2>4, <2>5
<1> HIDE DEF w, t, h
<1>15. /\ h.kind # "more"
       /\ h.kind = "pager" => t # <<>> /\ t[1].kind = "tail"
       /\ t # <<>> /\ t[1].kind = "tail" => h.kind = "pager"
       /\ \A i \in DOMAIN t :
            /\ t[i].kind # "more"
            /\ t[i].kind = "pager" => i < Len(t) /\ t[i + 1].kind = "tail"
            /\ t[i].kind = "tail" => i = 1 \/ t[i - 1].kind = "pager"
  <2>1. \A i \in DOMAIN answering :
          /\ answering[i].kind # "more"
          /\ answering[i].kind = "pager" => i < Len(answering) /\ answering[i + 1].kind = "tail"
          /\ answering[i].kind = "tail" => i = 1 \/ answering[i - 1].kind = "pager"
    BY <1>1 DEF Taken, TailsToCome
  <2>2. 1 \in DOMAIN answering /\ Len(t) \in Nat
    BY <1>2, <1>3
  <2>3. h.kind # "more" /\ (h.kind = "pager" => t # <<>> /\ t[1].kind = "tail")
    <3>1. h.kind = "pager" => 1 < Len(answering) /\ answering[1 + 1].kind = "tail"
      BY <1>2, <2>1, <2>2
    <3>2. 1 < Len(answering) => 1 \in 1..(Len(answering) - 1) /\ t # <<>>
      BY <1>2, EmptySeq
    <3> QED
      BY <1>2, <2>1, <2>2, <3>1, <3>2
  <2>4. t # <<>> /\ t[1].kind = "tail" => h.kind = "pager"
    <3> SUFFICES ASSUME t # <<>>, t[1].kind = "tail" PROVE h.kind = "pager"
      OBVIOUS
    <3>1. 1 \in 1..(Len(answering) - 1) /\ 1 + 1 \in DOMAIN answering
      <4>1. Len(t) # 0
        BY <1>2, EmptySeq
      <4> QED
        BY <1>2, <1>3, <2>2, <4>1
    <3>2. answering[1 + 1].kind = "tail" /\ 1 + 1 # 1 /\ (1 + 1) - 1 = 1
      BY <1>2, <3>1
    <3> QED
      BY <1>2, <2>1, <3>1, <3>2
  <2>5. ASSUME NEW i \in DOMAIN t
        PROVE  /\ t[i].kind # "more"
               /\ t[i].kind = "pager" => i < Len(t) /\ t[i + 1].kind = "tail"
               /\ t[i].kind = "tail" => i = 1 \/ t[i - 1].kind = "pager"
    <3>1. i \in 1..(Len(answering) - 1) /\ i + 1 \in DOMAIN answering /\ t[i] = answering[i + 1]
      BY <1>2, <1>3
    <3>2. t[i].kind = "pager" => i < Len(t) /\ t[i + 1].kind = "tail"
      <4> SUFFICES ASSUME t[i].kind = "pager" PROVE i < Len(t) /\ t[i + 1].kind = "tail"
        OBVIOUS
      <4>1. i + 1 < Len(answering) /\ answering[(i + 1) + 1].kind = "tail"
        BY <2>1, <3>1
      <4>2. i + 1 \in 1..(Len(answering) - 1) /\ i < Len(t)
        BY <1>2, <3>1, <4>1
      <4> QED
        BY <1>2, <4>1, <4>2
    <3>3. t[i].kind = "tail" => i = 1 \/ t[i - 1].kind = "pager"
      <4> SUFFICES ASSUME t[i].kind = "tail", i # 1 PROVE t[i - 1].kind = "pager"
        OBVIOUS
      <4>1. i + 1 # 1 /\ (i + 1) - 1 = i /\ i - 1 \in 1..(Len(answering) - 1) /\ (i - 1) + 1 = i
        BY <1>2, <3>1
      <4>2. answering[(i + 1) - 1].kind = "pager"
        BY <2>1, <3>1, <4>1
      <4>3. t[i - 1] = answering[(i - 1) + 1]
        BY <1>2, <4>1
      <4> QED
        BY <4>1, <4>2, <4>3
    <3>4. t[i].kind # "more"
      BY <2>1, <3>1
    <3> QED
      BY <3>2, <3>3, <3>4
  <2> QED
    BY <2>3, <2>4, <2>5
<1>16. t # <<>> => Head(t) = t[1]
  BY <1>2, HeadAndTail
<1>9. wire' = w /\ answering' = t
  BY <1>0 DEF w, t, h
<1>10. UNCHANGED <<pc, output, next, given, input, OnTheWay>>
  BY <1>0 DEF client
<1>11. AnswerIsKept' /\ KeyComesFirst' /\ QuestionComesLast'
  BY <1>1, <1>10 DEF Taken, AnswerIsKept, KeyComesFirst, QuestionComesLast
<1>12. OfThisCommand'
  BY <1>1, <1>5, <1>8, <1>9, <1>10 DEF Taken, OfThisCommand
<1>13. HeldPieceIsSeen'
  <2>1. MarkerUnread => MarkerUnread'
    BY <1>8, <1>9 DEF MarkerUnread
  <2>2. h.kind = "pager" => MarkerUnread'
    BY <1>8, <1>9 DEF MarkerUnread
  <2>3. h.kind = "key" => KeyUnread'
    BY <1>8, <1>9 DEF KeyUnread
  <2>4. AtTail' => h.kind = "pager"
    BY <1>9, <1>15, <1>16 DEF AtTail
  <2>5. h.kind = "tail" => input # <<>> \/ MarkerUnread
    BY <1>0, <1>1 DEF Taken, HeldPieceIsSeen, AtTail, h
  <2>6. holding' => h.kind \in {"tail", "key"}
    BY <1>0, <1>15 DEF h
  <2>7. holding' => t # <<>> /\ ~ AtTail'
    BY <1>7, <2>4, <2>6
  <2>8. (holding' => input' # <<>> \/ MarkerUnread' \/ KeyUnread') /\ (AtTail' => MarkerUnread')
    BY <1>10, <2>1, <2>2, <2>3, <2>4, <2>5, <2>6
  <2> QED
    BY <1>9, <2>7, <2>8 DEF HeldPieceIsSeen
<1>17. TailsToCome'
  BY <1>9, <1>15 DEF TailsToCome
<1>14. Taken'
  BY <1>1, <1>6, <1>9, <1>10, <1>11, <1>12, <1>13, <1>17, <1>0 DEF Taken
<1> QED
  BY <1>0, <1>1, <1>10, <1>14 DEF OnCourse

LEMMA LogsStep == ASSUME TypeOK, OnCourse, Logs PROVE OnCourse'
<1>0. /\ answering = <<>> /\ pc = "waiting" /\ given[next] # <<>> /\ wire' = wire \o <<LogLine>>
      /\ UNCHANGED <<client, input, answering, holding, silent, given>>
  BY LogsTypes DEF Logs
<1>1. Taken /\ ~ silent /\ ~ holding
  BY <1>0 DEF OnCourse, NotTaken, Taken, HeldPieceIsSeen
<1>2. wire \in Seq(Piece) /\ LogLine \in Piece /\ output \in Seq(Piece)
  BY KindsOfPieces DEF TypeOK
<1> DEFINE w == wire \o <<LogLine>>
<1>3. /\ w \in Seq(Piece) /\ Len(w) = Len(wire) + 1 /\ Len(wire) \in Nat
      /\ w[Len(wire) + 1] = LogLine /\ (\A i \in 1..Len(wire) : w[i] = wire[i])
  BY <1>2, OneMore
<1>4. OnTheWay = wire /\ OnTheWay' = w
  <2>1. \A s \in Seq(Piece) : s \o <<>> = s
    BY ConcatEmptySeq
  <2> HIDE DEF w
  <2> QED
    BY <1>0, <1>2, <1>3, <2>1 DEF OnTheWay, w
<1>5. Keep(output \o w, Shown) = Keep(output \o wire, Shown)
  <2> DEFINE lines == Shown
             l == LogLine
             ow == output \o wire
  <2>1. ow \in Seq(Piece) /\ l \in Piece /\ l \notin lines /\ output \o w = ow \o <<l>>
    <3>1. ow \in Seq(Piece)
      BY <1>2, ConcatProperties
    <3>2. output \o (wire \o <<l>>) = (output \o wire) \o <<l>>
      <4> DEFINE o == <<l>>
      <4>1. o \in Seq(Piece)
        <5>1. \A x \in Piece : <<x>> \in Seq(Piece)
          OBVIOUS
        <5> QED
          BY <1>2, <5>1
      <4> HIDE DEF o
      <4>2. (output \o wire) \o o = output \o (wire \o o)
        BY <1>2, <4>1, ConcatAssociative
      <4> QED
        BY <4>2 DEF o
    <3> QED
      BY <1>2, <3>1, <3>2, KindsOfPieces
  <2> HIDE DEF lines, l, ow, w
  <2>2. Keep(ow \o <<l>>, lines) = Keep(ow, lines)
    BY <2>1, KeepOneMore
  <2> QED
    BY <2>1, <2>2 DEF lines, ow
<1> HIDE DEF w
<1>6. DOMAIN w = 1..(Len(wire) + 1) /\ DOMAIN wire = 1..Len(wire)
  BY <1>2, <1>3, LenProperties
<1>7. \A i \in DOMAIN w : (i \in DOMAIN wire /\ w[i] = wire[i]) \/ (i = Len(wire) + 1 /\ w[i] = LogLine)
  BY <1>3, <1>6
<1>8. \A i \in DOMAIN wire : i < Len(wire) + 1
  BY <1>3, <1>6
<1>9. UNCHANGED <<pc, output, next, given, input, answering>>
  BY <1>0 DEF client
<1>10. AnswerIsKept'
  BY <1>1, <1>4, <1>5, <1>9 DEF Taken, AnswerIsKept
<1>11. OfThisCommand'
  <2>1. \A i \in DOMAIN w : w[i].of = next \/ w[i] = LogLine
    BY <1>1, <1>7 DEF Taken, OfThisCommand
  <2> QED
    BY <1>0, <1>1, <1>9, <2>1 DEF Taken, OfThisCommand, w
<1>12. KeyComesFirst'
  <2>1. KeysFirst(wire) /\ ((\E i \in DOMAIN wire : wire[i].kind = "key") => Keep(output, Shown) = <<>>)
    BY <1>1, <1>4 DEF Taken, KeyComesFirst
  <2>2. \A j \in DOMAIN w : w[j].kind = "key" => j \in DOMAIN wire /\ w[j] = wire[j]
    BY <1>7, LogLineIsALine
  <2>3. \A i \in DOMAIN w, j \in DOMAIN wire : i < j => i \in DOMAIN wire /\ w[i] = wire[i]
    <3> SUFFICES ASSUME NEW i \in DOMAIN w, NEW j \in DOMAIN wire, i < j
                 PROVE  i \in DOMAIN wire /\ w[i] = wire[i]
      OBVIOUS
    <3>1. i # Len(wire) + 1
      BY <1>3, <1>6
    <3> QED
      BY <1>7, <3>1
  <2>4. KeysFirst(w)
    BY <2>1, <2>2, <2>3 DEF KeysFirst
  <2> QED
    BY <1>4, <1>9, <2>1, <2>2, <2>4 DEF KeyComesFirst
<1>13. QuestionComesLast'
  <2>1. /\ AsksLast(wire)
        /\ (\E i \in DOMAIN output : output[i].kind = "ask") =>
             \A j \in DOMAIN wire : wire[j] = LogLine
    BY <1>1, <1>4 DEF Taken, QuestionComesLast
  <2>2. \A i \in DOMAIN w : w[i].kind = "ask" => i \in DOMAIN wire /\ w[i] = wire[i]
    BY <1>7, LogLineIsALine
  <2>3. AsksLast(w)
    BY <2>1, <2>2, <1>7 DEF AsksLast
  <2>4. (\E i \in DOMAIN output : output[i].kind = "ask") => \A j \in DOMAIN w : w[j] = LogLine
    BY <2>1, <1>7
  <2> QED
    BY <1>4, <1>9, <2>3, <2>4 DEF QuestionComesLast
<1>14. Taken'
  <2>1. HeldPieceIsSeen' /\ TailsToCome'
    BY <1>0, <1>1, <1>9 DEF Taken, HeldPieceIsSeen, AtTail, TailsToCome
  <2> QED
    BY <1>0, <1>1, <1>9, <1>10, <1>11, <1>12, <1>13, <2>1 DEF Taken
<1> QED
  BY <1>0, <1>1, <1>9, <1>14 DEF OnCourse

LEMMA PausesStep == ASSUME TypeOK, OnCourse, Pauses PROVE OnCourse'
<1>1. /\ answering # <<>> /\ wire = <<>> /\ ~ LooksFinished(output) /\ silent' = TRUE
      /\ UNCHANGED <<client, input, answering, holding, wire, given>>
  BY DEF Pauses
<1>2. (Settled => Settled') /\ (NotTaken => NotTaken')
  BY <1>1 DEF Settled, NotTaken, client
<1>3. Taken => Taken'
  BY <1>1 DEF Taken, AnswerIsKept, OfThisCommand, KeyComesFirst, QuestionComesLast, HeldPieceIsSeen,
              MarkerUnread, KeyUnread, AtTail, TailsToCome, OnTheWay, client
<1> QED
  BY <1>1, <1>2, <1>3 DEF OnCourse, client

\* The switch takes the command: what it is to say is the whole answer.
LEMMA TakesCommandStep == ASSUME TypeOK, OnCourse, PlainSoFar, TakesCommand PROVE OnCourse'
<1>0. PICK a \in AnswersTo[script[Head(input)].kind] :
        /\ a \in Seq(Kind) /\ a # <<>> /\ Last(a) \in {"prompt", "ask"} /\ TailsFollow(a)
        /\ answering' = PiecesOf(Head(input), a)
        /\ given' = [given EXCEPT ![Head(input)] = a]
  BY TakesCommandTypes
<1>1. /\ input # <<>> /\ Head(input) # Key /\ input' = Tail(input) /\ silent' = FALSE
      /\ UNCHANGED <<client, holding, wire>> /\ ~ holding
  BY DEF TakesCommand
<1>2. /\ Head(input) = input[1] /\ Len(input) \in Nat \ {0} /\ DOMAIN input = 1..Len(input)
      /\ Len(Tail(input)) = Len(input) - 1 /\ Tail(input) \in Seq(0..Len(script))
  <2>1. input \in Seq(0..Len(script))
    BY DEF TypeOK
  <2>2. DOMAIN input = 1..Len(input)
    BY <2>1, LenProperties
  <2> QED
    BY <1>1, <2>1, <2>2, HeadAndTail
<1>3. pc = "waiting" /\ NotTaken
  <2>1. ~ (\A i \in DOMAIN input : input[i] = Key)
    BY <1>1, <1>2
  <2> QED
    BY <2>1 DEF OnCourse, Settled, Taken
<1>4. Head(input) = next /\ input' = <<>>
  <2>1. ~ (1 < Len(input))
    BY <1>1, <1>2, <1>3 DEF NotTaken
  <2>2. Len(input) = 1
    BY <1>2, <2>1
  <2>3. Head(input) = next
    BY <1>2, <1>3, <2>2 DEF NotTaken, Last
  <2>4. Tail(input) = <<>>
    <3> DEFINE t == Tail(input)
    <3>1. t \in Seq(0..Len(script)) /\ Len(t) = 0
      BY <1>2, <2>2
    <3> HIDE DEF t
    <3> QED
      BY <3>1, EmptySeq DEF t
  <2> QED
    BY <1>1, <2>3, <2>4
<1>5. UNCHANGED <<pc, output, next>> /\ next \in Nat \ {0} /\ wire \in Seq(Piece) /\ output \in Seq(Piece)
      /\ given \in Seq(Seq(Kind)) /\ Len(given) = next
  BY <1>1, <1>3, ScriptAssumption DEF client, TypeOK
<1>18. Plain(a)
  <2>1. next \in DOMAIN script /\ next <= next
    BY <1>3, <1>5, ScriptAssumption DEF TypeOK
  <2> QED
    BY <1>0, <1>4, <2>1 DEF PlainSoFar, IsPlain
<1> DEFINE u == PiecesOf(next, a)
<1>6. /\ u \in Seq(Piece) /\ Len(u) = Len(a) /\ Len(a) \in Nat
      /\ \A i \in 1..Len(a) : u[i] = [of |-> next, kind |-> a[i]]
      /\ u # <<>> /\ Last(u) = [of |-> next, kind |-> Last(a)]
      /\ DOMAIN a = 1..Len(a)
  <2>1. DOMAIN a = 1..Len(a)
    OBVIOUS
  <2> QED
    BY <1>0, <1>5, <2>1, PiecesOfAnswer, Zenon
<1>7. given'[next] = a
  <2>1. next \in DOMAIN given
    BY <1>5
  <2> QED
    BY <1>0, <1>4, <2>1
<1>8. answering' = u
  BY <1>0, <1>4
<1> HIDE DEF u
<1>9. DOMAIN u = 1..Len(a) /\ \A i \in 1..Len(a) : u[i].of = next /\ u[i].kind = a[i]
  <2>1. DOMAIN u = 1..Len(u)
    BY <1>6, LenProperties
  <2>2. \A i \in 1..Len(a) : u[i].of = next /\ u[i].kind = a[i]
    <3>1. \A l, k, x : l = [of |-> k, kind |-> x] => l.of = k /\ l.kind = x
      OBVIOUS
    <3>2. \A i \in 1..Len(a) : u[i] = [of |-> next, kind |-> a[i]]
      BY <1>6, Zenon
    <3> SUFFICES ASSUME NEW i \in 1..Len(a) PROVE u[i].of = next /\ u[i].kind = a[i]
      OBVIOUS
    <3>3. u[i] = [of |-> next, kind |-> a[i]]
      BY <3>2, Zenon
    <3> QED
      BY <3>1, <3>3, Zenon
  <2>3. DOMAIN u = 1..Len(a)
    BY <1>6, <2>1, Zenon
  <2> QED
    BY <2>2, <2>3, Zenon
<1> DEFINE v == wire \o u
<1>10. /\ OnTheWay' = v /\ v \in Seq(Piece) /\ Len(wire) \in Nat
       /\ DOMAIN v = 1..(Len(wire) + Len(a)) /\ DOMAIN wire = 1..Len(wire)
       /\ \A i \in 1..Len(wire) : v[i] = wire[i]
       /\ \A i \in DOMAIN v :
            i \in 1..Len(wire) \/ (i - Len(wire) \in 1..Len(a) /\ v[i] = u[i - Len(wire)])
  <2>1. OnTheWay' = v
    BY <1>1, <1>8 DEF OnTheWay
  <2>2. /\ v \in Seq(Piece) /\ Len(wire) \in Nat
        /\ DOMAIN v = 1..(Len(wire) + Len(u)) /\ DOMAIN wire = 1..Len(wire)
        /\ \A i \in 1..Len(wire) : v[i] = wire[i]
        /\ \A i \in DOMAIN v :
             i \in 1..Len(wire) \/ (i - Len(wire) \in 1..Len(u) /\ v[i] = u[i - Len(wire)])
    BY <1>5, <1>6, JoinedLines
  <2> HIDE DEF v
  <2> QED
    BY <1>6, <2>1, <2>2
<1>11. (\A i \in DOMAIN output : output[i] = LogLine) /\ (\A i \in DOMAIN wire : wire[i] = LogLine)
  BY <1>3 DEF NotTaken
<1>12. AnswerIsKept'
  <2>1. Keep(output, Shown) = <<>> /\ Keep(wire, Shown) = <<>>
    <3> DEFINE lines == Shown
    <3>1. LogLine \notin lines
      BY KindsOfPieces
    <3>2. DOMAIN output = 1..Len(output)
      BY <1>5, LenProperties
    <3> HIDE DEF lines
    <3>3. Keep(output, lines) = <<>> /\ Keep(wire, lines) = <<>>
      BY <1>5, <1>10, <1>11, <3>1, <3>2, KeepNone
    <3> QED
      BY <3>3 DEF lines
  <2>2. Keep(output \o v, Shown) = Keep(output, Shown) \o (Keep(wire, Shown) \o Keep(u, Shown))
    <3>1. Keep(v, Shown) = Keep(wire, Shown) \o Keep(u, Shown)
      BY <1>5, <1>6, ShownOfBoth, Zenon
    <3> HIDE DEF v
    <3>2. Keep(output \o v, Shown) = Keep(output, Shown) \o Keep(v, Shown)
      BY <1>5, <1>10, ShownOfBoth, Zenon
    <3> QED
      BY <3>1, <3>2, Zenon
  <2>3. <<>> \o (<<>> \o Keep(u, Shown)) = Keep(u, Shown)
    <3> DEFINE k == Keep(u, Shown)
    <3>1. k \in Seq(Piece \cap Shown)
      BY <1>6, KeepType, Zenon
    <3> HIDE DEF k
    <3>2. <<>> \o k = k
      BY <3>1, ConcatEmptySeq
    <3> QED
      BY <3>2 DEF k
  <2>4. Keep(output \o v, Shown) = Keep(u, Shown)
    BY <2>1, <2>2, <2>3
  <2> HIDE DEF v
  <2> QED
    BY <1>5, <1>7, <1>10, <2>4 DEF AnswerIsKept, u
<1> HIDE DEF v
<1>13. OfThisCommand'
  BY <1>1, <1>5, <1>8, <1>9, <1>11 DEF OfThisCommand
<1>14. ASSUME NEW i \in DOMAIN v, v[i].kind \in {"key", "ask"}
       PROVE  i - Len(wire) \in 1..Len(a) /\ v[i] = u[i - Len(wire)]
  BY <1>10, <1>11, <1>14, LogLineIsALine
<1>15. KeyComesFirst'
  <2>1. KeysFirst(v)
    <3> SUFFICES ASSUME NEW i \in DOMAIN v, NEW j \in DOMAIN v, i < j, v[j].kind = "key"
                 PROVE  v[i] \notin Shown
      BY DEF KeysFirst
    <3>1. CASE i \in 1..Len(wire)
      BY <3>1, <1>10, <1>11, KindsOfPieces
    <3>2. CASE i - Len(wire) \in 1..Len(a) /\ v[i] = u[i - Len(wire)]
      <4>1. j - Len(wire) \in 1..Len(a) /\ v[j] = u[j - Len(wire)]
        BY <1>14
      <4> DEFINE x == i - Len(wire)
                 y == j - Len(wire)
      <4>2. x < y
        BY <1>10
      <4> HIDE DEF x, y
      <4>3. x \in 1..Len(a) /\ y \in 1..Len(a) /\ v[i] = u[x] /\ v[j] = u[y]
        BY <3>2, <4>1 DEF x, y
      <4>4. a[y] = "key"
        BY <1>9, <4>3
      <4>5. a[x] \in Pagers \cup {"tail", "key"}
        BY <1>18, <1>6, <4>2, <4>3, <4>4 DEF Plain
      <4>6. u[x] \in Piece /\ u[x].kind = a[x]
        BY <1>6, <1>9, <4>3, ElementOfSeq
      <4> QED
        BY <4>3, <4>5, <4>6, KindsOfPieces DEF Pagers
    <3> QED
      BY <1>10, <3>1, <3>2
  <2>2. Keep(output, Shown) = <<>>
    <3> DEFINE lines == Shown
    <3>1. LogLine \notin lines
      BY KindsOfPieces
    <3>2. DOMAIN output = 1..Len(output)
      BY <1>5, LenProperties
    <3> HIDE DEF lines
    <3>3. Keep(output, lines) = <<>>
      BY <1>5, <1>11, <3>1, <3>2, KeepNone
    <3> QED
      BY <3>3 DEF lines
  <2> QED
    BY <1>5, <1>10, <2>1, <2>2 DEF KeyComesFirst
<1>16. QuestionComesLast'
  <2>1. AsksLast(v)
    <3> SUFFICES ASSUME NEW i \in DOMAIN v, NEW j \in DOMAIN v, i < j, v[i].kind = "ask"
                 PROVE  v[j] = LogLine
      BY DEF AsksLast
    <3>1. i - Len(wire) \in 1..Len(a) /\ v[i] = u[i - Len(wire)]
      BY <1>14
    <3>2. i - Len(wire) = Len(a)
      <4> DEFINE x == i - Len(wire)
      <4>1. x \in 1..Len(a) /\ v[i] = u[x]
        BY <3>1
      <4> HIDE DEF x
      <4>2. a[x] = "ask"
        BY <1>9, <4>1
      <4>3. x = Len(a)
        BY <1>18, <1>6, <4>1, <4>2 DEF Plain
      <4> QED
        BY <4>3 DEF x
    <3> QED
      BY <1>6, <1>10, <3>2
  <2>2. ~ \E i \in DOMAIN output : output[i].kind = "ask"
    BY <1>11, LogLineIsALine
  <2> QED
    BY <1>5, <1>10, <2>1, <2>2 DEF QuestionComesLast
<1>17. Taken'
  <2>1. \A i \in DOMAIN input' : input'[i] = Key
    BY <1>4
  <2>2. TailsToCome'
    <3> SUFFICES ASSUME NEW i \in 1..Len(a)
                 PROVE  /\ u[i].kind # "more"
                        /\ u[i].kind = "pager" => i < Len(u) /\ u[i + 1].kind = "tail"
                        /\ u[i].kind = "tail" => i = 1 \/ u[i - 1].kind = "pager"
      BY <1>8, <1>9 DEF TailsToCome
    <3>1. u[i].kind = a[i] /\ a[i] # "more"
      BY <1>6, <1>9, <1>18 DEF Plain
    <3>2. u[i].kind = "pager" => i < Len(u) /\ u[i + 1].kind = "tail"
      <4> SUFFICES ASSUME a[i] = "pager" PROVE i < Len(u) /\ u[i + 1].kind = "tail"
        BY <3>1
      <4>1. i < Len(a) /\ a[i + 1] = "tail"
        BY <1>0, <1>6 DEF TailsFollow
      <4>2. i + 1 \in 1..Len(a)
        BY <1>6, <4>1
      <4> QED
        BY <1>6, <1>9, <4>1, <4>2
    <3>3. u[i].kind = "tail" => i = 1 \/ u[i - 1].kind = "pager"
      <4> SUFFICES ASSUME a[i] = "tail", i # 1 PROVE u[i - 1].kind = "pager"
        BY <3>1
      <4>1. i - 1 \in 1..Len(a)
        BY <1>6
      <4>2. a[i - 1] = "pager"
        BY <1>0, <1>6 DEF TailsFollow
      <4> QED
        BY <1>9, <4>1, <4>2
    <3> QED
      BY <3>1, <3>2, <3>3
  <2>3. Last(answering').kind \in {"prompt", "ask"}
    BY <1>0, <1>6, <1>8
  <2>4. HeldPieceIsSeen'
    <3>1. Head(u).kind = a[1] /\ 1 \in DOMAIN a
      <4>1. Head(u) = u[1] /\ Len(u) \in Nat \ {0}
        BY <1>6, HeadAndTail, Zenon
      <4>2. 1 \in 1..Len(a)
        BY <1>6, <4>1
      <4> QED
        BY <1>6, <1>9, <4>1, <4>2
    <3>2. a[1] # "tail"
      <4>1. 1 \in DOMAIN a /\ TailsFollow(a)
        BY <1>0, <3>1
      <4> QED
        BY <4>1 DEF TailsFollow
    <3> QED
      BY <1>1, <1>8, <3>1, <3>2 DEF HeldPieceIsSeen, AtTail
  <2> QED
    BY <1>0, <1>5, <1>7, <1>12, <1>13, <1>15, <1>16, <2>1, <2>2, <2>3, <2>4 DEF Taken
<1> QED
  BY <1>1, <1>3, <1>5, <1>17 DEF OnCourse


(***************************************************************************)
(* What a step does to the results, to what is typed and to what is given. *)
(***************************************************************************)
Answered(r) ==
  /\ r.status = "ok" /\ pc = "waiting" /\ UNCHANGED <<input, given>>
  /\ \E text \in Seq(Piece) :
       /\ r.lines = clean_command_output(text)
       /\ OnCourse => Whole(text) /\ \A i \in DOMAIN input : input[i] = Key

LEMMA AnsweredStep ==
  ASSUME TypeOK, pc = "waiting", NEW text \in Seq(Piece), Returns("ok", text), wire' \in Seq(Piece),
         UNCHANGED <<input, answering, holding, silent, given, logs>>,
         OnCourse => Whole(text) /\ \A i \in DOMAIN input : input[i] = Key
  PROVE  \E r \in Results : results' = results \o <<r>> /\ Answered(r)
<1>1. SwitchTypes' /\ Len(given') = Len(given)
  BY DEF SwitchTypes, TypeOK, Returns
<1>2. "ok" \in Statuses
  BY DEF Statuses
<1> DEFINE r == [status |-> "ok", lines |-> clean_command_output(text)]
<1>3. results' = results \o <<r>>
  BY <1>1, <1>2, ReturnTypes, Zenon
<1>4. r \in Results /\ r.status = "ok" /\ r.lines = clean_command_output(text)
  BY <1>2, CleanedType DEF Results
<1> HIDE DEF r
<1>5. Answered(r)
  BY <1>4 DEF Answered
<1> QED
  BY <1>3, <1>4, <1>5

LEMMA Outcome ==
  ASSUME TypeOK, [Next]_vars
  PROVE  \/ results' = results /\ (pc = "waiting" => pc' = "waiting" /\ next' = next)
         \/ \E r \in Results :
              /\ results' = results \o <<r>>
              /\ (r.status = "skipped" /\ Skip) \/ (r.status = "failed" /\ TimeOut) \/ Answered(r)
<1>0. output \in Seq(Piece) /\ results \in Seq(Results)
  BY DEF TypeOK, Results, Statuses
<1>1. CASE Receive
  <2>1. PICK n \in 1..Len(wire) :
          pc = "waiting" /\ wire' = SubSeq(wire, n + 1, Len(wire)) /\ ReadOn(n)
    BY <1>1, ReceiveCases
  <2> DEFINE text == output \o SubSeq(wire, 1, n)
  <2>2. wire' \in Seq(Piece) /\ text \in Seq(Piece)
    BY <2>1, ReadTypes, Zenon
  <2>3. CASE /\ Asks(text) /\ Returns("ok", text)
             /\ UNCHANGED <<input, answering, holding, silent, given, logs>>
    <3>1. OnCourse => Whole(text) /\ \A i \in DOMAIN input : input[i] = Key
      <4> SUFFICES ASSUME OnCourse PROVE Whole(text) /\ \A i \in DOMAIN input : input[i] = Key
        OBVIOUS
      <4>1. CASE Taken
        BY <2>3, <4>1, AskedAnswer, Zenon DEF Taken
      <4>2. CASE NotTaken
        <5> DEFINE A == {LogLine}
        <5>1. (\A i \in DOMAIN output : output[i] \in A) /\ (\A i \in DOMAIN wire : wire[i] \in A)
          BY <4>2 DEF NotTaken
        <5>2. n \in 0..Len(wire)
          BY DEF TypeOK
        <5> HIDE DEF A
        <5>3. (\A i \in DOMAIN text : text[i] \in A) /\ DOMAIN text = 1..Len(text)
          BY <5>1, <5>2, TextOfCommand, Zenon
        <5> HIDE DEF text
        <5>4. text # <<>> /\ Last(text).kind = "ask"
          BY <2>3 DEF Asks
        <5>5. Len(text) \in Nat \ {0} /\ Last(text) = text[Len(text)]
          BY <2>2, <5>4, FrontAndLast, Zenon
        <5>6. Len(text) \in DOMAIN text
          BY <5>3, <5>5
        <5>7. Last(text) = LogLine
          BY <5>3, <5>5, <5>6 DEF A
        <5> QED
          BY <5>4, <5>7, LogLineIsALine
      <4> QED
        BY <2>1, <4>1, <4>2 DEF OnCourse
    <3> HIDE DEF text
    <3> QED
      BY <2>1, <2>2, <2>3, <3>1, AnsweredStep, Zenon
  <2>4. CASE UNCHANGED <<results, pc, next>>
    BY <2>4
  <2> QED
    BY <2>1, <2>3, <2>4 DEF ReadOn, AnswersKey
<1>2. CASE Confirm \/ IdleSettle
  <2>1. CASE /\ pc = "waiting" /\ wire = <<>> /\ Quiet /\ (LooksFinished(output) \/ Asks(output))
             /\ Returns("ok", output) /\ UNCHANGED switch
    <3>1. OnCourse => Whole(output) /\ \A i \in DOMAIN input : input[i] = Key
      BY <2>1, QuietAnswer DEF Settled
    <3>2. wire' \in Seq(Piece) /\ UNCHANGED <<input, answering, holding, silent, given, logs>>
      BY <2>1 DEF switch, TypeOK
    <3> QED
      BY <1>0, <2>1, <3>1, <3>2, AnsweredStep, Zenon
  <2>2. CASE UNCHANGED <<results, pc, next>>
    BY <2>2
  <2> QED
    BY <1>2, <2>1, <2>2 DEF Confirm, IdleSettle, AnswersKey, TypeOK
<1>3. CASE Skip
  <2> DEFINE r == [status |-> "skipped", lines |-> <<>>]
  <2>1. r \in Results /\ r.status = "skipped"
    BY EmptySeq DEF Results, Statuses
  <2>2. results' = Append(results, r)
    BY <1>3 DEF Skip
  <2> HIDE DEF r
  <2>3. results' = results \o <<r>>
    BY <1>0, <2>1, <2>2, OneMore
  <2> QED
    BY <1>3, <2>1, <2>3
<1>4. CASE TimeOut
  <2>1. <<>> \in Seq(Piece) /\ "failed" \in Statuses /\ pc = "waiting" /\ Returns("failed", <<>>)
        /\ SwitchTypes' /\ Len(given') = Len(given)
    BY <1>4, EmptySeq DEF Statuses, TimeOut, SwitchTypes, TypeOK, Returns, switch
  <2> DEFINE r == [status |-> "failed", lines |-> clean_command_output(<<>>)]
  <2>2. results' = results \o <<r>>
    BY <2>1, ReturnTypes, Zenon
  <2>3. r \in Results /\ r.status = "failed"
    BY <2>1, CleanedType DEF Results
  <2> HIDE DEF r
  <2> QED
    BY <1>4, <2>2, <2>3
<1>5. CASE execute_command \/ Finish \/ TakesCommand \/ TakesKey \/ Writes \/ Logs \/ Pauses \/ UNCHANGED vars
  BY <1>5 DEF execute_command, Finish, TakesCommand, TakesKey, Writes, Logs, Pauses, vars, client
<1> QED
  BY <1>1, <1>2, <1>3, <1>4, <1>5
     DEF Next, Client, Switch, Stopped, ssh_wait_for_prompt, serial_wait_for_prompt

LEMMA OnCourseStep ==
  ASSUME TypeOK, OnCourse, PlainSoFar, [Next]_vars, ~ TimeOut
  PROVE  OnCourse'
<1>1. CASE UNCHANGED vars
  BY <1>1 DEF vars, client, switch, OnCourse, Settled, NotTaken, Taken, AnswerIsKept, OfThisCommand,
              KeyComesFirst, QuestionComesLast, HeldPieceIsSeen, MarkerUnread, KeyUnread, AtTail,
              TailsToCome, OnTheWay
<1> QED
  BY <1>1, ReceiveStep, ConfirmStep, IdleStep, ExecuteStep, SkipStep, FinishStep, TakesKeyStep,
     WritesStep, LogsStep, PausesStep, TakesCommandStep
     DEF Next, Client, Switch, Stopped, ssh_wait_for_prompt, serial_wait_for_prompt

\* The results that there are stay as they are.
LEMMA ResultsStay ==
  ASSUME TypeOK, NEW r \in Results, results' = results \o <<r>>
  PROVE  /\ DOMAIN results = 1..(next - 1) /\ DOMAIN results' = 1..next /\ next \in Nat \ {0}
         /\ \A i \in DOMAIN results : results'[i] = results[i]
         /\ results'[next] = r
<1>1. results \in Seq(Results) /\ Len(results) = next - 1 /\ next \in Nat \ {0}
  BY ScriptAssumption DEF TypeOK, Results, Statuses
<1> DEFINE w == results \o <<r>>
<1>2. /\ w \in Seq(Results) /\ Len(w) = Len(results) + 1 /\ Len(results) \in Nat
      /\ w[Len(results) + 1] = r /\ \A i \in 1..Len(results) : w[i] = results[i]
  BY <1>1, OneMore
<1> HIDE DEF w
<1>3. DOMAIN results = 1..Len(results) /\ DOMAIN w = 1..(Len(results) + 1)
  BY <1>1, <1>2, LenProperties
<1>4. Len(results) + 1 = next
  BY <1>1
<1> QED
  BY <1>1, <1>2, <1>3, <1>4 DEF w

\* The script stays, and is gone through from its beginning.
LEMMA ScriptStays ==
  ASSUME TypeOK, [Next]_vars
  PROVE  script' = script /\ next' \in {next, next + 1} /\ next \in Nat /\ DOMAIN script \subseteq Nat
<1>1. next \in Nat /\ DOMAIN script \subseteq Nat
  BY ScriptAssumption DEF TypeOK
<1>2. CASE Receive
  <2>1. PICK n \in 1..Len(wire) : ReadOn(n)
    BY <1>2, ReceiveCases
  <2> QED
    BY <1>1, <2>1 DEF ReadOn, AnswersKey, Returns
<1>3. CASE IdleSettle \/ Confirm \/ TimeOut
  BY <1>1, <1>3 DEF IdleSettle, Confirm, TimeOut, AnswersKey, Returns
<1>4. CASE execute_command \/ Skip \/ Finish
  BY <1>1, <1>4 DEF execute_command, Skip, Finish
<1>5. CASE TakesCommand \/ TakesKey \/ Writes \/ Logs \/ Pauses \/ UNCHANGED vars
  BY <1>1, <1>5 DEF TakesCommand, TakesKey, Writes, Logs, Pauses, vars, client
<1> QED
  BY <1>2, <1>3, <1>4, <1>5
     DEF Next, Client, Switch, Stopped, ssh_wait_for_prompt, serial_wait_for_prompt

LEMMA ShellStep == ASSUME TypeOK, ShellInv, [Next]_vars PROVE ShellInv'
<1> SUFFICES ASSUME NobodyFailed', PlainSoFar' PROVE OnCourse'
  BY DEF ShellInv
<1>0. PlainSoFar
  <2>1. script' = script /\ next' \in {next, next + 1} /\ next \in Nat /\ DOMAIN script \subseteq Nat
    BY ScriptStays
  <2>2. \A i \in DOMAIN script : i <= next => i <= next' /\ IsPlain(i)' = IsPlain(i)
    BY <2>1 DEF IsPlain
  <2> QED
    BY <2>1, <2>2 DEF PlainSoFar
<1>1. CASE results' = results /\ (pc = "waiting" => pc' = "waiting")
  <2>1. ~ TimeOut
    BY <1>1 DEF TimeOut, Returns
  <2>2. NobodyFailed
    BY <1>1 DEF NobodyFailed
  <2> QED
    BY <1>0, <2>1, <2>2, OnCourseStep DEF ShellInv
<1>2. ASSUME NEW r \in Results, results' = results \o <<r>>,
             (r.status = "skipped" /\ Skip) \/ (r.status = "failed" /\ TimeOut) \/ Answered(r)
      PROVE  OnCourse'
  <2>1. /\ DOMAIN results = 1..(next - 1) /\ DOMAIN results' = 1..next /\ next \in Nat \ {0}
        /\ \A i \in DOMAIN results : results'[i] = results[i]
        /\ results'[next] = r
    BY <1>2, ResultsStay
  <2>2. NobodyFailed /\ r.status # "failed"
    BY <2>1 DEF NobodyFailed
  <2>3. ~ TimeOut
    <3> SUFFICES ASSUME TimeOut PROVE FALSE
      OBVIOUS
    <3>1. results' = Append(results, [status |-> "failed", lines |-> clean_command_output(<<>>)])
      BY DEF TimeOut, Returns
    <3> DEFINE f == [status |-> "failed", lines |-> clean_command_output(<<>>)]
    <3>2. f \in Results /\ f.status = "failed"
      BY EmptySeq, CleanedType DEF Results, Statuses
    <3>3. results \in Seq(Results)
      BY DEF TypeOK, Results, Statuses
    <3> HIDE DEF f
    <3>4. results' = results \o <<f>>
      BY <3>1, <3>2, <3>3, OneMore DEF f
    <3>5. results'[next] = f
      BY <3>2, <3>4, ResultsStay
    <3> QED
      BY <2>1, <2>2, <3>2, <3>5
  <2> QED
    BY <1>0, <2>2, <2>3, OnCourseStep DEF ShellInv
<1> QED
  BY <1>1, <1>2, Outcome

(***************************************************************************)
(* Late commands.                                                          *)
(***************************************************************************)
Excused(k) ==
  \/ k = Key
  \/ pc = "waiting" /\ k = next
  \/ \E j \in DOMAIN results : j <= k /\ results[j].status = "failed"
  \/ \E j \in 1..k : ~ IsPlain(j)

LEMMA ExcusedStep ==
  ASSUME TypeOK, ShellInv, [Next]_vars, NEW i \in DOMAIN input, NEW k, k = input[i], Excused(k)
  PROVE  \/ k = Key
         \/ pc' = "waiting" /\ k = next'
         \/ \E j \in DOMAIN results' : j <= k /\ results'[j].status = "failed"
         \/ \E j \in 1..k : ~ IsPlain(j)'
<1>0. script' = script /\ \A j : IsPlain(j)' = IsPlain(j)
  BY ScriptStays DEF IsPlain
<1>1. CASE results' = results /\ (pc = "waiting" => pc' = "waiting" /\ next' = next)
  BY <1>0, <1>1 DEF Excused
<1>3. CASE \E j \in 1..k : ~ IsPlain(j)
  BY <1>0, <1>3
<1>2. ASSUME NEW r \in Results, results' = results \o <<r>>,
             (r.status = "skipped" /\ Skip) \/ (r.status = "failed" /\ TimeOut) \/ Answered(r),
             k # Key, ~ \E j \in 1..k : ~ IsPlain(j)
      PROVE  \E j \in DOMAIN results' : j <= k /\ results'[j].status = "failed"
  <2>1. /\ DOMAIN results = 1..(next - 1) /\ DOMAIN results' = 1..next /\ next \in Nat \ {0}
        /\ \A j \in DOMAIN results : results'[j] = results[j]
        /\ results'[next] = r
    BY <1>2, ResultsStay
  <2>2. DOMAIN results \subseteq DOMAIN results' /\ next \in DOMAIN results'
    BY <2>1
  <2>3. CASE \E j \in DOMAIN results : j <= k /\ results[j].status = "failed"
    BY <2>1, <2>2, <2>3
  <2>4. CASE pc = "waiting" /\ k = next
    <3>1. CASE r.status = "failed"
      BY <2>1, <2>2, <2>4, <3>1
    <3>2. CASE Answered(r)
      <4>1. ~ OnCourse
        BY <1>2, <3>2 DEF Answered
      <4>4. PlainSoFar
        <5>1. \A j \in DOMAIN script : j <= next => j \in 1..k
          <6>1. script \in Seq([kind : DOMAIN AnswersTo, tolerated : BOOLEAN])
            BY ScriptAssumption DEF TypeOK
          <6>2. DOMAIN script = 1..Len(script)
            BY <6>1, LenProperties, Zenon
          <6> QED
            BY <2>1, <2>4, <6>2
        <5> QED
          BY <1>2, <5>1 DEF PlainSoFar
      <4>2. PICK j \in DOMAIN results : results[j].status = "failed"
        BY <4>1, <4>4 DEF ShellInv, NobodyFailed
      <4>3. j <= next
        BY <2>1
      <4> QED
        BY <2>1, <2>2, <2>4, <4>2, <4>3
    <3> QED
      BY <1>2, <2>4, <3>1, <3>2 DEF Skip
  <2> QED
    BY <1>2, <2>3, <2>4 DEF Excused
<1> QED
  BY <1>1, <1>2, <1>3, Outcome

\* What is typed, was there, is a key or is the next command.
LEMMA InputStep ==
  ASSUME TypeOK, [Next]_vars, NEW i \in DOMAIN input'
  PROVE  \/ \E j \in DOMAIN input : input'[i] = input[j]
         \/ input'[i] = Key
         \/ input'[i] = next' /\ pc' = "waiting"
<1>0. input \in Seq(0..Len(script)) /\ DOMAIN input = 1..Len(input) /\ Len(input) \in Nat
  BY DEF TypeOK
<1>1. CASE input' = input
  BY <1>1
<1>2. CASE input # <<>> /\ input' = Tail(input)
  <2> DEFINE U == 0..Len(script)
             t == Tail(input)
  <2>1. input \in Seq(U)
    BY <1>0
  <2> HIDE DEF U
  <2>2. /\ t \in Seq(U) /\ Len(t) = Len(input) - 1
        /\ \A j \in 1..(Len(input) - 1) : t[j] = input[j + 1]
    BY <1>2, <2>1, HeadAndTail, Zenon
  <2> HIDE DEF t
  <2>3. DOMAIN t = 1..(Len(input) - 1)
    BY <2>2, LenProperties
  <2>4. i \in 1..(Len(input) - 1) /\ i + 1 \in DOMAIN input
    BY <1>0, <1>2, <2>3 DEF t
  <2>5. input'[i] = input[i + 1]
    BY <1>2, <2>2, <2>4 DEF t
  <2> QED
    BY <2>4, <2>5
<1>3. ASSUME NEW k \in 0..Len(script), input' = Append(input, k)
      PROVE  (\E j \in DOMAIN input : input'[i] = input[j]) \/ input'[i] = k
  <2> DEFINE U == 0..Len(script)
             w == input \o <<k>>
  <2>1. input \in Seq(U) /\ k \in U
    BY <1>0
  <2> HIDE DEF U
  <2>2. /\ w \in Seq(U) /\ Len(w) = Len(input) + 1 /\ w[Len(input) + 1] = k
        /\ \A j \in 1..Len(input) : w[j] = input[j]
        /\ Append(input, k) = w
    BY <2>1, OneMore
  <2> HIDE DEF w
  <2>3. DOMAIN w = 1..(Len(input) + 1)
    BY <1>0, <2>2, LenProperties
  <2>4. i \in 1..(Len(input) + 1)
    BY <1>3, <2>2, <2>3
  <2>5. i \in 1..Len(input) \/ i = Len(input) + 1
    BY <1>0, <2>4
  <2> QED
    BY <1>0, <1>3, <2>2, <2>5
<1>4. Key \in 0..Len(script)
  <2>1. Len(script) \in Nat
    BY ScriptAssumption DEF TypeOK
  <2> QED
    BY <2>1 DEF Key
<1>5. CASE execute_command
  <2>1. next \in 0..Len(script) /\ input' = Append(input, next) /\ next' = next /\ pc' = "waiting"
    BY <1>5, ScriptAssumption DEF execute_command, TypeOK
  <2> QED
    BY <1>3, <2>1
<1>6. CASE Receive \/ IdleSettle
  <2>1. input' = input \/ input' = Append(input, Key)
    <3>1. CASE Receive
      <4>1. PICK n \in 1..Len(wire) : ReadOn(n)
        BY <3>1, ReceiveCases
      <4> QED
        BY <4>1 DEF ReadOn, AnswersKey
    <3>2. CASE IdleSettle
      BY <3>2 DEF IdleSettle, AnswersKey, switch
    <3> QED
      BY <1>6, <3>1, <3>2
  <2> QED
    BY <1>1, <1>3, <1>4, <2>1
<1>7. CASE TakesCommand \/ TakesKey
  BY <1>2, <1>7 DEF TakesCommand, TakesKey
<1>8. CASE Confirm \/ TimeOut \/ Skip \/ Finish \/ Writes \/ Logs \/ Pauses \/ UNCHANGED vars
  BY <1>1, <1>8 DEF Confirm, TimeOut, Skip, Finish, Writes, Logs, Pauses, vars, switch
<1> QED
  BY <1>5, <1>6, <1>7, <1>8
     DEF Next, Client, Switch, Stopped, ssh_wait_for_prompt, serial_wait_for_prompt

LEMMA LateStep == ASSUME TypeOK, ShellInv, LateCommands, [Next]_vars PROVE LateCommands'
<1> SUFFICES ASSUME NEW i \in DOMAIN input'
             PROVE  \/ input'[i] = Key
                    \/ pc' = "waiting" /\ input'[i] = next'
                    \/ \E j \in DOMAIN results' : j <= input'[i] /\ results'[j].status = "failed"
                    \/ \E j \in 1..input'[i] : ~ IsPlain(j)'
  BY DEF LateCommands
<1>1. ASSUME NEW j \in DOMAIN input, input'[i] = input[j]
      PROVE  \/ input'[i] = Key
             \/ pc' = "waiting" /\ input'[i] = next'
             \/ \E x \in DOMAIN results' : x <= input'[i] /\ results'[x].status = "failed"
             \/ \E x \in 1..input'[i] : ~ IsPlain(x)'
  <2> DEFINE k == input[j]
  <2>1. Excused(k)
    BY DEF LateCommands, Excused
  <2> HIDE DEF k
  <2>2. \/ k = Key
        \/ pc' = "waiting" /\ k = next'
        \/ \E x \in DOMAIN results' : x <= k /\ results'[x].status = "failed"
        \/ \E x \in 1..k : ~ IsPlain(x)'
    BY <2>1, ExcusedStep DEF k
  <2> QED
    BY <1>1, <2>2 DEF k
<1> QED
  BY <1>1, InputStep

(***************************************************************************)
(* The answers.                                                            *)
(***************************************************************************)
\* The answer to an earlier command is chosen again only if the command is late.
LEMMA GivenStays ==
  ASSUME TypeOK, [Next]_vars, NEW i \in DOMAIN results
  PROVE  given'[i] = given[i] \/ (TakesCommand /\ Head(input) = i)
<1>0. /\ i \in 1..(next - 1) /\ next \in Nat \ {0} /\ given \in Seq(Seq(Kind))
      /\ next - 1 <= Len(given) /\ Len(given) \in Nat
  <2>1. DOMAIN results = 1..(next - 1) /\ next \in Nat \ {0} /\ given \in Seq(Seq(Kind))
    <3>1. results \in Seq(Results) /\ Len(results) = next - 1
      BY DEF TypeOK, Results, Statuses
    <3> QED
      BY <3>1, ScriptAssumption, LenProperties DEF TypeOK
  <2> QED
    BY <2>1 DEF TypeOK
<1>1. CASE given' = given
  BY <1>1
<1>2. CASE given' = Append(given, <<>>)
  <2> DEFINE S == Seq(Kind)
             e == <<>>
  <2>1. e \in S /\ given \in Seq(S) /\ given' = Append(given, e)
    BY <1>0, <1>2, EmptySeq
  <2> HIDE DEF S, e
  <2>2. Append(given, e) = given \o <<e>> /\ \A j \in 1..Len(given) : (given \o <<e>>)[j] = given[j]
    BY <2>1, OneMore
  <2>3. i \in 1..Len(given)
    BY <1>0
  <2> QED
    BY <2>1, <2>2, <2>3
<1>3. CASE TakesCommand /\ Head(input) # i
  <2>1. PICK a : given' = [given EXCEPT ![Head(input)] = a]
    BY <1>3 DEF TakesCommand
  <2>2. i \in DOMAIN given
    BY <1>0
  <2> QED
    BY <1>3, <2>1, <2>2
<1>4. CASE Receive
  <2>1. PICK n \in 1..Len(wire) : ReadOn(n)
    BY <1>4, ReceiveCases
  <2> QED
    BY <1>1, <2>1 DEF ReadOn, AnswersKey
<1>5. CASE execute_command \/ Skip
  BY <1>2, <1>5 DEF execute_command, Skip
<1>6. CASE IdleSettle
  BY <1>1, <1>6 DEF IdleSettle, AnswersKey, switch
<1>7. CASE Confirm \/ TimeOut \/ Finish \/ TakesKey \/ Writes \/ Logs \/ Pauses \/ UNCHANGED vars
  BY <1>1, <1>7 DEF Confirm, TimeOut, Finish, TakesKey, Writes, Logs, Pauses, vars, switch
<1> QED
  BY <1>3, <1>4, <1>5, <1>6, <1>7
     DEF Next, Client, Switch, Stopped, ssh_wait_for_prompt, serial_wait_for_prompt

\* Then the command comes after one that failed or whose answer is not plain.
LEMMA NotLate ==
  ASSUME TypeOK, LateCommands, TakesCommand, Head(input) \in DOMAIN results
  PROVE  \/ \E j \in DOMAIN results : j <= Head(input) /\ results[j].status = "failed"
         \/ \E j \in 1..Head(input) : ~ IsPlain(j)
<1>1. input # <<>> /\ Head(input) # Key /\ input \in Seq(0..Len(script))
  BY DEF TakesCommand, TypeOK
<1>2. Head(input) = input[1] /\ 1 \in DOMAIN input
  <2>1. Head(input) = input[1] /\ Len(input) \in Nat \ {0}
    BY <1>1, HeadAndTail, Zenon
  <2>2. DOMAIN input = 1..Len(input)
    BY <1>1, LenProperties
  <2> QED
    BY <2>1, <2>2
<1>3. Head(input) # next
  <2>1. results \in Seq(Results) /\ Len(results) = next - 1 /\ next \in Nat
    BY ScriptAssumption DEF TypeOK, Results, Statuses
  <2>2. DOMAIN results = 1..(next - 1)
    BY <2>1, LenProperties
  <2> QED
    BY <2>1, <2>2
<1> QED
  BY <1>1, <1>2, <1>3 DEF LateCommands

\* AnswerIsWhole, of one result.
WholeResult(i, r, answer) ==
  /\ \A l \in Range(r.lines) : l.of \in {0, i}
  /\ Content(r.lines) = Content(PiecesOf(i, answer))

LEMMA AnswersStep ==
  ASSUME TypeOK, LateCommands, ShellInv, AnswerIsWhole, [Next]_vars
  PROVE  AnswerIsWhole'
<1> SUFFICES ASSUME NEW i \in DOMAIN results', results'[i].status = "ok",
                    \A j \in 1..i : IsPlain(j)',
                    \A j \in 1..(i - 1) : results'[j].status # "failed"
             PROVE  WholeResult(i, results'[i], given'[i])
  BY DEF AnswerIsWhole, WholeResult, Content
<1>0. DOMAIN results = 1..(next - 1) /\ next \in Nat \ {0}
  <2>1. results \in Seq(Results) /\ Len(results) = next - 1 /\ next \in Nat \ {0}
    BY ScriptAssumption DEF TypeOK, Results, Statuses
  <2> QED
    BY <2>1, LenProperties
<1>4. \A j \in 1..i : IsPlain(j)
  <2>1. script' = script
    BY ScriptStays
  <2> QED
    BY <2>1 DEF IsPlain
<1>1. ASSUME i \in DOMAIN results, \A j \in DOMAIN results : results'[j] = results[j]
      PROVE  WholeResult(i, results'[i], given'[i])
  <2>1. \A j \in 1..(i - 1) : j \in DOMAIN results
    BY <1>0, <1>1
  <2>2. results[i].status = "ok" /\ \A j \in 1..(i - 1) : results[j].status # "failed"
    BY <1>1, <2>1
  <2>3. WholeResult(i, results[i], given[i])
    BY <1>1, <1>4, <2>2 DEF AnswerIsWhole, WholeResult
  <2>4. given'[i] = given[i]
    <3> SUFFICES ASSUME TakesCommand, Head(input) = i PROVE FALSE
      BY <1>1, GivenStays
    <3>1. PICK j \in DOMAIN results : j <= i /\ results[j].status = "failed"
      BY <1>1, <1>4, NotLate
    <3>2. j = i \/ j \in 1..(i - 1)
      BY <1>0, <1>1, <3>1
    <3> QED
      BY <2>2, <3>1, <3>2
  <2> QED
    BY <1>1, <2>3, <2>4
<1>2. CASE results' = results
  BY <1>1, <1>2
<1>3. ASSUME NEW r \in Results, results' = results \o <<r>>,
             (r.status = "skipped" /\ Skip) \/ (r.status = "failed" /\ TimeOut) \/ Answered(r)
      PROVE  WholeResult(i, results'[i], given'[i])
  <2>1. /\ DOMAIN results' = 1..next /\ results'[next] = r
        /\ \A j \in DOMAIN results : results'[j] = results[j]
    BY <1>3, ResultsStay
  <2>2. CASE i \in DOMAIN results
    BY <1>1, <2>1, <2>2
  <2>3. CASE i = next
    <3>1. Answered(r)
      BY <1>3, <2>1, <2>3
    <3>2. NobodyFailed /\ PlainSoFar
      <4>1. NobodyFailed
        BY <1>0, <2>1, <2>3 DEF NobodyFailed
      <4>2. \A j \in DOMAIN script : j <= next => j \in 1..i
        BY <2>3, ScriptAssumption DEF TypeOK
      <4> QED
        BY <1>4, <4>1, <4>2 DEF PlainSoFar
    <3>3. PICK text \in Seq(Piece) : r.lines = clean_command_output(text) /\ Whole(text)
      BY <3>1, <3>2 DEF Answered, ShellInv
    <3>4. given' = given /\ pc = "waiting"
      BY <3>1 DEF Answered
    <3> DEFINE a == given[next]
    <3>5. a \in Seq(Kind)
      <4>1. given \in Seq(Seq(Kind)) /\ next \in 1..Len(given)
        BY <1>0, <3>4 DEF TypeOK
      <4> DEFINE U == Seq(Kind)
      <4>2. given \in Seq(U)
        BY <4>1
      <4> HIDE DEF U
      <4>3. given[next] \in U
        BY <4>1, <4>2, ElementOfSeq
      <4> QED
        BY <4>3 DEF U
    <3>6. /\ a # <<>> /\ Last(a) \in {"prompt", "ask"}
          /\ \A x \in 1..Len(text) : text[x].of = next \/ text[x] = LogLine
          /\ Keep(text, Shown) = Keep(PiecesOf(next, a), Shown)
      BY <3>3 DEF Whole
    <3> HIDE DEF a
    <3>7. /\ \A l \in Range(clean_command_output(text)) : l.of \in {0, next}
          /\ Content(clean_command_output(text)) = Content(PiecesOf(next, a))
      BY <1>0, <3>3, <3>5, <3>6, CleanedAnswer, Zenon
    <3> QED
      BY <2>1, <2>3, <3>3, <3>4, <3>7 DEF WholeResult, a
  <2>4. i \in DOMAIN results \/ i = next
    BY <1>0, <2>1
  <2> QED
    BY <2>2, <2>3, <2>4
<1> QED
  BY <1>2, <1>3, Outcome

LEMMA InitEstablishes == Init => IInv
<1> SUFFICES ASSUME Init PROVE IInv
  OBVIOUS
<1>1. <<>> \in Seq(Piece) /\ <<>> \in Seq(Results) /\ <<>> \in Seq(0..Len(script))
      /\ <<>> \in Seq(Seq(Kind)) /\ Len(<<>>) = 0
  BY EmptySeq
<1>2. TypeOK
  <2>1. Len(script) \in Nat
    BY ScriptAssumption DEF Init
  <2>2. next \in 1..(Len(script) + 1)
    BY <2>1 DEF Init
  <2>3. /\ results \in Seq(Results) /\ Len(results) = next - 1 /\ input \in Seq(0..Len(script))
        /\ given \in Seq(Seq(Kind)) /\ Len(given) = IF pc = "waiting" THEN next ELSE next - 1
    BY <1>1 DEF Init
  <2>4. output \in Seq(Piece) /\ answering \in Seq(Piece) /\ wire \in Seq(Piece)
    BY <1>1 DEF Init
  <2>5. results \in Seq([status : {"ok", "skipped", "failed"}, lines : Seq(Piece)])
    BY <2>3 DEF Results, Statuses
  <2> QED
    BY <2>2, <2>3, <2>4, <2>5, LimitAssumption DEF Init, TypeOK
<1>3. LateCommands /\ AnswerIsWhole
  BY DEF Init, LateCommands, AnswerIsWhole
<1>4. ShellInv
  BY DEF Init, ShellInv, OnCourse, Settled
<1> QED
  BY <1>2, <1>3, <1>4 DEF IInv

\* IInv is inductive: as long as no command has failed and the answers so far were
\* plain, what the client has read, what it has not read and what the switch has not
\* written make up the answer, but for the pagers, whatever execute_command,
\* wait_for_prompt and the switch do, and wherever a read ends within a line.
THEOREM ShellInvariance == Spec => []IInv
<1>1. Init => IInv
  BY InitEstablishes
<1>2. IInv /\ [Next]_vars => IInv'
  BY TypesStep, LateStep, ShellStep, AnswersStep DEF IInv
<1> QED
  BY <1>1, <1>2, PTL DEF Spec

\* The answer that wait_for_prompt returns is the one to the command that was sent, and
\* nothing of it is missing, for every script, every way of paging the answers and of
\* cutting them into reads, within lines too, and any number of log lines, when these
\* answers are plain and no command before failed.
THEOREM CommandsReturnTheirAnswers == Spec => []AnswerIsWhole
<1>1. IInv => AnswerIsWhole
  BY DEF IInv
<1> QED
  BY <1>1, ShellInvariance, PTL


(***************************************************************************)
(* Connecting: ConnectInv is an inductive invariant of SshConnect.  The    *)
(* client that runs the commands is the one that connected; its two        *)
(* specifications share no variable.                                       *)
(***************************************************************************)
LEMMA ConnectInitEstablishes == ConnectInit => ConnectInv
BY ConnectAssumption
   DEF ConnectInit, ConnectInv, AddressIsRestored, LastForwardsLeadThere, SessionLeadsThere,
       NothingWithoutAuth

\* An attempt that ends moves to the next one with the same forwards.
LEMMA EstablishStep == ASSUME ConnectInv, establish PROVE ConnectInv'
<1>1. /\ jump_hosts' = jump_hosts /\ has_auth' = has_auth /\ cutInTunnel' = cutInTunnel
      /\ session' = session /\ stage = "hop" /\ Hop' = Hop /\ Hop \in Nat
  BY DEF establish, AttemptEnds, ConnectInv, Hop
<1>2. Undisturbed' <=> Undisturbed
  BY <1>1 DEF Undisturbed
<1>3. Undisturbed => addr = "switch" /\ original = "switch"
  BY <1>1 DEF ConnectInv, AddressIsRestored
<1>4. LastForwardsLeadThere'
  <2> SUFFICES ASSUME Undisturbed, NEW id \in DOMAIN tasks', id[2] = Hop
               PROVE  tasks'[id].to = "switch"
    BY <1>1, <1>2 DEF LastForwardsLeadThere
  <2>1. CASE id = Id(hop)
    <3>1. hop = Hop
      BY <2>1 DEF Id
    <3>2. Forward(hop).to = "switch"
      BY <1>1, <1>3, <3>1 DEF Forward
    <3> QED
      BY <2>1, <3>2 DEF establish
  <2>2. CASE id # Id(hop)
    BY <2>2 DEF establish, ConnectInv, LastForwardsLeadThere
  <2> QED
    BY <2>1, <2>2
<1>5. AddressIsRestored'
  BY <1>1, <1>2, <1>3 DEF AddressIsRestored, establish, AttemptEnds, Undisturbed
<1>6. NothingWithoutAuth' /\ SessionLeadsThere'
  BY <1>1, <1>2 DEF ConnectInv, NothingWithoutAuth, SessionLeadsThere, establish, AttemptEnds
<1> QED
  BY <1>1, <1>4, <1>5, <1>6 DEF ConnectInv

\* The session that is made goes where the last forward of the chain goes.
LEMMA TargetStep == ASSUME ConnectInv, connect_target PROVE ConnectInv'
<1>1. UNCHANGED <<jump_hosts, has_auth, addr, original, attempt, tasks, cutInTunnel>>
      /\ Hop' = Hop /\ (Undisturbed' <=> Undisturbed)
  BY DEF connect_target, Hop, Undisturbed
<1>2. Undisturbed => Reached.to = "switch"
  <2>1. CASE jump_hosts = <<>>
    BY <2>1 DEF Reached
  <2>2. CASE jump_hosts # <<>>
    <3>1. Id(Hop) \in DOMAIN tasks /\ Id(Hop)[2] = Hop
      BY <2>2 DEF connect_target, Id
    <3> QED
      BY <2>2, <3>1 DEF ConnectInv, LastForwardsLeadThere, Reached
  <2> QED
    BY <2>1, <2>2
<1>3. SessionLeadsThere'
  BY <1>1, <1>2 DEF connect_target, SessionLeadsThere
<1> QED
  BY <1>1, <1>3 DEF connect_target, ConnectInv, AddressIsRestored, LastForwardsLeadThere,
                    NothingWithoutAuth

\* Forwards end, and the channel of the one in use may break.
LEMMA TasksStep ==
  ASSUME ConnectInv, NEW id \in Ids, TaskEnds(id) \/ ChannelEnds(id)
  PROVE  ConnectInv'
<1>1. /\ UNCHANGED <<jump_hosts, has_auth, session, cutInTunnel>>
      /\ Hop' = Hop /\ (Undisturbed' <=> Undisturbed)
  <2>1. UNCHANGED <<jump_hosts, has_auth, session, cutInTunnel>>
    BY DEF TaskEnds, ChannelEnds, AttemptEnds
  <2> QED
    BY <2>1 DEF Hop, Undisturbed
<1>2. LastForwardsLeadThere'
  <2>1. tasks' = [x \in DOMAIN tasks \ {id} |-> tasks[x]]
    BY DEF TaskEnds, ChannelEnds, Without
  <2>2. DOMAIN tasks' \subseteq DOMAIN tasks /\ \A x \in DOMAIN tasks' : tasks'[x] = tasks[x]
    BY <2>1
  <2> QED
    BY <1>1, <2>2 DEF ConnectInv, LastForwardsLeadThere
<1>3. AddressIsRestored' /\ NothingWithoutAuth' /\ SessionLeadsThere'
  BY <1>1 DEF TaskEnds, ChannelEnds, AttemptEnds, Restored, ConnectInv, AddressIsRestored,
              NothingWithoutAuth, SessionLeadsThere
<1> QED
  BY <1>1, <1>2, <1>3 DEF ConnectInv

LEMMA ConnectStep == ConnectInv /\ [ConnectNext]_connectVars => ConnectInv'
<1> SUFFICES ASSUME ConnectInv, [ConnectNext]_connectVars PROVE ConnectInv'
  OBVIOUS
<1> USE DEF ConnectInv, AddressIsRestored, LastForwardsLeadThere, SessionLeadsThere,
            NothingWithoutAuth, Undisturbed, Hop
<1>1. CASE connect_with_credentials
  BY <1>1 DEF connect_with_credentials, AttemptEnds
<1>2. CASE establish_fails
  BY <1>2 DEF establish_fails, AttemptEnds
<1>3. CASE target_fails
  BY <1>3 DEF target_fails, AttemptEnds, Restored
<1>4. CASE open_shell
  BY <1>4 DEF open_shell, Restored
<1>5. CASE connect_with_retry
  BY <1>5 DEF connect_with_retry
<1>6. CASE TimesOut
  BY <1>6 DEF TimesOut, AttemptEnds
<1>7. CASE disconnect
  BY <1>7 DEF disconnect
<1>8. CASE UNCHANGED connectVars
  BY <1>8 DEF connectVars
<1> QED
  BY <1>1, <1>2, <1>3, <1>4, <1>5, <1>6, <1>7, <1>8, EstablishStep, TargetStep, TasksStep
     DEF ConnectNext, Connects, ConnectStopped

\* The inductive invariant of the attempts, the chain and the forwards.
THEOREM ConnectInvariance == ConnectSpec => []ConnectInv
BY ConnectInitEstablishes, ConnectStep, PTL DEF ConnectSpec

\* connect_with_retry: whatever fails or is cut off at whatever hop, a connected
\* client talks to the switch, unless an attempt was cut off while it pointed
\* at its tunnel.
THEOREM ClientReachesTheSwitch == ConnectSpec => []ReachesTheSwitch
<1>1. ConnectInv => ReachesTheSwitch
  BY DEF ConnectInv, NothingWithoutAuth, SessionLeadsThere, Undisturbed,
         ReachesTheSwitch
<1> QED
  BY <1>1, ConnectInvariance, PTL
=============================================================================
