-------------------------- MODULE ApplyPipelineProofs --------------------------
(***************************************************************************)
(* IInv is an inductive invariant of ApplyPipeline, for every switch,      *)
(* every configuration and any number of failures, and the safety          *)
(* properties of the apply follow from it.  The proof has four parts: what *)
(* a command does to a switch (Follows), which commands a vendor's         *)
(* apply_diff is made of (Fits and Plan), that the operations keep IInv,   *)
(* and what the parsers find when there is nothing to do.                  *)
(***************************************************************************)
EXTENDS ApplyPipeline, FiniteSetTheorems, WellFoundedInduction, TLAPS

(***************************************************************************)
(* Numbers and lists: induction, what a list is, and what joining, walking *)
(* and sorting make of it.                                                 *)
(***************************************************************************)

\* A set of numbers has a smallest one.
LEMMA LeastNumber ==
  ASSUME NEW T, T \subseteq Nat, T # {}
  PROVE  \E x \in T : \A y \in T : ~ (y < x)
<1>1. IsWellFoundedOn(OpToRel(<, Nat), Nat)
  BY NatLessThanWellFounded, Zenon
<1>2. PICK x \in T : \A y \in T : <<y, x>> \notin OpToRel(<, Nat)
  BY <1>1, WFMin, Zenon
<1>3. \A y \in T : y < x => <<y, x>> \in OpToRel(<, Nat)
  BY Zenon DEF OpToRel
<1> QED
  BY <1>2, <1>3, Zenon

\* Induction, for a set of numbers: what it says of a recursive function is
\* proved of the set of those n for which it holds.
LEMMA Induction ==
  ASSUME NEW T, 0 \in T, \A n \in Nat : n \in T => n + 1 \in T
  PROVE  \A n \in Nat : n \in T
<1> SUFFICES ASSUME Nat \ T # {} PROVE FALSE
  OBVIOUS
<1>1. PICK x \in Nat \ T : \A y \in Nat \ T : ~ (y < x)
  BY LeastNumber
<1>2. x # 0 /\ x - 1 \in Nat /\ x - 1 < x /\ (x - 1) + 1 = x
  BY <1>1
<1> QED
  BY <1>1, <1>2

\* A list, whatever it holds.
IsList(s) == \E n \in Nat : DOMAIN s = 1..n

\* u is s followed by t.
IsJoin(u, s, t) == u = s \o t

\* Where the members of a joined list come from, by place.
LEMMA Joined ==
  ASSUME NEW s, NEW t, NEW u, u = s \o t, IsList(s), IsList(t)
  PROVE  /\ IsList(u) /\ Len(s) \in Nat /\ Len(t) \in Nat
         /\ DOMAIN s = 1..Len(s) /\ DOMAIN t = 1..Len(t)
         /\ DOMAIN u = 1..(Len(s) + Len(t))
         /\ \A i \in DOMAIN s : u[i] = s[i]
         /\ \A i \in DOMAIN t : Len(s) + i \in DOMAIN u /\ u[Len(s) + i] = t[i]
         /\ \A i \in DOMAIN u :
              \/ i \in DOMAIN s
              \/ i - Len(s) \in DOMAIN t /\ u[i] = t[i - Len(s)]
<1>1. PICK m \in Nat, n \in Nat : DOMAIN s = 1..m /\ DOMAIN t = 1..n
  BY DEF IsList
<1>2. Len(s) = m /\ Len(t) = n
  BY <1>1
<1>3. DOMAIN u = 1..(m + n)
  BY <1>1, <1>2
<1>4. /\ \A i \in 1..m : u[i] = s[i]
      /\ \A i \in 1..n : u[m + i] = t[i]
  BY <1>1, <1>2
<1>5. \A i \in 1..(m + n) : i \in 1..m \/ (i - m \in 1..n /\ u[i] = t[i - m])
  BY <1>1, <1>2
<1> QED
  <2>1. IsList(u)
    BY <1>3, m + n \in Nat DEF IsList
  <2>2. \A i \in 1..n : m + i \in 1..(m + n)
    OBVIOUS
  <2> QED
    BY <1>1, <1>2, <1>3, <1>4, <1>5, <2>1, <2>2

\* The same without the places.
LEMMA JoinedMembers ==
  ASSUME NEW s, NEW t, NEW u, IsJoin(u, s, t), IsList(s), IsList(t)
  PROVE  /\ IsList(u)
         /\ \A i \in DOMAIN s : \E j \in DOMAIN u : u[j] = s[i]
         /\ \A i \in DOMAIN t : \E j \in DOMAIN u : u[j] = t[i]
         /\ \A j \in DOMAIN u :
              \/ \E i \in DOMAIN s : u[j] = s[i]
              \/ \E i \in DOMAIN t : u[j] = t[i]
<1>1. \A i \in DOMAIN s : i \in DOMAIN u /\ u[i] = s[i]
  BY Joined DEF IsJoin
<1>2. \A i \in DOMAIN t : Len(s) + i \in DOMAIN u /\ u[Len(s) + i] = t[i]
  BY Joined DEF IsJoin
<1>3. \A i \in DOMAIN u :
              \/ i \in DOMAIN s
              \/ i - Len(s) \in DOMAIN t /\ u[i] = t[i - Len(s)]
  BY Joined DEF IsJoin
<1> QED
  BY <1>1, <1>2, <1>3, Joined DEF IsJoin

\* Run is the last of the switches that each command makes of the one before.
LEMMA RunUnfolds ==
  ASSUME NEW d, NEW commands, IsList(commands)
  PROVE  \E run : /\ run[0] = d
                  /\ \A n \in 1..Len(commands) : run[n] = Execute(run[n - 1], commands[n])
                  /\ Run(d, commands) = run[Len(commands)]
<1> DEFINE N == Len(commands)
           Upto(f, k) == /\ f[0] = d /\ DOMAIN f = 0..k
                         /\ \A n \in 1..k : f[n] = Execute(f[n - 1], commands[n])
           T == {k \in Nat : \E f : Upto(f, k)}
<1>0. N \in Nat
  BY DEF IsList
<1>1. 0 \in T
  <2>1. Upto([n \in 0..0 |-> d], 0)
    OBVIOUS
  <2> QED
    BY <2>1
<1>2. ASSUME NEW k \in Nat, k \in T PROVE k + 1 \in T
  <2>1. PICK f : Upto(f, k)
    BY <1>2
  <2> DEFINE g == [n \in 0..(k + 1) |-> IF n = k + 1 THEN Execute(f[k], commands[k + 1]) ELSE f[n]]
  <2>2. g[0] = d
    BY <2>1
  <2>3. ASSUME NEW n \in 1..(k + 1) PROVE g[n] = Execute(g[n - 1], commands[n])
    <3>1. g[n - 1] = f[n - 1]
      OBVIOUS
    <3>2. CASE n = k + 1
      BY <3>1, <3>2
    <3>3. CASE n # k + 1
      <4>1. n \in 1..k /\ g[n] = f[n]
        BY <3>3
      <4>2. f[n] = Execute(f[n - 1], commands[n])
        BY <2>1, <4>1
      <4> QED
        BY <4>1, <4>2, <3>1
    <3> QED
      BY <3>2, <3>3
  <2>4. DOMAIN g = 0..(k + 1)
    OBVIOUS
  <2> HIDE DEF g
  <2> QED
    BY <2>2, <2>3, <2>4
<1> HIDE DEF T
<1>3. N \in T
  BY <1>0, <1>1, <1>2, Induction
<1>4. PICK f : Upto(f, N)
  BY <1>3 DEF T
<1> DEFINE Is(r) == r = [n \in 0..N |-> IF n = 0 THEN d ELSE Execute(r[n - 1], commands[n])]
<1>5. Is(f)
  <2>1. \A n \in 0..N : f[n] = IF n = 0 THEN d ELSE Execute(f[n - 1], commands[n])
    BY <1>0, <1>4
  <2>2. f = [n \in 0..N |-> f[n]]
    BY <1>4
  <2> QED
    BY <2>1, <2>2
<1> DEFINE r == CHOOSE r : Is(r)
<1>6. Run(d, commands) = r[N]
  BY DEF Run
<1>7. Is(r)
  <2> HIDE DEF Is
  <2> QED
    BY <1>5
<1> HIDE DEF r
<1>8. r[0] = d /\ \A n \in 1..N : r[n] = Execute(r[n - 1], commands[n])
  BY <1>0, <1>7
<1> QED
  BY <1>6, <1>8

\* SetToSeq lists every member of a finite set, and nothing else.
LEMMA ListedSet ==
  ASSUME NEW S, IsFiniteSet(S)
  PROVE  /\ Cardinality(S) \in Nat
         /\ DOMAIN SetToSeq(S) = 1..Cardinality(S)
         /\ \A i \in DOMAIN SetToSeq(S) : SetToSeq(S)[i] \in S
         /\ \A x \in S : \E i \in DOMAIN SetToSeq(S) : SetToSeq(S)[i] = x
<1>1. Cardinality(S) \in Nat /\ ExistsBijection(1..Cardinality(S), S)
  BY FS_CardinalityType
<1>2. PICK b : b \in Injection(1..Cardinality(S), S)
  BY <1>1 DEF ExistsBijection, Bijection
<1>3. \E f \in [1..Cardinality(S) -> S] : IsInjective(f)
  BY <1>2 DEF Injection
<1>4. SetToSeq(S) \in [1..Cardinality(S) -> S] /\ IsInjective(SetToSeq(S))
  BY <1>3 DEF SetToSeq
<1>5. SetToSeq(S) \in Injection(1..Cardinality(S), S)
  BY <1>4 DEF Injection
<1>6. IsFiniteSet(1..Cardinality(S)) /\ Cardinality(1..Cardinality(S)) = Cardinality(S)
  BY <1>1, FS_Interval
<1>7. SetToSeq(S) \in Surjection(1..Cardinality(S), S)
  BY <1>5, <1>6, FS_Injection
<1> QED
  BY <1>1, <1>4, <1>7 DEF Surjection

\* FlattenSeq has the members of the lists that it joins, and nothing else.
LEMMA Flattened ==
  ASSUME NEW ss, IsList(ss), \A i \in DOMAIN ss : IsList(ss[i])
  PROVE  /\ IsList(FlattenSeq(ss))
         /\ \A j \in DOMAIN FlattenSeq(ss) :
              \E i \in DOMAIN ss : \E k \in DOMAIN ss[i] : FlattenSeq(ss)[j] = ss[i][k]
         /\ \A i \in DOMAIN ss : \A k \in DOMAIN ss[i] :
              \E j \in DOMAIN FlattenSeq(ss) : FlattenSeq(ss)[j] = ss[i][k]
<1> DEFINE N == Len(ss)
<1>0. N \in Nat /\ DOMAIN ss = 1..N
  BY DEF IsList
<1>a. N = Len(ss)
  OBVIOUS
<1> HIDE DEF N
<1>1. CASE N = 0
  <2>1. FlattenSeq(ss) = ss /\ DOMAIN ss = {}
    BY <1>0, <1>a, <1>1 DEF FlattenSeq
  <2> QED
    BY <2>1
<1>2. CASE N # 0
  <2> DEFINE Cat(s, t) == s \o t
             Upto(f, m) == /\ f = [n \in 1..m |-> f[n]] /\ f[1] = ss[1]
                           /\ \A n \in 2..m : f[n] = Cat(f[n - 1], ss[n])
             T == {m \in Nat : \E f : Upto(f, m + 1)}
  <2> HIDE DEF Cat
  <2>1. 0 \in T
    <3>1. Upto([n \in 1..1 |-> ss[1]], 0 + 1)
      OBVIOUS
    <3> QED
      BY <3>1
  <2>2. ASSUME NEW m \in Nat, m \in T PROVE m + 1 \in T
    <3>1. PICK f : Upto(f, m + 1)
      BY <2>2
    <3> DEFINE g == [n \in 1..(m + 2) |-> IF n = m + 2 THEN Cat(f[m + 1], ss[m + 2]) ELSE f[n]]
    <3>2. g[1] = ss[1]
      BY <3>1
    <3>3. ASSUME NEW n \in 2..(m + 2) PROVE g[n] = Cat(g[n - 1], ss[n])
      <4>1. g[n - 1] = f[n - 1]
        OBVIOUS
      <4>2. CASE n = m + 2
        BY <4>1, <4>2
      <4>3. CASE n # m + 2
        <5>1. n \in 2..(m + 1) /\ g[n] = f[n]
          BY <4>3
        <5>2. f[n] = Cat(f[n - 1], ss[n])
          BY <3>1, <5>1
        <5> QED
          BY <5>1, <5>2, <4>1
      <4> QED
        BY <4>2, <4>3
    <3>4. g = [n \in 1..(m + 2) |-> g[n]]
      OBVIOUS
    <3> HIDE DEF g
    <3>5. Upto(g, (m + 1) + 1)
      BY <3>2, <3>3, <3>4, (m + 1) + 1 = m + 2
    <3> HIDE DEF Upto
    <3> QED
      BY <3>5
  <2> HIDE DEF T
  <2>3. N - 1 \in T
    BY <1>0, <1>2, <2>1, <2>2, N - 1 \in Nat, Induction
  <2>4. PICK f : Upto(f, N)
    BY <1>0, <1>2, <2>3, (N - 1) + 1 = N DEF T
  <2> DEFINE Is(r) == r = [i \in 1..N |-> IF i = 1 THEN ss[i] ELSE Cat(r[i - 1], ss[i])]
             r == CHOOSE r : Is(r)
  <2>5. Is(f)
    <3>1. ASSUME NEW i \in 1..N PROVE f[i] = IF i = 1 THEN ss[i] ELSE Cat(f[i - 1], ss[i])
      <4>1. i = 1 \/ i \in 2..N
        BY <1>0
      <4> QED
        BY <4>1, <2>4
    <3>2. f = [i \in 1..N |-> f[i]]
      BY <2>4
    <3> QED
      BY <3>1, <3>2
  <2>6. FlattenSeq(ss) = r[N]
    BY <1>a, <1>2 DEF FlattenSeq, Cat
  <2>7. Is(r)
    <3> HIDE DEF Is
    <3> QED
      BY <2>5
  <2> HIDE DEF r
  <2>8. r[1] = ss[1] /\ \A i \in 2..N : r[i] = Cat(r[i - 1], ss[i])
    BY <1>0, <1>2, <2>7
  <2> DEFINE Good(i) == /\ IsList(r[i])
                        /\ \A j \in DOMAIN r[i] :
                             \E h \in 1..i : \E k \in DOMAIN ss[h] : r[i][j] = ss[h][k]
                        /\ \A h \in 1..i : \A k \in DOMAIN ss[h] :
                             \E j \in DOMAIN r[i] : r[i][j] = ss[h][k]
             G == {m \in Nat : m + 1 <= N => Good(m + 1)}
  <2>9. 0 \in G
    BY <1>0, <1>2, <2>8
  <2>10. ASSUME NEW m \in Nat, m \in G PROVE m + 1 \in G
    <3> SUFFICES ASSUME m + 2 <= N PROVE Good(m + 2)
      BY (m + 1) + 1 = m + 2
    <3>1. Good(m + 1)
      BY <2>10, <1>0
    <3>2. m + 2 \in 2..N /\ (m + 2) - 1 = m + 1 /\ m + 2 \in DOMAIN ss /\ m + 2 \in 1..(m + 2)
      BY <1>0
    <3>3. r[m + 2] = r[m + 1] \o ss[m + 2]
      BY <2>8, <3>2 DEF Cat
    <3>4. IsList(r[m + 1]) /\ IsList(ss[m + 2])
      BY <3>1, <3>2
    <3>5. PICK a, b, u : a = r[m + 1] /\ b = ss[m + 2] /\ u = r[m + 2]
      OBVIOUS
    <3>6. IsJoin(u, a, b) /\ IsList(a) /\ IsList(b)
      BY <3>3, <3>4, <3>5 DEF IsJoin
    <3>7. /\ IsList(u)
          /\ \A i \in DOMAIN a : \E j \in DOMAIN u : u[j] = a[i]
          /\ \A i \in DOMAIN b : \E j \in DOMAIN u : u[j] = b[i]
          /\ \A j \in DOMAIN u : \/ \E i \in DOMAIN a : u[j] = a[i]
                                 \/ \E i \in DOMAIN b : u[j] = b[i]
      BY <3>6, JoinedMembers
    <3>8. /\ \A j \in DOMAIN a : \E h \in 1..(m + 1) : \E k \in DOMAIN ss[h] : a[j] = ss[h][k]
          /\ \A h \in 1..(m + 1) : \A k \in DOMAIN ss[h] : \E j \in DOMAIN a : a[j] = ss[h][k]
      BY <3>1, <3>5, Zenon
    <3>9. \A h \in Int : h \in 1..(m + 2) <=> h \in 1..(m + 1) \/ h = m + 2
      OBVIOUS
    <3>10. \A j \in DOMAIN u : \E h \in 1..(m + 2) : \E k \in DOMAIN ss[h] : u[j] = ss[h][k]
      <4> SUFFICES ASSUME NEW j \in DOMAIN u
                   PROVE  \E h \in 1..(m + 2) : \E k \in DOMAIN ss[h] : u[j] = ss[h][k]
        OBVIOUS
      <4>1. CASE \E i \in DOMAIN a : u[j] = a[i]
        BY <4>1, <3>8, <3>9
      <4>2. CASE \E i \in DOMAIN b : u[j] = b[i]
        BY <4>2, <3>5, <3>9
      <4> QED
        BY <4>1, <4>2, <3>7
    <3>11. \A h \in 1..(m + 2) : \A k \in DOMAIN ss[h] : \E j \in DOMAIN u : u[j] = ss[h][k]
      <4> SUFFICES ASSUME NEW h \in 1..(m + 2), NEW k \in DOMAIN ss[h]
                   PROVE  \E j \in DOMAIN u : u[j] = ss[h][k]
        OBVIOUS
      <4>1. CASE h \in 1..(m + 1)
        BY <4>1, <3>7, <3>8
      <4>2. CASE h = m + 2
        BY <4>2, <3>5, <3>7
      <4> QED
        BY <4>1, <4>2, <3>9
    <3> QED
      BY <3>5, <3>7, <3>10, <3>11
  <2> HIDE DEF G
  <2>11. N - 1 \in G
    BY <1>0, <1>2, <2>9, <2>10, N - 1 \in Nat, Induction
  <2>12. Good(N)
    BY <1>0, <1>2, <2>11, (N - 1) + 1 = N, N <= N DEF G
  <2> QED
    BY <1>0, <2>6, <2>12
<1> QED
  BY <1>1, <1>2

\* ForEach has the commands given for each member, and nothing else.
LEMMA ForEachMember ==
  ASSUME NEW f, IsFiniteSet(DOMAIN f), \A x \in DOMAIN f : IsList(f[x])
  PROVE  /\ IsList(ForEach(f))
         /\ \A j \in DOMAIN ForEach(f) :
              \E x \in DOMAIN f : \E k \in DOMAIN f[x] : ForEach(f)[j] = f[x][k]
         /\ \A x \in DOMAIN f : \A k \in DOMAIN f[x] :
              \E j \in DOMAIN ForEach(f) : ForEach(f)[j] = f[x][k]
<1> DEFINE order == SetToSeq(DOMAIN f)
           ss == [i \in DOMAIN order |-> f[order[i]]]
<1>1. /\ IsList(order)
      /\ \A i \in DOMAIN order : order[i] \in DOMAIN f
      /\ \A x \in DOMAIN f : \E i \in DOMAIN order : order[i] = x
  BY ListedSet DEF IsList
<1>2. ForEach(f) = FlattenSeq(ss)
  BY DEF ForEach
<1> HIDE DEF order
<1>3. IsList(ss) /\ DOMAIN ss = DOMAIN order
  BY <1>1 DEF IsList
<1>4. \A i \in DOMAIN ss : ss[i] = f[order[i]] /\ IsList(ss[i])
  BY <1>1
<1> HIDE DEF ss
<1>5. /\ IsList(FlattenSeq(ss))
      /\ \A j \in DOMAIN FlattenSeq(ss) :
           \E i \in DOMAIN ss : \E k \in DOMAIN ss[i] : FlattenSeq(ss)[j] = ss[i][k]
      /\ \A i \in DOMAIN ss : \A k \in DOMAIN ss[i] :
           \E j \in DOMAIN FlattenSeq(ss) : FlattenSeq(ss)[j] = ss[i][k]
  BY <1>3, <1>4, Flattened
<1> QED
  BY <1>1, <1>2, <1>3, <1>4, <1>5

(***************************************************************************)
(* Which commands a plan may have, and what they do to the switch: Fits is *)
(* what a command may be, Follows what it may change.                      *)
(*                                                                         *)
(* x is a scenario, P the ports that may be touched, d and e switches.     *)
(***************************************************************************)

\* The ports that the configuration names.
Managed(x) == DOMAIN x.cfg.ports \cup mirror_destinations(x.cfg)

\* The VLANs that are not to go.
Kept(x) == DOMAIN x.cfg.vlans \cup {1}

\* The commands of the model, by what they are about: one port, ...
PortOps == {"native", "untagged", "tagged", "set tagged", "port set", "mac trap", "no mac trap", "monitor"}

\* ... neither ports nor VLANs, ...
OtherOps == {"trunk", "svi", "mirror", "no mirror", "community", "no community", "host", "sysinfo",
             "receiver", "no receiver", "traps", "no traps", "management vlan"}

\* ... and VLANs, or what leaves one.
VlanOps == {"vlan", "vlan set", "delete vlan", "no vlan", "no untagged", "no tagged"}

\* A command that a plan for x may have: it touches the ports of P alone, and
\* of the other ports only those in a VLAN that goes; an Aruba switch brings
\* ports into VLANs that stay and into no others.
Fits(x, P, c) ==
  /\ c.op \in PortOps \cup OtherOps \cup VlanOps
  /\ c.op \in PortOps => c.port \in P
  /\ c.op \in {"vlan", "vlan set", "native", "untagged"} => c.vlan \in VlanId
  /\ c.op \in {"tagged", "set tagged"} => c.vlans \subseteq VlanId /\ IsFiniteSet(c.vlans)
  /\ c.op = "port set" /\ c.field = "poe_enabled" => c.value \in BOOLEAN
  /\ c.op \in {"no vlan", "no untagged", "delete vlan"} => c.vlan \notin Kept(x)
  /\ c.op = "no tagged" => c.port \in P \/ c.vlans \cap Kept(x) = {}
  /\ vendor(x.cfg.model) = "Aruba" =>
       /\ c.op \notin {"delete vlan", "native", "set tagged"}
       /\ c.op = "untagged" => c.vlan \in Kept(x)
       /\ c.op = "tagged" => c.vlans \subseteq Kept(x)

\* What has been done to d may have made it e: the VLANs that stay are there
\* still, and a port outside of P that is only in such VLANs is as it was.
Follows(x, P, d, e) ==
  /\ IsDevice(e)
  /\ DOMAIN e.port = DOMAIN d.port
  /\ DOMAIN d.vlans \cap Kept(x) \subseteq DOMAIN e.vlans
  /\ \A p \in DOMAIN d.port \ P :
       {d.untagged[p]} \cup d.tagged[p] \subseteq Kept(x) =>
         e.port[p] = d.port[p] /\ e.untagged[p] = d.untagged[p] /\ e.tagged[p] = d.tagged[p]

\* A table stays finite when an entry is written ...
LEMMA PutFinite ==
  ASSUME NEW f, NEW k, NEW value, IsFiniteSet(DOMAIN f)
  PROVE  IsFiniteSet(DOMAIN Put(f, k, value)) /\ DOMAIN Put(f, k, value) = DOMAIN f \cup {k}
<1>1. DOMAIN Put(f, k, value) = DOMAIN f \cup {k}
  BY DEF Put
<1> QED
  BY <1>1, FS_AddElement

\* ... or when entries go.
LEMMA WithoutFinite ==
  ASSUME NEW f, NEW keys, IsFiniteSet(DOMAIN f)
  PROVE  IsFiniteSet(DOMAIN Without(f, keys)) /\ DOMAIN Without(f, keys) = DOMAIN f \ keys
<1>1. DOMAIN Without(f, keys) = DOMAIN f \ keys
  BY DEF Without
<1> QED
  BY <1>1, FS_Difference

\* Commands that are not about ports or VLANs.
LEMMA ExecuteOther ==
  ASSUME NEW x, NEW P, NEW d, NEW c, IsDevice(d), Fits(x, P, c), c.op \in OtherOps
  PROVE  /\ Follows(x, P, d, Execute(d, c))
         /\ KnowsItsVlans(d) => KnowsItsVlans(Execute(d, c))
<1> DEFINE e == Execute(d, c)
<1>1. /\ DOMAIN e = DOMAIN d
      /\ e.vlans = d.vlans /\ e.port = d.port /\ e.untagged = d.untagged /\ e.tagged = d.tagged
      /\ \A f \in {"mirrors", "communities", "receivers"} : IsFiniteSet(DOMAIN e[f])
  <2>1. CASE c.op = "trunk"
    BY <2>1 DEF Execute, IsDevice
  <2>2. CASE c.op = "svi"
    BY <2>2 DEF Execute, IsDevice
  <2>3. CASE c.op = "mirror"
    BY <2>3, PutFinite DEF Execute, IsDevice
  <2>4. CASE c.op = "no mirror"
    BY <2>4, WithoutFinite DEF Execute, IsDevice
  <2>5. CASE c.op = "community"
    BY <2>5, PutFinite DEF Execute, IsDevice
  <2>6. CASE c.op = "no community"
    BY <2>6, WithoutFinite DEF Execute, IsDevice
  <2>7. CASE c.op = "host"
    BY <2>7, PutFinite DEF Execute, IsDevice
  <2>8. CASE c.op = "receiver"
    BY <2>8, PutFinite DEF Execute, IsDevice
  <2>9. CASE c.op = "no receiver"
    BY <2>9, WithoutFinite DEF Execute, IsDevice
  <2>10. CASE c.op \in {"sysinfo", "traps", "no traps", "management vlan"}
    BY <2>10 DEF Execute, IsDevice
  <2> QED
    BY <2>1, <2>2, <2>3, <2>4, <2>5, <2>6, <2>7, <2>8, <2>9, <2>10 DEF OtherOps
<1> HIDE DEF e
<1>2. IsDevice(e)
  BY <1>1 DEF IsDevice
<1>3. Follows(x, P, d, e)
  BY <1>1, <1>2 DEF Follows
<1>4. KnowsItsVlans(d) => KnowsItsVlans(e)
  BY <1>1 DEF KnowsItsVlans
<1> QED
  BY <1>3, <1>4 DEF e

\* VLAN 1 is one.
LEMMA OneIsVlan == 1 \in VlanId
  BY DEF VlanId

\* Commands that write a port's own settings.
LEMMA ExecutePortSetting ==
  ASSUME NEW x, NEW P, NEW d, NEW c, IsDevice(d), Fits(x, P, c),
         c.op \in {"port set", "mac trap", "no mac trap", "monitor"}
  PROVE  /\ Follows(x, P, d, Execute(d, c))
         /\ KnowsItsVlans(d) => KnowsItsVlans(Execute(d, c))
<1> DEFINE e == Execute(d, c)
<1>1. /\ DOMAIN e = DOMAIN d /\ e.vlans = d.vlans
      /\ e.untagged = d.untagged /\ e.tagged = d.tagged
      /\ e.mirrors = d.mirrors /\ e.communities = d.communities /\ e.receivers = d.receivers
      /\ DOMAIN e.port = DOMAIN d.port
      /\ \A p \in DOMAIN d.port : p # c.port => e.port[p] = d.port[p]
      /\ c.port \in DOMAIN d.port =>
           "poe_enabled" \in DOMAIN e.port[c.port] /\ e.port[c.port].poe_enabled \in BOOLEAN
  <2>1. CASE c.op = "port set"
    BY <2>1 DEF Execute, IsDevice, Fits
  <2>2. CASE c.op = "mac trap"
    BY <2>2 DEF Execute, IsDevice, Fits
  <2>3. CASE c.op = "no mac trap"
    BY <2>3 DEF Execute, IsDevice, Fits
  <2>4. CASE c.op = "monitor"
    BY <2>4 DEF Execute, IsDevice, Fits
  <2> QED
    BY <2>1, <2>2, <2>3, <2>4
<1>2. c.port \in P
  BY DEF Fits, PortOps
<1> HIDE DEF e
<1>3. IsDevice(e)
  BY <1>1 DEF IsDevice
<1>4. Follows(x, P, d, e)
  BY <1>1, <1>2, <1>3 DEF Follows
<1>5. KnowsItsVlans(d) => KnowsItsVlans(e)
  BY <1>1 DEF KnowsItsVlans
<1> QED
  BY <1>4, <1>5 DEF e

\* The VLANs that a port is put into.
Uses(c) == CASE c.op = "untagged" -> {c.vlan} [] c.op = "tagged" -> c.vlans [] OTHER -> {}

\* Commands that move one port between VLANs.
LEMMA ExecuteMembership ==
  ASSUME NEW x, NEW P, NEW d, NEW c, IsDevice(d), Fits(x, P, c),
         c.op \in {"native", "untagged", "no untagged", "tagged", "no tagged", "set tagged"}
  PROVE  /\ Follows(x, P, d, Execute(d, c))
         /\ c.op \notin {"native", "set tagged"} /\ Uses(c) \subseteq DOMAIN d.vlans =>
              (KnowsItsVlans(d) => KnowsItsVlans(Execute(d, c)))
<1> DEFINE e == Execute(d, c)
<1>1. /\ DOMAIN e = DOMAIN d /\ e.vlans = d.vlans /\ e.port = d.port
      /\ e.mirrors = d.mirrors /\ e.communities = d.communities /\ e.receivers = d.receivers
      /\ DOMAIN e.untagged = DOMAIN d.untagged /\ DOMAIN e.tagged = DOMAIN d.tagged
      /\ \A p \in DOMAIN d.port : p # c.port => e.untagged[p] = d.untagged[p] /\ e.tagged[p] = d.tagged[p]
  <2>1. CASE c.op = "native"
    BY <2>1 DEF Execute, IsDevice
  <2>2. CASE c.op = "untagged"
    BY <2>2 DEF Execute, IsDevice
  <2>3. CASE c.op = "no untagged"
    BY <2>3 DEF Execute, IsDevice
  <2>4. CASE c.op = "tagged"
    BY <2>4 DEF Execute, IsDevice
  <2>5. CASE c.op = "no tagged"
    BY <2>5 DEF Execute, IsDevice
  <2>6. CASE c.op = "set tagged"
    BY <2>6 DEF Execute, IsDevice
  <2> QED
    BY <2>1, <2>2, <2>3, <2>4, <2>5, <2>6
<1>2. ASSUME c.port \in DOMAIN d.port
      PROVE  /\ e.untagged[c.port] \in VlanId
             /\ e.tagged[c.port] \subseteq VlanId /\ IsFiniteSet(e.tagged[c.port])
  <2> DEFINE t == d.tagged[c.port]
             u == d.untagged[c.port]
  <2>0. t \subseteq VlanId /\ IsFiniteSet(t) /\ u \in VlanId /\ 1 \in VlanId
    BY <1>2, OneIsVlan DEF IsDevice
  <2>1. CASE c.op = "native"
    <3>1. e.untagged[c.port] = c.vlan /\ e.tagged[c.port] = t
      BY <1>2, <2>1 DEF Execute, IsDevice
    <3> QED
      BY <2>0, <2>1, <3>1 DEF Fits
  <2>2. CASE c.op = "untagged"
    <3>1. e.untagged[c.port] = c.vlan /\ e.tagged[c.port] = t \ {c.vlan}
      BY <1>2, <2>2 DEF Execute, IsDevice
    <3>2. IsFiniteSet(t \ {c.vlan})
      BY <2>0, FS_Difference
    <3> QED
      BY <2>0, <2>2, <3>1, <3>2 DEF Fits
  <2>3. CASE c.op = "no untagged"
    <3>1. e.untagged[c.port] \in {u, 1} /\ e.tagged[c.port] = t
      BY <1>2, <2>3 DEF Execute, IsDevice
    <3> QED
      BY <2>0, <3>1
  <2>4. CASE c.op = "tagged"
    <3>1. e.untagged[c.port] = u /\ e.tagged[c.port] = t \cup (c.vlans \ {u})
      BY <1>2, <2>4 DEF Execute, IsDevice
    <3>2. c.vlans \subseteq VlanId /\ IsFiniteSet(c.vlans)
      BY <2>4 DEF Fits
    <3>3. IsFiniteSet(t \cup (c.vlans \ {u}))
      BY <2>0, <3>2, FS_Difference, FS_Union
    <3> QED
      BY <2>0, <3>1, <3>2, <3>3
  <2>5. CASE c.op = "no tagged"
    <3>1. e.untagged[c.port] = u /\ e.tagged[c.port] = t \ c.vlans
      BY <1>2, <2>5 DEF Execute, IsDevice
    <3>2. IsFiniteSet(t \ c.vlans)
      BY <2>0, FS_Difference
    <3> QED
      BY <2>0, <3>1, <3>2
  <2>6. CASE c.op = "set tagged"
    <3>1. e.untagged[c.port] = u /\ e.tagged[c.port] = c.vlans
      BY <1>2, <2>6 DEF Execute, IsDevice
    <3> QED
      BY <2>0, <2>6, <3>1 DEF Fits
  <2> QED
    BY <2>1, <2>2, <2>3, <2>4, <2>5, <2>6
<1>3. ASSUME c.port \notin P, c.port \in DOMAIN d.port,
             {d.untagged[c.port]} \cup d.tagged[c.port] \subseteq Kept(x)
      PROVE  e.untagged[c.port] = d.untagged[c.port] /\ e.tagged[c.port] = d.tagged[c.port]
  <2>1. c.op \in {"no untagged", "no tagged"}
    BY <1>3 DEF Fits, PortOps
  <2>2. CASE c.op = "no untagged"
    <3>1. c.vlan \notin Kept(x)
      BY <2>2 DEF Fits
    <3> QED
      BY <1>3, <2>2, <3>1 DEF Execute, IsDevice
  <2>3. CASE c.op = "no tagged"
    <3>1. c.vlans \cap Kept(x) = {}
      BY <1>3, <2>3 DEF Fits
    <3>2. d.tagged[c.port] \ c.vlans = d.tagged[c.port]
      BY <1>3, <3>1
    <3> QED
      BY <1>3, <2>3, <3>2 DEF Execute, IsDevice
  <2> QED
    BY <2>1, <2>2, <2>3
<1> HIDE DEF e
<1>4. IsDevice(e)
  <2>1. ASSUME NEW p \in DOMAIN d.port
        PROVE  /\ e.untagged[p] \in VlanId
               /\ e.tagged[p] \subseteq VlanId /\ IsFiniteSet(e.tagged[p])
    <3>1. CASE p = c.port
      BY <3>1, <1>2
    <3>2. CASE p # c.port
      BY <3>2, <1>1 DEF IsDevice
    <3> QED
      BY <3>1, <3>2
  <2> QED
    BY <1>1, <2>1 DEF IsDevice
<1>5. Follows(x, P, d, e)
  BY <1>1, <1>3, <1>4 DEF Follows
<1>6. ASSUME c.op \notin {"native", "set tagged"}, Uses(c) \subseteq DOMAIN d.vlans, KnowsItsVlans(d)
      PROVE  KnowsItsVlans(e)
  <2>1. ASSUME NEW p \in DOMAIN d.port PROVE e.tagged[p] \cup {e.untagged[p]} \subseteq DOMAIN d.vlans
    <3>0. d.tagged[p] \cup {d.untagged[p]} \subseteq DOMAIN d.vlans /\ 1 \in DOMAIN d.vlans
      BY <1>6 DEF KnowsItsVlans
    <3>1. CASE c.op = "untagged"
      <4>1. e.untagged[p] \in {d.untagged[p], c.vlan} /\ e.tagged[p] \subseteq d.tagged[p]
        BY <3>1 DEF e, Execute, IsDevice
      <4>2. c.vlan \in DOMAIN d.vlans
        BY <1>6, <3>1 DEF Uses
      <4> QED
        BY <3>0, <4>1, <4>2
    <3>2. CASE c.op = "no untagged"
      <4>1. e.untagged[p] \in {d.untagged[p], 1} /\ e.tagged[p] = d.tagged[p]
        BY <3>2 DEF e, Execute, IsDevice
      <4> QED
        BY <3>0, <4>1
    <3>3. CASE c.op = "tagged"
      <4>1. e.untagged[p] = d.untagged[p] /\ e.tagged[p] \subseteq d.tagged[p] \cup c.vlans
        BY <3>3 DEF e, Execute, IsDevice
      <4>2. c.vlans \subseteq DOMAIN d.vlans
        BY <1>6, <3>3 DEF Uses
      <4> QED
        BY <3>0, <4>1, <4>2
    <3>4. CASE c.op = "no tagged"
      <4>1. e.untagged[p] = d.untagged[p] /\ e.tagged[p] \subseteq d.tagged[p]
        BY <3>4 DEF e, Execute, IsDevice
      <4> QED
        BY <3>0, <4>1
    <3> QED
      BY <1>6, <3>1, <3>2, <3>3, <3>4
  <2> QED
    BY <1>1, <1>6, <2>1 DEF KnowsItsVlans
<1> QED
  BY <1>5, <1>6 DEF e

\* Commands that add or remove a VLAN.
LEMMA ExecuteVlan ==
  ASSUME NEW x, NEW P, NEW d, NEW c, IsDevice(d), Fits(x, P, c),
         c.op \in {"vlan", "vlan set", "delete vlan", "no vlan"}
  PROVE  /\ Follows(x, P, d, Execute(d, c))
         /\ c.op \in {"vlan", "vlan set"} => c.vlan \in DOMAIN Execute(d, c).vlans
         /\ c.op # "delete vlan" => (KnowsItsVlans(d) => KnowsItsVlans(Execute(d, c)))
<1> DEFINE e == Execute(d, c)
<1>1. CASE c.op \in {"vlan", "vlan set"}
  <2>1. DOMAIN EnsureVlan(d, c.vlan) = DOMAIN d
    BY DEF EnsureVlan, IsDevice
  <2>2. /\ DOMAIN EnsureVlan(d, c.vlan).vlans = DOMAIN d.vlans \cup {c.vlan}
        /\ \A f \in DOMAIN d \ {"vlans"} : EnsureVlan(d, c.vlan)[f] = d[f]
    BY PutFinite DEF EnsureVlan, IsDevice
  <2>3. /\ DOMAIN e = DOMAIN d /\ DOMAIN e.vlans = DOMAIN d.vlans \cup {c.vlan}
        /\ \A f \in DOMAIN d \ {"vlans"} : e[f] = d[f]
    <3> HIDE DEF EnsureVlan
    <3>1. CASE c.op = "vlan"
      BY <2>1, <2>2, <3>1 DEF Execute
    <3>2. CASE c.op = "vlan set"
      BY <2>1, <2>2, <3>2 DEF Execute, IsDevice
    <3> QED
      BY <1>1, <3>1, <3>2
  <2>4. c.vlan \in VlanId
    BY <1>1 DEF Fits
  <2>5. IsFiniteSet(DOMAIN d.vlans \cup {c.vlan})
    BY FS_AddElement DEF IsDevice
  <2> HIDE DEF e
  <2>6. /\ e.port = d.port /\ e.untagged = d.untagged /\ e.tagged = d.tagged
        /\ e.mirrors = d.mirrors /\ e.communities = d.communities /\ e.receivers = d.receivers
    BY <2>3 DEF IsDevice
  <2>7. IsDevice(e)
    BY <2>3, <2>4, <2>5, <2>6 DEF IsDevice
  <2>8. Follows(x, P, d, e)
    BY <2>3, <2>6, <2>7 DEF Follows
  <2>9. KnowsItsVlans(d) => KnowsItsVlans(e)
    BY <2>3, <2>6 DEF KnowsItsVlans
  <2> QED
    BY <1>1, <2>3, <2>8, <2>9 DEF e
<1>2. CASE c.op = "delete vlan"
  <2>1. /\ DOMAIN e = DOMAIN d /\ DOMAIN e.vlans = DOMAIN d.vlans \ {c.vlan}
        /\ e.port = d.port /\ e.untagged = d.untagged /\ e.tagged = d.tagged
        /\ e.mirrors = d.mirrors /\ e.communities = d.communities /\ e.receivers = d.receivers
    BY <1>2, WithoutFinite DEF Execute, IsDevice
  <2>2. IsFiniteSet(DOMAIN d.vlans \ {c.vlan})
    BY FS_Difference DEF IsDevice
  <2>3. c.vlan \notin Kept(x)
    BY <1>2 DEF Fits
  <2> HIDE DEF e
  <2>4. IsDevice(e)
    BY <2>1, <2>2 DEF IsDevice
  <2>5. Follows(x, P, d, e)
    BY <2>1, <2>3, <2>4 DEF Follows
  <2> QED
    BY <1>2, <2>5 DEF e
<1>3. CASE c.op = "no vlan"
  <2>1. /\ DOMAIN e = DOMAIN d /\ DOMAIN e.vlans = DOMAIN d.vlans \ ({c.vlan} \ {1})
        /\ e.port = d.port
        /\ e.mirrors = d.mirrors /\ e.communities = d.communities /\ e.receivers = d.receivers
        /\ e.untagged = [p \in DOMAIN d.port |-> IF d.untagged[p] = c.vlan THEN 1 ELSE d.untagged[p]]
        /\ e.tagged = [p \in DOMAIN d.port |-> d.tagged[p] \ {c.vlan}]
    BY <1>3, WithoutFinite DEF Execute, IsDevice, RemoveVlan
  <2>2. IsFiniteSet(DOMAIN d.vlans \ ({c.vlan} \ {1}))
    BY FS_Difference DEF IsDevice
  <2>3. \A p \in DOMAIN d.port : IsFiniteSet(d.tagged[p] \ {c.vlan})
    BY FS_Difference DEF IsDevice
  <2>4. c.vlan \notin Kept(x) /\ 1 \in VlanId
    BY <1>3, OneIsVlan DEF Fits
  <2> HIDE DEF e
  <2>5. ASSUME NEW p \in DOMAIN d.port
        PROVE  /\ e.untagged[p] \in VlanId
               /\ e.tagged[p] \subseteq VlanId /\ IsFiniteSet(e.tagged[p])
    <3>1. d.untagged[p] \in VlanId /\ d.tagged[p] \subseteq VlanId
      BY DEF IsDevice
    <3> QED
      BY <2>1, <2>3, <2>4, <3>1
  <2>6. DOMAIN e.untagged = DOMAIN d.port /\ DOMAIN e.tagged = DOMAIN d.port
    BY <2>1
  <2>7. IsDevice(e)
    BY <2>1, <2>2, <2>5, <2>6 DEF IsDevice
  <2>8. ASSUME NEW p \in DOMAIN d.port, {d.untagged[p]} \cup d.tagged[p] \subseteq Kept(x)
        PROVE  e.untagged[p] = d.untagged[p] /\ e.tagged[p] = d.tagged[p]
    <3>1. d.tagged[p] \ {c.vlan} = d.tagged[p] /\ d.untagged[p] # c.vlan
      BY <2>4, <2>8
    <3> QED
      BY <2>1, <3>1
  <2>9. DOMAIN d.vlans \cap Kept(x) \subseteq DOMAIN e.vlans
    BY <2>1, <2>4
  <2>10. Follows(x, P, d, e)
    BY <2>1, <2>7, <2>8, <2>9 DEF Follows
  <2>11. ASSUME KnowsItsVlans(d) PROVE KnowsItsVlans(e)
    <3>1. ASSUME NEW p \in DOMAIN d.port PROVE e.tagged[p] \cup {e.untagged[p]} \subseteq DOMAIN e.vlans
      <4>1. d.tagged[p] \cup {d.untagged[p]} \subseteq DOMAIN d.vlans /\ 1 \in DOMAIN d.vlans
        BY <2>11 DEF KnowsItsVlans
      <4>2. /\ e.untagged[p] = IF d.untagged[p] = c.vlan THEN 1 ELSE d.untagged[p]
            /\ e.tagged[p] = d.tagged[p] \ {c.vlan}
        BY <2>1
      <4>3. DOMAIN e.vlans = DOMAIN d.vlans \ ({c.vlan} \ {1})
        BY <2>1
      <4>4. e.tagged[p] \subseteq DOMAIN e.vlans
        BY <4>1, <4>2, <4>3
      <4>5. e.untagged[p] \in DOMAIN e.vlans
        BY <4>1, <4>2, <4>3
      <4> QED
        BY <4>4, <4>5
    <3>2. 1 \in DOMAIN e.vlans
      BY <2>1, <2>11 DEF KnowsItsVlans
    <3> QED
      BY <2>1, <3>1, <3>2 DEF KnowsItsVlans
  <2> QED
    BY <1>3, <2>10, <2>11 DEF e
<1> QED
  BY <1>1, <1>2, <1>3

\* Any command that fits changes what it may.
LEMMA ExecuteFollows ==
  ASSUME NEW x, NEW P, NEW d, NEW c, IsDevice(d), Fits(x, P, c)
  PROVE  Follows(x, P, d, Execute(d, c))
<1>1. c.op \in PortOps \cup OtherOps \cup VlanOps
  BY DEF Fits
<1>2. CASE c.op \in OtherOps
  BY <1>2, ExecuteOther
<1>3. CASE c.op \in {"port set", "mac trap", "no mac trap", "monitor"}
  BY <1>3, ExecutePortSetting
<1>4. CASE c.op \in {"native", "untagged", "no untagged", "tagged", "no tagged", "set tagged"}
  BY <1>4, ExecuteMembership
<1>5. CASE c.op \in {"vlan", "vlan set", "delete vlan", "no vlan"}
  BY <1>5, ExecuteVlan
<1> QED
  BY <1>1, <1>2, <1>3, <1>4, <1>5 DEF PortOps, VlanOps

\* No port of an Aruba switch comes into a VLAN that is not there.
LEMMA ExecuteKnows ==
  ASSUME NEW x, NEW P, NEW d, NEW c, IsDevice(d), Fits(x, P, c), vendor(x.cfg.model) = "Aruba",
         KnowsItsVlans(d), Uses(c) \subseteq DOMAIN d.vlans
  PROVE  KnowsItsVlans(Execute(d, c))
<1>1. c.op \in (PortOps \cup OtherOps \cup VlanOps) \ {"delete vlan", "native", "set tagged"}
  BY DEF Fits
<1>2. CASE c.op \in OtherOps
  BY <1>2, ExecuteOther
<1>3. CASE c.op \in {"port set", "mac trap", "no mac trap", "monitor"}
  BY <1>3, ExecutePortSetting
<1>4. CASE c.op \in {"untagged", "no untagged", "tagged", "no tagged"}
  BY <1>4, ExecuteMembership
<1>5. CASE c.op \in {"vlan", "vlan set", "no vlan"}
  BY <1>5, ExecuteVlan
<1> QED
  BY <1>1, <1>2, <1>3, <1>4, <1>5 DEF PortOps, VlanOps

\* Commands that fit, one after the other.
Fit(x, P, s) == IsList(s) /\ \A i \in DOMAIN s : Fits(x, P, s[i])

\* Nothing has been done.
LEMMA FollowsItself ==
  ASSUME NEW x, NEW P, NEW d, IsDevice(d)
  PROVE  Follows(x, P, d, d)
  BY DEF Follows

\* One thing has been done after the other.
LEMMA FollowsFurther ==
  ASSUME NEW x, NEW P, NEW d, NEW e, NEW f, Follows(x, P, d, e), Follows(x, P, e, f)
  PROVE  Follows(x, P, d, f)
  BY DEF Follows

\* An Aruba switch brings ports into VLANs that stay.
LEMMA UsesKept ==
  ASSUME NEW x, NEW P, NEW c, Fits(x, P, c), vendor(x.cfg.model) = "Aruba"
  PROVE  Uses(c) \subseteq Kept(x)
<1>1. /\ c.op = "untagged" => c.vlan \in Kept(x)
      /\ c.op = "tagged" => c.vlans \subseteq Kept(x)
  BY DEF Fits
<1> QED
  BY <1>1 DEF Uses

\* Commands that fit, one after the other: what each does to the switch, all
\* of them do (by Induction).
LEMMA RunFollows ==
  ASSUME NEW x, NEW P, NEW d, NEW s, IsDevice(d), Fit(x, P, s)
  PROVE  /\ Follows(x, P, d, Run(d, s))
         /\ \A i \in DOMAIN s : s[i].op = "vlan" /\ s[i].vlan \in Kept(x) =>
              s[i].vlan \in DOMAIN Run(d, s).vlans
         /\ /\ vendor(x.cfg.model) = "Aruba" /\ KnowsItsVlans(d)
            /\ \A i \in DOMAIN s : Uses(s[i]) \subseteq DOMAIN d.vlans
            => KnowsItsVlans(Run(d, s))
<1>l. IsList(s)
  BY DEF Fit
<1>u. \E run : /\ run[0] = d
               /\ \A n \in 1..Len(s) : run[n] = Execute(run[n - 1], s[n])
               /\ Run(d, s) = run[Len(s)]
  BY <1>l, RunUnfolds, Zenon
<1> DEFINE N == Len(s)
<1>0. N \in Nat /\ DOMAIN s = 1..N /\ IsList(s)
  BY <1>l DEF IsList
<1>1. PICK run : /\ run[0] = d
                 /\ \A n \in 1..N : run[n] = Execute(run[n - 1], s[n])
                 /\ Run(d, s) = run[N]
  BY <1>u
<1>2. \A n \in 1..N : Fits(x, P, s[n])
  BY <1>0 DEF Fit
<1> HIDE DEF N
<1> DEFINE Aruban == /\ vendor(x.cfg.model) = "Aruba" /\ KnowsItsVlans(d)
                     /\ \A i \in 1..N : Uses(s[i]) \subseteq DOMAIN d.vlans
           Creates(n, e) == \A i \in 1..n : s[i].op = "vlan" /\ s[i].vlan \in Kept(x) =>
                              s[i].vlan \in DOMAIN e.vlans
           Right(n) == /\ Follows(x, P, d, run[n]) /\ Creates(n, run[n])
                       /\ Aruban => KnowsItsVlans(run[n])
           T == {n \in Nat : n <= N => Right(n)}
<1>3. 0 \in T
  BY <1>1, FollowsItself
<1>4. ASSUME NEW n \in Nat, n \in T PROVE n + 1 \in T
  <2> SUFFICES ASSUME n + 1 <= N PROVE Right(n + 1)
    OBVIOUS
  <2>1. Right(n) /\ n + 1 \in 1..N /\ (n + 1) - 1 = n
    BY <1>0, <1>4
  <2> DEFINE a == run[n]
             b == run[n + 1]
             c == s[n + 1]
  <2>2. b = Execute(a, c) /\ Fits(x, P, c) /\ Follows(x, P, d, a)
    BY <1>1, <1>2, <2>1
  <2> HIDE DEF a, b, c
  <2>3. IsDevice(a)
    BY <2>2 DEF Follows
  <2>4. Follows(x, P, a, b)
    BY <2>2, <2>3, ExecuteFollows
  <2>5. Follows(x, P, d, b)
    BY <2>2, <2>4, FollowsFurther
  <2>6. Creates(n + 1, b)
    <3> SUFFICES ASSUME NEW i \in 1..(n + 1), s[i].op = "vlan", s[i].vlan \in Kept(x)
                 PROVE  s[i].vlan \in DOMAIN b.vlans
      OBVIOUS
    <3>1. CASE i = n + 1
      <4>1. c.op = "vlan" /\ c.vlan = s[i].vlan
        BY <3>1 DEF c
      <4>2. Follows(x, P, a, Execute(a, c)) /\ c.vlan \in DOMAIN Execute(a, c).vlans
        BY <4>1, <2>2, <2>3, ExecuteVlan
      <4> QED
        BY <4>1, <4>2, <2>2
    <3>2. CASE i # n + 1
      <4>1. i \in 1..n
        BY <3>2
      <4>2. s[i].vlan \in DOMAIN a.vlans
        BY <2>1, <4>1 DEF a
      <4> QED
        BY <2>4, <4>2 DEF Follows
    <3> QED
      BY <3>1, <3>2
  <2>7. ASSUME Aruban PROVE KnowsItsVlans(b)
    <3>1. KnowsItsVlans(a)
      BY <2>1, <2>7 DEF a
    <3>2. Uses(c) \subseteq DOMAIN d.vlans
      BY <2>1, <2>7 DEF c
    <3>3. Uses(c) \subseteq Kept(x)
      BY <2>2, <2>7, UsesKept
    <3>4. Uses(c) \subseteq DOMAIN a.vlans
      BY <2>2, <3>2, <3>3 DEF Follows
    <3> QED
      BY <2>2, <2>3, <2>7, <3>1, <3>4, ExecuteKnows
  <2> QED
    BY <2>5, <2>6, <2>7 DEF b
<1> HIDE DEF T
<1>5. N \in T
  BY <1>0, <1>3, <1>4, Induction
<1>6. Right(N)
  BY <1>0, <1>5 DEF T
<1> QED
  BY <1>0, <1>1, <1>6

(***************************************************************************)
(* Lists of commands, and lists of such lists.                             *)
(***************************************************************************)

\* Lists of commands put together.
LEMMA FitJoined ==
  ASSUME NEW x, NEW P, NEW s, NEW t, Fit(x, P, s), Fit(x, P, t)
  PROVE  Fit(x, P, s \o t)
<1>1. PICK u : u = s \o t
  OBVIOUS
<1>2. IsJoin(u, s, t) /\ IsList(s) /\ IsList(t)
  BY <1>1 DEF IsJoin, Fit
<1>3. /\ IsList(u)
      /\ \A j \in DOMAIN u : (\E i \in DOMAIN s : u[j] = s[i]) \/ (\E i \in DOMAIN t : u[j] = t[i])
  BY <1>2, JoinedMembers
<1>4. Fit(x, P, u)
  BY <1>3 DEF Fit
<1> QED
  BY <1>1, <1>4

\* Commands given for each member of a set.
LEMMA FitForEach ==
  ASSUME NEW x, NEW P, NEW f, IsFiniteSet(DOMAIN f), \A y \in DOMAIN f : Fit(x, P, f[y])
  PROVE  Fit(x, P, ForEach(f))
<1>1. \A y \in DOMAIN f : IsList(f[y])
  BY DEF Fit
<1>2. PICK u : u = ForEach(f)
  OBVIOUS
<1>3. IsList(u) /\ \A j \in DOMAIN u : \E y \in DOMAIN f : \E k \in DOMAIN f[y] : u[j] = f[y][k]
  BY <1>1, <1>2, ForEachMember
<1>4. Fit(x, P, u)
  BY <1>3 DEF Fit
<1> QED
  BY <1>2, <1>4

\* Short lists.
LEMMA FitNone ==
  ASSUME NEW x, NEW P
  PROVE  Fit(x, P, <<>>)
<1>1. DOMAIN <<>> = 1..0
  OBVIOUS
<1> QED
  BY <1>1 DEF Fit, IsList

\* Lists of one command to four fit when each command does.
LEMMA FitOne ==
  ASSUME NEW x, NEW P, NEW c, Fits(x, P, c)
  PROVE  Fit(x, P, <<c>>)
<1>1. DOMAIN <<c>> = 1..1 /\ <<c>>[1] = c
  OBVIOUS
<1> QED
  BY <1>1 DEF Fit, IsList

\* ... two,
LEMMA FitTwo ==
  ASSUME NEW x, NEW P, NEW c, NEW d, Fits(x, P, c), Fits(x, P, d)
  PROVE  Fit(x, P, <<c, d>>)
<1> DEFINE s == <<c, d>>
<1>1. DOMAIN s = 1..2 /\ s[1] = c /\ s[2] = d
  OBVIOUS
<1> HIDE DEF s
<1>2. Fit(x, P, s)
  BY <1>1 DEF Fit, IsList
<1> QED
  BY <1>2 DEF s

\* ... three,
LEMMA FitThree ==
  ASSUME NEW x, NEW P, NEW c, NEW d, NEW e, Fits(x, P, c), Fits(x, P, d), Fits(x, P, e)
  PROVE  Fit(x, P, <<c, d, e>>)
<1> DEFINE s == <<c, d, e>>
<1>1. DOMAIN s = 1..3 /\ s[1] = c /\ s[2] = d /\ s[3] = e
  OBVIOUS
<1> HIDE DEF s
<1>2. Fit(x, P, s)
  BY <1>1 DEF Fit, IsList
<1> QED
  BY <1>2 DEF s

\* ... and four.
LEMMA FitFour ==
  ASSUME NEW x, NEW P, NEW c, NEW d, NEW e, NEW f,
         Fits(x, P, c), Fits(x, P, d), Fits(x, P, e), Fits(x, P, f)
  PROVE  Fit(x, P, <<c, d, e, f>>)
<1> DEFINE s == <<c, d, e, f>>
<1>1. DOMAIN s = 1..4 /\ s[1] = c /\ s[2] = d /\ s[3] = e /\ s[4] = f
  OBVIOUS
<1> HIDE DEF s
<1>2. Fit(x, P, s)
  BY <1>1 DEF Fit, IsList
<1> QED
  BY <1>2 DEF s

\* A command that is sent on a condition.
LEMMA FitWhen ==
  ASSUME NEW x, NEW P, NEW condition, NEW c, condition => Fits(x, P, c)
  PROVE  Fit(x, P, When(condition, c))
<1>1. CASE condition
  BY <1>1, FitOne DEF When
<1>2. CASE ~ condition
  BY <1>2, FitNone DEF When
<1> QED
  BY <1>1, <1>2

\* What has been sent when the connection breaks.
LEMMA FitPart ==
  ASSUME NEW x, NEW P, NEW s, Fit(x, P, s), NEW n \in 0..Len(s)
  PROVE  Fit(x, P, SubSeq(s, 1, n))
<1>1. PICK m \in Nat : DOMAIN s = 1..m
  BY DEF Fit, IsList
<1>2. Len(s) = m /\ n \in Nat /\ n <= m
  BY <1>1
<1>3. PICK u : u = SubSeq(s, 1, n)
  OBVIOUS
<1>4. DOMAIN u = 1..n /\ \A i \in 1..n : u[i] = s[i]
  BY <1>2, <1>3
<1>5. Fit(x, P, u)
  BY <1>1, <1>2, <1>4 DEF Fit, IsList
<1> QED
  BY <1>3, <1>5

\* The lists of commands that are sent one after the other.
Plan(x, P, bs) == IsList(bs) /\ \A i \in DOMAIN bs : bs[i] = FortiOS!Fails \/ Fit(x, P, bs[i])

\* Batches put together.
LEMMA PlanJoined ==
  ASSUME NEW x, NEW P, NEW s, NEW t, Plan(x, P, s), Plan(x, P, t)
  PROVE  Plan(x, P, s \o t)
<1>1. PICK u : u = s \o t
  OBVIOUS
<1>2. IsJoin(u, s, t) /\ IsList(s) /\ IsList(t)
  BY <1>1 DEF IsJoin, Plan
<1>3. /\ IsList(u)
      /\ \A j \in DOMAIN u : (\E i \in DOMAIN s : u[j] = s[i]) \/ (\E i \in DOMAIN t : u[j] = t[i])
  BY <1>2, JoinedMembers
<1>4. Plan(x, P, u)
  BY <1>3 DEF Plan
<1> QED
  BY <1>1, <1>4

\* A batch that is sent on a condition.
LEMMA PlanWhen ==
  ASSUME NEW x, NEW P, NEW condition, NEW b, condition => b = FortiOS!Fails \/ Fit(x, P, b)
  PROVE  Plan(x, P, When(condition, b))
<1> DEFINE u == When(condition, b)
<1>1. CASE condition
  <2>1. DOMAIN u = 1..1 /\ u[1] = b
    BY <1>1 DEF When
  <2> HIDE DEF u
  <2>2. Plan(x, P, u)
    BY <1>1, <2>1 DEF Plan, IsList
  <2> QED
    BY <2>2 DEF u
<1>2. CASE ~ condition
  <2>1. DOMAIN u = 1..0
    BY <1>2 DEF When
  <2> HIDE DEF u
  <2>2. Plan(x, P, u)
    BY <1>2, <2>1 DEF Plan, IsList
  <2> QED
    BY <2>2 DEF u
<1> QED
  BY <1>1, <1>2

\* What is left when the first batch has been sent.
LEMMA PlanRest ==
  ASSUME NEW x, NEW P, NEW bs, Plan(x, P, bs), bs # <<>>
  PROVE  /\ Head(bs) = bs[1] /\ 1 \in DOMAIN bs
         /\ Plan(x, P, Tail(bs))
         /\ \A i \in DOMAIN Tail(bs) : i + 1 \in DOMAIN bs /\ Tail(bs)[i] = bs[i + 1]
<1>1. PICK m \in Nat : DOMAIN bs = 1..m
  BY DEF Plan, IsList
<1>2. Len(bs) = m
  BY <1>1
<1>3. m # 0
  <2> SUFFICES ASSUME m = 0 PROVE FALSE
    OBVIOUS
  <2>1. DOMAIN bs = {} /\ bs = [i \in {} |-> bs[i]]
    BY <1>1
  <2> QED
    BY <2>1
<1>4. PICK u : u = Tail(bs)
  OBVIOUS
<1>5. DOMAIN u = 1..(m - 1) /\ \A i \in 1..(m - 1) : u[i] = bs[i + 1]
  BY <1>1, <1>2, <1>3, <1>4
<1>6. Plan(x, P, u)
  <2>1. ASSUME NEW i \in 1..(m - 1) PROVE u[i] = FortiOS!Fails \/ Fit(x, P, u[i])
    <3>1. i + 1 \in DOMAIN bs /\ u[i] = bs[i + 1]
      BY <1>1, <1>3, <1>5
    <3>2. bs[i + 1] = FortiOS!Fails \/ Fit(x, P, bs[i + 1])
      BY <3>1 DEF Plan
    <3> QED
      BY <3>1, <3>2
  <2>2. IsList(u)
    BY <1>3, <1>5, m - 1 \in Nat DEF IsList
  <2> QED
    BY <1>5, <2>1, <2>2 DEF Plan
<1>7. 1 \in DOMAIN bs
  BY <1>1, <1>3
<1>9. Head(bs) = bs[1]
  OBVIOUS
<1>8. \A i \in DOMAIN u : i + 1 \in DOMAIN bs /\ u[i] = bs[i + 1]
  BY <1>1, <1>3, <1>5
<1> QED
  BY <1>4, <1>6, <1>7, <1>8, <1>9

\* The operators that each vendor's module has a copy of are the same.
LEMMA SameForEach ==
  /\ \A f : Aruba!ForEach(f) = ForEach(f)
  /\ \A f : FortiOS!ForEach(f) = ForEach(f)
  /\ \A f : IOS!ForEach(f) = ForEach(f)
<1>1. \A S : /\ Aruba!Cardinality(S) = Cardinality(S)
             /\ FortiOS!Cardinality(S) = Cardinality(S)
             /\ IOS!Cardinality(S) = Cardinality(S)
  BY Zenon DEF Aruba!Cardinality, FortiOS!Cardinality, IOS!Cardinality, Cardinality
<1>2. \A f : /\ Aruba!IsInjective(f) = IsInjective(f)
             /\ FortiOS!IsInjective(f) = IsInjective(f)
             /\ IOS!IsInjective(f) = IsInjective(f)
  BY Zenon DEF Aruba!IsInjective, FortiOS!IsInjective, IOS!IsInjective, IsInjective
<1>3. \A S : /\ Aruba!SetToSeq(S) = SetToSeq(S)
             /\ FortiOS!SetToSeq(S) = SetToSeq(S)
             /\ IOS!SetToSeq(S) = SetToSeq(S)
  BY <1>1, <1>2, Zenon DEF Aruba!SetToSeq, FortiOS!SetToSeq, IOS!SetToSeq, SetToSeq
<1>4. \A f : /\ Aruba!FlattenSeq(f) = FlattenSeq(f)
             /\ FortiOS!FlattenSeq(f) = FlattenSeq(f)
             /\ IOS!FlattenSeq(f) = FlattenSeq(f)
  BY DEF Aruba!FlattenSeq, FortiOS!FlattenSeq, IOS!FlattenSeq, FlattenSeq
<1> QED
  BY <1>3, <1>4 DEF Aruba!ForEach, FortiOS!ForEach, IOS!ForEach, ForEach

\* When is the same for each vendor's copy of the models ...
LEMMA SameWhen ==
  /\ \A c, b : Aruba!When(c, b) = When(c, b)
  /\ \A c, b : FortiOS!When(c, b) = When(c, b)
  /\ \A c, b : IOS!When(c, b) = When(c, b)
  BY DEF Aruba!When, FortiOS!When, IOS!When, When

\* What a function with a finite domain returns.
LEMMA FiniteImage ==
  ASSUME NEW f, NEW T, IsFiniteSet(DOMAIN f), T = {f[y] : y \in DOMAIN f}
  PROVE  IsFiniteSet(T)
<1> DEFINE g == [y \in DOMAIN f |-> f[y]]
<1>1. g \in Surjection(DOMAIN f, T)
  BY Zenon DEF Surjection
<1> QED
  BY <1>1, FS_Surjection

\* An Option.
LEMMA AtMostOneFinite ==
  ASSUME NEW S, AtMostOne(S)
  PROVE  IsFiniteSet(S)
<1>1. CASE S = {}
  BY <1>1, FS_EmptySet
<1>2. CASE S # {}
  <2>1. PICK a : S = {a}
    BY <1>2 DEF AtMostOne
  <2> QED
    BY <2>1, FS_Singleton
<1> QED
  BY <1>1, <1>2

\* The members of a list.
LEMMA FiniteMembers ==
  ASSUME NEW s, IsList(s)
  PROVE  IsFiniteSet(ToSet(s))
<1>1. IsFiniteSet(DOMAIN s)
  BY FS_Interval DEF IsList
<1> QED
  BY <1>1, FiniteImage DEF ToSet

\* Dropping takes the members of S out of a list and keeps the others (by
\* Induction: the function it walks with is recursive).
LEMMA DroppingKeeps ==
  ASSUME NEW s, NEW S, IsList(s)
  PROVE  IsList(Dropping(s, S)) /\ ToSet(Dropping(s, S)) = ToSet(s) \ S
<1> DEFINE N == Len(s)
           Grow(a, v) == IF v \in S THEN a ELSE Append(a, v)
<1>0. N \in Nat /\ DOMAIN s = 1..N
  BY DEF IsList
<1> DEFINE Upto(f, k) == /\ f[0] = <<>> /\ f = [n \in 0..k |-> f[n]]
                         /\ \A n \in 1..k : f[n] = Grow(f[n - 1], s[n])
           T == {k \in Nat : \E f : Upto(f, k)}
           Is(r) == r = [n \in 0..N |-> IF n = 0 THEN <<>> ELSE Grow(r[n - 1], s[n])]
           kept == CHOOSE r : Is(r)
<1>1. Dropping(s, S) = kept[N]
  BY DEF Dropping
<1> HIDE DEF Grow
<1>2. 0 \in T
  <2>1. Upto([n \in 0..0 |-> <<>>], 0)
    OBVIOUS
  <2> QED
    BY <2>1
<1>3. ASSUME NEW k \in Nat, k \in T PROVE k + 1 \in T
  <2>1. PICK f : Upto(f, k)
    BY <1>3
  <2> DEFINE g == [n \in 0..(k + 1) |-> IF n = k + 1 THEN Grow(f[k], s[k + 1]) ELSE f[n]]
  <2>2. g[0] = <<>>
    BY <2>1
  <2>3. ASSUME NEW n \in 1..(k + 1) PROVE g[n] = Grow(g[n - 1], s[n])
    <3>1. g[n - 1] = f[n - 1]
      OBVIOUS
    <3>2. CASE n = k + 1
      BY <3>1, <3>2
    <3>3. CASE n # k + 1
      <4>1. n \in 1..k /\ g[n] = f[n]
        BY <3>3
      <4>2. f[n] = Grow(f[n - 1], s[n])
        BY <2>1, <4>1
      <4> QED
        BY <4>1, <4>2, <3>1
    <3> QED
      BY <3>2, <3>3
  <2>4. g = [n \in 0..(k + 1) |-> g[n]]
    OBVIOUS
  <2> HIDE DEF g
  <2>5. Upto(g, k + 1)
    BY <2>2, <2>3, <2>4
  <2> HIDE DEF Upto
  <2> QED
    BY <2>5
<1> HIDE DEF T, N
<1>4. N \in T
  BY <1>0, <1>2, <1>3, Induction
<1>5. PICK f : Upto(f, N)
  BY <1>4 DEF T
<1>6. Is(f)
  <2>1. ASSUME NEW n \in 0..N PROVE f[n] = IF n = 0 THEN <<>> ELSE Grow(f[n - 1], s[n])
    <3>1. n = 0 \/ n \in 1..N
      BY <1>0
    <3> QED
      BY <3>1, <1>5
  <2>2. f = [n \in 0..N |-> f[n]]
    BY <1>5
  <2> QED
    BY <2>1, <2>2
<1>7. Is(kept)
  <2> HIDE DEF Is
  <2> QED
    BY <1>6
<1> HIDE DEF kept
<1>8. kept[0] = <<>> /\ \A n \in 1..N : kept[n] = Grow(kept[n - 1], s[n])
  BY <1>0, <1>7
<1> DEFINE Right(n) == /\ IsList(kept[n])
                       /\ \A v : v \in ToSet(kept[n]) <=> v \notin S /\ \E i \in 1..n : s[i] = v
           G == {n \in Nat : n <= N => Right(n)}
<1>9. 0 \in G
  <2>1. DOMAIN <<>> = 1..0
    OBVIOUS
  <2>2. IsList(kept[0]) /\ ToSet(kept[0]) = {}
    BY <1>8, <2>1 DEF IsList, ToSet
  <2> QED
    BY <2>2
<1>10. ASSUME NEW n \in Nat, n \in G PROVE n + 1 \in G
  <2> SUFFICES ASSUME n + 1 <= N PROVE Right(n + 1)
    OBVIOUS
  <2>1. Right(n) /\ n + 1 \in 1..N /\ (n + 1) - 1 = n
    BY <1>0, <1>10
  <2>2. PICK a, b, w : a = kept[n] /\ b = kept[n + 1] /\ w = s[n + 1]
    OBVIOUS
  <2>3. b = Grow(a, w)
    BY <1>8, <2>1, <2>2
  <2>4. IsList(a) /\ \A v : v \in ToSet(a) <=> v \notin S /\ \E i \in 1..n : s[i] = v
    BY <2>1, <2>2
  <2>5. \A i \in Int : i \in 1..(n + 1) <=> i \in 1..n \/ i = n + 1
    OBVIOUS
  <2>6. \A v : (\E i \in 1..(n + 1) : s[i] = v) <=> (\E i \in 1..n : s[i] = v) \/ v = w
    BY <2>2, <2>5
  <2>7. CASE w \in S
    <3>1. b = a
      BY <2>3, <2>7 DEF Grow
    <3> QED
      BY <2>2, <2>4, <2>6, <2>7, <3>1
  <2>8. CASE w \notin S
    <3>1. b = Append(a, w)
      BY <2>3, <2>8 DEF Grow
    <3>2. PICK m \in Nat : DOMAIN a = 1..m
      BY <2>4 DEF IsList
    <3>3. DOMAIN b = 1..(m + 1) /\ b[m + 1] = w /\ \A i \in 1..m : b[i] = a[i]
      BY <3>1, <3>2
    <3>4. \A v : v \in ToSet(b) <=> v \in ToSet(a) \/ v = w
      <4> SUFFICES ASSUME NEW v PROVE v \in ToSet(b) <=> v \in ToSet(a) \/ v = w
        OBVIOUS
      <4>1. ASSUME v \in ToSet(b) PROVE v \in ToSet(a) \/ v = w
        <5>1. PICK i \in 1..(m + 1) : b[i] = v
          BY <3>3, <4>1 DEF ToSet
        <5> QED
          BY <3>2, <3>3, <5>1 DEF ToSet
      <4>2. ASSUME v \in ToSet(a) PROVE v \in ToSet(b)
        <5>1. PICK i \in 1..m : a[i] = v
          BY <3>2, <4>2 DEF ToSet
        <5>2. i \in 1..(m + 1)
          OBVIOUS
        <5> QED
          BY <3>3, <5>1, <5>2 DEF ToSet
      <4>3. ASSUME v = w PROVE v \in ToSet(b)
        <5>1. m + 1 \in DOMAIN b /\ b[m + 1] = v
          BY <3>3, <4>3
        <5> QED
          BY <5>1 DEF ToSet
      <4> QED
        BY <4>1, <4>2, <4>3
    <3>5. IsList(b)
      BY <3>3 DEF IsList
    <3> QED
      BY <2>2, <2>4, <2>6, <2>8, <3>4, <3>5
  <2> QED
    BY <2>7, <2>8
<1> HIDE DEF G
<1>11. N \in G
  BY <1>0, <1>9, <1>10, Induction
<1>12. Right(N)
  BY <1>0, <1>11 DEF G
<1>13. \A v : v \in ToSet(s) <=> \E i \in 1..N : s[i] = v
  BY <1>0 DEF ToSet
<1> QED
  BY <1>1, <1>12, <1>13

\* Sorted lists every number of a finite set, and nothing else.
LEMMA SortedHasAll ==
  ASSUME NEW S, IsFiniteSet(S), S \subseteq Nat
  PROVE  IsList(Sorted(S)) /\ ToSet(Sorted(S)) = S
<1> DEFINE n == Cardinality(S)
           Below(x) == {y \in S : y < x}
           rank == [x \in S |-> Cardinality(Below(x))]
<1>0. n \in Nat
  BY FS_CardinalityType
<1>1. \A x \in S : IsFiniteSet(Below(x)) /\ Cardinality(Below(x)) \in Nat
  BY FS_Subset, FS_CardinalityType
<1>2. ASSUME NEW x \in S, NEW z \in S, x < z PROVE Cardinality(Below(x)) < Cardinality(Below(z))
  <2>1. Below(x) \in SUBSET Below(z)
    <3>1. \A y \in S : y < x => y < z
      BY <1>2
    <3> QED
      BY <3>1
  <2>2. x \in Below(z) /\ x \notin Below(x)
    BY <1>2
  <2> HIDE DEF Below
  <2>3. Below(x) # Below(z)
    BY <2>2
  <2>4. /\ IsFiniteSet(Below(z)) /\ Cardinality(Below(x)) \in Nat /\ Cardinality(Below(z)) \in Nat
    BY <1>1
  <2>5. /\ Cardinality(Below(x)) <= Cardinality(Below(z))
        /\ Cardinality(Below(z)) = Cardinality(Below(x)) => Below(z) = Below(x)
    BY <2>1, <2>4, FS_Subset
  <2> QED
    BY <2>3, <2>4, <2>5
<1>3. ASSUME NEW x \in S PROVE Cardinality(Below(x)) \in 0..(n - 1)
  <2>1. Below(x) \in SUBSET S /\ x \notin Below(x)
    OBVIOUS
  <2> HIDE DEF Below
  <2>2. Below(x) # S
    BY <2>1
  <2>3. Cardinality(Below(x)) <= n /\ Cardinality(Below(x)) # n
    BY <2>1, <2>2, FS_Subset
  <2> QED
    BY <1>0, <1>1, <2>3
<1> HIDE DEF Below
<1>4. \A x, z \in S : Cardinality(Below(x)) = Cardinality(Below(z)) => x = z
  <2> SUFFICES ASSUME NEW x \in S, NEW z \in S, Cardinality(Below(x)) = Cardinality(Below(z)), x # z
               PROVE  FALSE
    OBVIOUS
  <2>1. x < z \/ z < x
    OBVIOUS
  <2> QED
    BY <1>1, <1>2, <2>1
<1>5. rank \in Injection(S, 0..(n - 1))
  <2>1. rank \in [S -> 0..(n - 1)]
    BY <1>3
  <2>2. IsInjective(rank)
    BY <1>4 DEF IsInjective
  <2> QED
    BY <2>1, <2>2 DEF Injection
<1> HIDE DEF n, rank
<1>6. IsFiniteSet(0..(n - 1)) /\ Cardinality(0..(n - 1)) = n
  <2>1. 0 \in Int /\ n - 1 \in Int
    BY <1>0
  <2>2. /\ IsFiniteSet(0..(n - 1))
        /\ Cardinality(0..(n - 1)) = IF 0 > n - 1 THEN 0 ELSE (n - 1) - 0 + 1
    BY <2>1, FS_Interval
  <2> QED
    BY <1>0, <2>2
<1>7. rank \in Surjection(S, 0..(n - 1))
  BY <1>5, <1>6, FS_Injection DEF n
<1>8. \A k \in 0..(n - 1) : \E x \in S : rank[x] = k
  BY <1>7, Zenon DEF Surjection
<1>9. \A k \in 0..(n - 1) : \E x \in S : Cardinality(Below(x)) = k
  BY <1>8 DEF rank
<1> DEFINE s == Sorted(S)
<1>10. DOMAIN s = 1..n /\ \A i \in 1..n : s[i] = CHOOSE x \in S : Cardinality(Below(x)) = i - 1
  BY DEF Sorted, n, Below
<1>11. \A i \in 1..n : s[i] \in S /\ Cardinality(Below(s[i])) = i - 1
  <2> SUFFICES ASSUME NEW i \in 1..n PROVE s[i] \in S /\ Cardinality(Below(s[i])) = i - 1
    OBVIOUS
  <2>1. i - 1 \in 0..(n - 1)
    BY <1>0
  <2>2. \E x \in S : Cardinality(Below(x)) = i - 1
    BY <1>9, <2>1
  <2>3. s[i] = CHOOSE x \in S : Cardinality(Below(x)) = i - 1
    BY <1>10
  <2> HIDE DEF s
  <2> QED
    BY <2>2, <2>3
<1> HIDE DEF s
<1>12. \A x \in S : \E i \in 1..n : s[i] = x
  <2> SUFFICES ASSUME NEW x \in S PROVE \E i \in 1..n : s[i] = x
    OBVIOUS
  <2>1. Cardinality(Below(x)) \in 0..(n - 1)
    BY <1>3
  <2> DEFINE i == Cardinality(Below(x)) + 1
  <2>2. i \in 1..n /\ i - 1 = Cardinality(Below(x))
    BY <1>0, <2>1
  <2> HIDE DEF i
  <2>3. s[i] = x
    BY <1>4, <1>11, <2>2
  <2> QED
    BY <2>2, <2>3
<1>13. IsList(s)
  BY <1>0, <1>10 DEF IsList
<1>14. ToSet(s) = S
  BY <1>10, <1>11, <1>12 DEF ToSet
<1> QED
  BY <1>13, <1>14 DEF s

(***************************************************************************)
(* What the parsers find and what the diff asks for, of a finite size and  *)
(* within what the configuration names.                                    *)
(***************************************************************************)

\* The ports that an apply may touch: with enforce_port_config all of them.
Reached(x) == Managed(x) \cup (IF x.enforce THEN DOMAIN x.dev.port ELSE {})

\* An SNMP configuration of a finite size, ...
SnmpIsFinite(s) ==
  /\ IsFiniteSet(DOMAIN s.communities) /\ IsFiniteSet(DOMAIN s.trap_receivers)
  /\ IsFiniteSet(s.enabled_traps)

\* As far as the vendor's generator looks at it.
SnmpIsReadable(x, s) ==
  /\ IsFiniteSet(DOMAIN s.communities)
  /\ vendor(x.cfg.model) # "Fortiswitch" =>
       IsFiniteSet(DOMAIN s.trap_receivers) /\ IsFiniteSet(s.enabled_traps)

\* What a parser makes of a switch has a finite size and the switch's ports.
Readable(x, state) ==
  /\ IsFiniteSet(DOMAIN state.vlans) /\ IsFiniteSet(DOMAIN state.ports)
  /\ IsFiniteSet(DOMAIN state.port_mirrors)
  /\ DOMAIN state.ports \subseteq DOMAIN x.dev.port
  /\ \A p \in DOMAIN state.ports : IsList(state.ports[p].tagged_vlans)
  /\ \A s \in state.snmp : SnmpIsReadable(x, s)

\* What is different in SNMP.
SnmpDiffIsFinite(x, s) ==
  /\ IsFiniteSet(s.communities_to_add) /\ IsFiniteSet(s.communities_to_remove)
  /\ IsFiniteSet(s.communities_to_update)
  /\ IsFiniteSet(s.trap_receivers_to_add) /\ IsFiniteSet(s.traps_to_enable)
  /\ vendor(x.cfg.model) # "Fortiswitch" =>
       IsFiniteSet(s.trap_receivers_to_remove) /\ IsFiniteSet(s.traps_to_disable)

\* A diff is finite and names what the configuration names: VLANs that stay
\* are not removed, and ports that may not be touched are not reset.
DiffFits(x, d) ==
  /\ IsFiniteSet(d.vlans_to_add) /\ IsFiniteSet(d.vlans_to_update) /\ IsFiniteSet(d.vlans_to_remove)
  /\ IsFiniteSet(d.ports_to_configure) /\ IsFiniteSet(d.ports_to_reset)
  /\ IsFiniteSet(d.mirror_dest_ports_to_configure)
  /\ IsFiniteSet(d.mirrors_to_add) /\ IsFiniteSet(d.mirrors_to_update)
  /\ IsFiniteSet(d.mirrors_to_remove)
  /\ d.vlans_to_add \subseteq DOMAIN x.cfg.vlans /\ d.vlans_to_update \subseteq DOMAIN x.cfg.vlans
  /\ d.vlans_to_remove \cap Kept(x) = {}
  /\ d.ports_to_configure \subseteq DOMAIN x.cfg.ports
  /\ d.ports_to_reset \subseteq Reached(x)
  /\ d.mirror_dest_ports_to_configure \subseteq mirror_destinations(x.cfg)
  /\ \A s \in d.snmp_diff : SnmpDiffIsFinite(x, s)

\* What the assumption on the scenarios says of one of them.
LEMMA ConfigIsFinite ==
  ASSUME NEW x \in Scenarios
  PROVE  /\ IsFiniteSet(DOMAIN x.cfg.vlans) /\ IsFiniteSet(DOMAIN x.cfg.ports)
         /\ IsFiniteSet(DOMAIN x.cfg.port_mirrors) /\ IsFiniteSet(mirror_destinations(x.cfg))
<1>1. \A f \in {"vlans", "ports", "port_mirrors"} : IsFiniteSet(DOMAIN x.cfg[f])
  BY ScenariosAreTyped
<1>2. /\ IsFiniteSet(DOMAIN x.cfg.vlans) /\ IsFiniteSet(DOMAIN x.cfg.ports)
      /\ IsFiniteSet(DOMAIN x.cfg.port_mirrors)
  BY <1>1
<1> DEFINE f == [s \in DOMAIN x.cfg.port_mirrors |-> x.cfg.port_mirrors[s].destination_port]
<1>3. mirror_destinations(x.cfg) = {f[s] : s \in DOMAIN f} /\ IsFiniteSet(DOMAIN f)
  BY <1>2 DEF mirror_destinations
<1> HIDE DEF f
<1>4. IsFiniteSet(mirror_destinations(x.cfg))
  BY <1>3, FiniteImage
<1> QED
  BY <1>2, <1>4

\* The same, of the values.
LEMMA ConfigTyped ==
  ASSUME NEW x \in Scenarios
  PROVE  /\ x.cfg.model \in SwitchModel /\ x.enforce \in BOOLEAN
         /\ DOMAIN x.cfg.vlans \subseteq VlanId /\ Kept(x) \subseteq VlanId
         /\ \A p \in DOMAIN x.cfg.ports : x.cfg.ports[p] \in Port(Kept(x), STRING)
<1>1. /\ x.cfg.model \in SwitchModel /\ x.enforce \in BOOLEAN
      /\ DOMAIN x.cfg.vlans \subseteq VlanId
      /\ \A p \in DOMAIN x.cfg.ports : x.cfg.ports[p] \in Port(DOMAIN x.cfg.vlans \cup {1}, STRING)
  BY ScenariosAreTyped
<1> QED
  BY <1>1, OneIsVlan DEF Kept

\* What may be said of one SNMP configuration of a scenario.
LEMMA SnmpTyped ==
  ASSUME NEW x \in Scenarios
  PROVE  /\ AtMostOne(x.cfg.snmp)
         /\ \A s \in x.cfg.snmp :
              /\ s.enabled_traps \subseteq TrapType
              /\ IsFiniteSet(DOMAIN s.communities) /\ IsFiniteSet(DOMAIN s.trap_receivers)
              /\ AtMostOne(s.reads) /\ \A r \in s.reads : AtMostOne(r.community)
<1>1. AtMostOne(x.cfg.snmp)
  BY ScenariosAreTyped
<1>2. \A s \in x.cfg.snmp :
         /\ s.enabled_traps \subseteq TrapType
         /\ IsFiniteSet(DOMAIN s.communities) /\ IsFiniteSet(DOMAIN s.trap_receivers)
         /\ AtMostOne(s.reads) /\ \A r \in s.reads : AtMostOne(r.community)
  BY ScenariosAreTyped
<1> QED
  BY <1>1, <1>2

\* effective_snmp adds at most the service's own community.
LEMMA EffectiveIsFinite ==
  ASSUME NEW x \in Scenarios
  PROVE  /\ AtMostOne(effective_snmp(x.cfg.snmp))
         /\ \A s \in effective_snmp(x.cfg.snmp) : SnmpIsFinite(s)
<1> DEFINE own(s) == IF reads_enabled(x.cfg.snmp)
                     THEN {c \in UNION {r.community : r \in s.reads} : c.name \notin DOMAIN s.communities}
                     ELSE {}
           names(s) == DOMAIN s.communities \cup {c.name : c \in own(s)}
           effective(s) ==
             [communities |->
                [n \in names(s) |->
                   IF n \in DOMAIN s.communities THEN s.communities[n]
                   ELSE [access |-> "operator", allowed_hosts |-> UNION {c.allowed_hosts : c \in own(s)}]],
              trap_receivers |-> s.trap_receivers, enabled_traps |-> s.enabled_traps]
<1>1. effective_snmp(x.cfg.snmp) = {effective(s) : s \in x.cfg.snmp}
  BY DEF effective_snmp
<1>2. ASSUME NEW s \in x.cfg.snmp PROVE SnmpIsFinite(effective(s))
  <2>1. IsFiniteSet(DOMAIN s.communities) /\ IsFiniteSet(DOMAIN s.trap_receivers)
    BY SnmpTyped
  <2>2. AtMostOne(s.reads) /\ \A r \in s.reads : AtMostOne(r.community)
    BY SnmpTyped
  <2>3. IsFiniteSet(UNION {r.community : r \in s.reads})
    <3>1. AtMostOne({r.community : r \in s.reads})
      BY <2>2 DEF AtMostOne
    <3>2. \A T \in {r.community : r \in s.reads} : IsFiniteSet(T)
      BY <2>2, AtMostOneFinite
    <3> QED
      BY <3>1, <3>2, AtMostOneFinite, FS_UNION
  <2>4. IsFiniteSet(own(s))
    <3>1. own(s) \in SUBSET UNION {r.community : r \in s.reads}
      OBVIOUS
    <3> HIDE DEF own
    <3> QED
      BY <2>3, <3>1, FS_Subset
  <2> HIDE DEF own
  <2>5. IsFiniteSet({c.name : c \in own(s)})
    <3> DEFINE f == [c \in own(s) |-> c.name]
    <3>1. DOMAIN f = own(s) /\ \A c \in own(s) : f[c] = c.name
      OBVIOUS
    <3> HIDE DEF f
    <3>2. {c.name : c \in own(s)} = {f[c] : c \in DOMAIN f}
      BY <3>1
    <3> QED
      BY <2>4, <3>1, <3>2, FiniteImage
  <2>6. IsFiniteSet(names(s))
    BY <2>1, <2>5, FS_Union
  <2>7. IsFiniteSet({"mac-notify", "link-change", "all"})
    <3>1. IsFiniteSet({"mac-notify"})
      BY FS_Singleton
    <3>2. IsFiniteSet({"mac-notify"} \cup {"link-change"})
      BY <3>1, FS_AddElement
    <3>3. IsFiniteSet(({"mac-notify"} \cup {"link-change"}) \cup {"all"})
      BY <3>2, FS_AddElement
    <3>4. {"mac-notify", "link-change", "all"} = ({"mac-notify"} \cup {"link-change"}) \cup {"all"}
      OBVIOUS
    <3> QED
      BY <3>3, <3>4
  <2>8. IsFiniteSet(s.enabled_traps)
    BY <2>7, SnmpTyped, FS_Subset DEF TrapType
  <2> HIDE DEF names
  <2> QED
    BY <2>1, <2>6, <2>8 DEF SnmpIsFinite
<1>3. AtMostOne(x.cfg.snmp)
  BY SnmpTyped
<1> HIDE DEF effective
<1> QED
  BY <1>1, <1>2, <1>3 DEF AtMostOne

\* compute_snmp_diff of two finite configurations.
LEMMA SnmpDifference ==
  ASSUME NEW x, NEW a, NEW b, SnmpIsReadable(x, a), SnmpIsFinite(b)
  PROVE  SnmpDiffIsFinite(x, compute_snmp_diff(a, b))
<1> DEFINE d == compute_snmp_diff(a, b)
<1>1. /\ d.communities_to_add = DOMAIN b.communities \ DOMAIN a.communities
      /\ d.communities_to_remove = DOMAIN a.communities \ DOMAIN b.communities
      /\ d.communities_to_update \in SUBSET DOMAIN a.communities
      /\ d.trap_receivers_to_add = DOMAIN b.trap_receivers \ DOMAIN a.trap_receivers
      /\ d.trap_receivers_to_remove = DOMAIN a.trap_receivers \ DOMAIN b.trap_receivers
      /\ d.traps_to_enable = b.enabled_traps \ a.enabled_traps
      /\ d.traps_to_disable = a.enabled_traps \ b.enabled_traps
  BY DEF compute_snmp_diff
<1> HIDE DEF d
<1>2. SnmpDiffIsFinite(x, d)
  BY <1>1, FS_Difference, FS_Subset DEF SnmpIsReadable, SnmpIsFinite, SnmpDiffIsFinite
<1> QED
  BY <1>2 DEF d

\* No SNMP at all.
LEMMA EmptyIsFinite == SnmpIsFinite(EmptySnmp)
<1>1. DOMAIN EmptySnmp.communities = {} /\ DOMAIN EmptySnmp.trap_receivers = {} /\ EmptySnmp.enabled_traps = {}
  BY DEF EmptySnmp
<1> QED
  BY <1>1, FS_EmptySet DEF SnmpIsFinite

\* compute_diff of what a parser found, for every configuration.
LEMMA DiffIsFit ==
  ASSUME NEW x \in Scenarios, NEW cur1, Readable(x, cur1)
  PROVE  DiffFits(x, compute_diff(cur1, x.cfg, x.enforce))
<1> DEFINE d == compute_diff(cur1, x.cfg, x.enforce)
<1>1. /\ d.vlans_to_add = vlans_to_add(cur1, x.cfg) /\ d.vlans_to_remove = vlans_to_remove(cur1, x.cfg)
      /\ d.vlans_to_update = vlans_to_update(cur1, x.cfg)
      /\ d.ports_to_configure = ports_to_configure(cur1, x.cfg)
      /\ d.ports_to_reset = ports_to_reset(cur1, x.cfg, x.enforce)
      /\ d.mirrors_to_add = mirrors_to_add(cur1, x.cfg)
      /\ d.mirrors_to_remove = mirrors_to_remove(cur1, x.cfg)
      /\ d.mirrors_to_update = mirrors_to_update(cur1, x.cfg)
      /\ d.mirror_dest_ports_to_configure = mirror_dest_ports_to_configure(cur1, x.cfg)
      /\ d.snmp_diff = diff_snmp(cur1, x.cfg)
  BY DEF compute_diff
<1> HIDE DEF d
<1>2. /\ d.vlans_to_add \in SUBSET DOMAIN x.cfg.vlans
      /\ d.vlans_to_update \in SUBSET DOMAIN x.cfg.vlans
      /\ d.vlans_to_remove \in SUBSET DOMAIN cur1.vlans
      /\ d.vlans_to_remove \cap Kept(x) = {}
  BY <1>1 DEF vlans_to_add, vlans_to_update, vlans_to_remove, Kept
<1>3. /\ d.ports_to_configure \in SUBSET DOMAIN x.cfg.ports
      /\ d.ports_to_reset \in SUBSET DOMAIN cur1.ports
      /\ d.ports_to_reset # {} => x.enforce
  BY <1>1 DEF ports_to_configure, ports_to_reset
<1>4. /\ d.mirrors_to_add \in SUBSET DOMAIN x.cfg.port_mirrors
      /\ d.mirrors_to_update \in SUBSET DOMAIN x.cfg.port_mirrors
      /\ d.mirrors_to_remove \in SUBSET DOMAIN cur1.port_mirrors
      /\ d.mirror_dest_ports_to_configure \in SUBSET mirror_destinations(x.cfg)
  BY <1>1 DEF mirrors_to_add, mirrors_to_update, mirrors_to_remove, mirror_dest_ports_to_configure
<1>5. ASSUME NEW s \in d.snmp_diff PROVE SnmpDiffIsFinite(x, s)
  <2> DEFINE or_empty(o) == IF o = {} THEN EmptySnmp ELSE CHOOSE y \in o : TRUE
  <2>1. s = compute_snmp_diff(or_empty(cur1.snmp), or_empty(effective_snmp(x.cfg.snmp)))
    BY <1>1, <1>5 DEF diff_snmp
  <2>2. SnmpIsReadable(x, or_empty(cur1.snmp))
    BY EmptyIsFinite DEF Readable, SnmpIsReadable, SnmpIsFinite
  <2>3. SnmpIsFinite(or_empty(effective_snmp(x.cfg.snmp)))
    BY EmptyIsFinite, EffectiveIsFinite
  <2> HIDE DEF or_empty
  <2> QED
    BY <2>1, <2>2, <2>3, SnmpDifference
<1>6. /\ IsFiniteSet(DOMAIN x.cfg.vlans) /\ IsFiniteSet(DOMAIN x.cfg.ports)
      /\ IsFiniteSet(DOMAIN x.cfg.port_mirrors) /\ IsFiniteSet(mirror_destinations(x.cfg))
  BY ConfigIsFinite
<1>7. /\ IsFiniteSet(DOMAIN cur1.vlans) /\ IsFiniteSet(DOMAIN cur1.ports)
      /\ IsFiniteSet(DOMAIN cur1.port_mirrors) /\ DOMAIN cur1.ports \subseteq DOMAIN x.dev.port
  BY DEF Readable
<1>8. d.ports_to_reset \subseteq Reached(x)
  BY <1>3, <1>7 DEF Reached
<1>9. /\ IsFiniteSet(d.vlans_to_add) /\ IsFiniteSet(d.vlans_to_update) /\ IsFiniteSet(d.vlans_to_remove)
      /\ IsFiniteSet(d.ports_to_configure) /\ IsFiniteSet(d.ports_to_reset)
      /\ IsFiniteSet(d.mirror_dest_ports_to_configure)
      /\ IsFiniteSet(d.mirrors_to_add) /\ IsFiniteSet(d.mirrors_to_update)
      /\ IsFiniteSet(d.mirrors_to_remove)
  BY <1>2, <1>3, <1>4, <1>6, <1>7, FS_Subset
<1>10. DiffFits(x, d)
  BY <1>2, <1>3, <1>4, <1>5, <1>8, <1>9 DEF DiffFits
<1> QED
  BY <1>10 DEF d

\* Commands that fit, one kind at a time.
LEMMA FitsOther ==
  ASSUME NEW x, NEW P, NEW c, c.op \in OtherOps
  PROVE  Fits(x, P, c)
  BY DEF Fits, OtherOps, PortOps

\* The commands of the plans fit, one kind after the other: making a VLAN,
LEMMA FitsVlan ==
  ASSUME NEW x, NEW P, NEW v \in VlanId
  PROVE  Fits(x, P, [op |-> "vlan", vlan |-> v])
  BY DEF Fits, OtherOps, PortOps, VlanOps

\* ... setting a field of one,
LEMMA FitsVlanSet ==
  ASSUME NEW x, NEW P, NEW v \in VlanId, NEW field, NEW value
  PROVE  Fits(x, P, [op |-> "vlan set", vlan |-> v, field |-> field, value |-> value])
  BY DEF Fits, OtherOps, PortOps, VlanOps

\* ... removing one that goes, or a port from it,
LEMMA FitsGone ==
  ASSUME NEW x, NEW P, NEW v, v \notin Kept(x), NEW p
  PROVE  /\ Fits(x, P, [op |-> "no vlan", vlan |-> v])
         /\ Fits(x, P, [op |-> "no untagged", port |-> p, vlan |-> v])
         /\ vendor(x.cfg.model) # "Aruba" => Fits(x, P, [op |-> "delete vlan", vlan |-> v])
  BY DEF Fits, OtherOps, PortOps, VlanOps

\* ... setting a field of a port,
LEMMA FitsPortSet ==
  ASSUME NEW x, NEW P, NEW p \in P, NEW field, NEW value, field = "poe_enabled" => value \in BOOLEAN
  PROVE  Fits(x, P, port_set(p, field, value))
  BY DEF Fits, OtherOps, PortOps, VlanOps, port_set

\* ... putting a port into a VLAN untagged,
LEMMA FitsUntagged ==
  ASSUME NEW x, NEW P, NEW p \in P, NEW v \in VlanId, v \in Kept(x)
  PROVE  /\ Fits(x, P, [op |-> "untagged", port |-> p, vlan |-> v])
         /\ vendor(x.cfg.model) # "Aruba" => Fits(x, P, [op |-> "native", port |-> p, vlan |-> v])
  BY DEF Fits, OtherOps, PortOps, VlanOps

\* ... tagged,
LEMMA FitsTagged ==
  ASSUME NEW x, NEW P, NEW p \in P, NEW vlans, vlans \subseteq VlanId, vlans \subseteq Kept(x),
         IsFiniteSet(vlans)
  PROVE  /\ Fits(x, P, [op |-> "tagged", port |-> p, vlans |-> vlans])
         /\ vendor(x.cfg.model) # "Aruba" => Fits(x, P, [op |-> "set tagged", port |-> p, vlans |-> vlans])
  BY DEF Fits, OtherOps, PortOps, VlanOps

\* ... taking it out of VLANs,
LEMMA FitsNoTagged ==
  ASSUME NEW x, NEW P, NEW p, NEW vlans, p \in P \/ vlans \cap Kept(x) = {}
  PROVE  Fits(x, P, [op |-> "no tagged", port |-> p, vlans |-> vlans])
  BY DEF Fits, OtherOps, PortOps, VlanOps

\* ... its MAC notifications,
LEMMA FitsMac ==
  ASSUME NEW x, NEW P, NEW p \in P, NEW on, NEW t
  PROVE  Fits(x, P, [op |-> IF on THEN "mac trap" ELSE "no mac trap", port |-> p, trap |-> t])
<1>1. CASE on
  BY <1>1 DEF Fits, OtherOps, PortOps, VlanOps
<1>2. CASE ~ on
  BY <1>2 DEF Fits, OtherOps, PortOps, VlanOps
<1> QED
  BY <1>1, <1>2

\* ... and its mirroring.
LEMMA FitsMonitor ==
  ASSUME NEW x, NEW P, NEW p \in P, NEW direction
  PROVE  Fits(x, P, [op |-> "monitor", port |-> p, direction |-> direction])
  BY DEF Fits, OtherOps, PortOps, VlanOps

\* Each vendor's copy of the operators of SwitchModels and SwitchDevice.
LEMMA SameModels ==
  /\ \A l, S : /\ Aruba!Dropping(l, S) = Dropping(l, S) /\ FortiOS!Dropping(l, S) = Dropping(l, S)
               /\ IOS!Dropping(l, S) = Dropping(l, S)
  /\ \A s : Aruba!ToSet(s) = ToSet(s) /\ FortiOS!ToSet(s) = ToSet(s) /\ IOS!ToSet(s) = ToSet(s)
  /\ \A S : Aruba!the(S) = the(S) /\ FortiOS!the(S) = the(S) /\ IOS!the(S) = the(S)
  /\ \A p, f, v : /\ Aruba!port_set(p, f, v) = port_set(p, f, v)
                  /\ FortiOS!port_set(p, f, v) = port_set(p, f, v)
                  /\ IOS!port_set(p, f, v) = port_set(p, f, v)
  /\ \A f, k, v : Aruba!Put(f, k, v) = Put(f, k, v) /\ FortiOS!Put(f, k, v) = Put(f, k, v)
<1>1. \A l, S : /\ Aruba!Dropping(l, S) = Dropping(l, S) /\ FortiOS!Dropping(l, S) = Dropping(l, S)
                /\ IOS!Dropping(l, S) = Dropping(l, S)
  BY DEF Aruba!Dropping, FortiOS!Dropping, IOS!Dropping, Dropping
<1>2. \A s : Aruba!ToSet(s) = ToSet(s) /\ FortiOS!ToSet(s) = ToSet(s) /\ IOS!ToSet(s) = ToSet(s)
  BY DEF Aruba!ToSet, FortiOS!ToSet, IOS!ToSet, ToSet
<1>3. \A S : Aruba!the(S) = the(S) /\ FortiOS!the(S) = the(S) /\ IOS!the(S) = the(S)
  BY DEF Aruba!the, FortiOS!the, IOS!the, the
<1>4. \A p, f, v : /\ Aruba!port_set(p, f, v) = port_set(p, f, v)
                   /\ FortiOS!port_set(p, f, v) = port_set(p, f, v)
                   /\ IOS!port_set(p, f, v) = port_set(p, f, v)
  BY DEF Aruba!port_set, FortiOS!port_set, IOS!port_set, port_set
<1>5. \A f, k, v : Aruba!Put(f, k, v) = Put(f, k, v) /\ FortiOS!Put(f, k, v) = Put(f, k, v)
  BY DEF Aruba!Put, FortiOS!Put, Put
<1> QED
  BY <1>1, <1>2, <1>3, <1>4, <1>5

\* Sorted is the same for each vendor's copy of the models ...
LEMMA SameSorted == \A S : Aruba!Sorted(S) = Sorted(S) /\ FortiOS!Sorted(S) = Sorted(S)
<1>1. \A S : Aruba!Sorted(S) = Sorted(S)
  BY Zenon DEF Aruba!Sorted, Sorted, Aruba!Cardinality, Cardinality
<1>2. \A S : FortiOS!Sorted(S) = Sorted(S)
  BY Zenon DEF FortiOS!Sorted, Sorted, FortiOS!Cardinality, Cardinality
<1> QED
  BY <1>1, <1>2

\* ... and so is tagged_without_native.
LEMMA SameTagged ==
  \A p : /\ Aruba!tagged_without_native(p) = tagged_without_native(p)
         /\ FortiOS!tagged_without_native(p) = tagged_without_native(p)
  BY SameModels, Zenon DEF Aruba!tagged_without_native, FortiOS!tagged_without_native, tagged_without_native

\* Aruba: the parser.  It finds every VLAN and every port.
LEMMA ArubaReadable ==
  ASSUME NEW x \in Scenarios, NEW dev, NEW order, IsDevice(dev), DOMAIN dev.port = DOMAIN x.dev.port
  PROVE  /\ Readable(x, Aruba!parse_current_state(x.cfg, dev, order))
         /\ DOMAIN Aruba!parse_current_state(x.cfg, dev, order).ports = DOMAIN dev.port
         /\ DOMAIN Aruba!parse_current_state(x.cfg, dev, order).vlans = DOMAIN dev.vlans
<1> DEFINE c == Aruba!parse_current_state(x.cfg, dev, order)
<1>0. /\ IsFiniteSet(DOMAIN dev.vlans) /\ IsFiniteSet(DOMAIN dev.port)
      /\ IsFiniteSet(DOMAIN dev.communities) /\ IsFiniteSet(DOMAIN dev.receivers)
  BY DEF IsDevice
<1>1. DOMAIN c.vlans = DOMAIN dev.vlans /\ DOMAIN c.ports = DOMAIN dev.port
  BY DEF Aruba!parse_current_state
<1>2. IsFiniteSet(DOMAIN c.port_mirrors)
  <2>1. c.port_mirrors = <<>> \/ \E value : c.port_mirrors = Aruba!Put(<<>>, "1", value)
    BY DEF Aruba!parse_current_state
  <2> HIDE DEF c
  <2>2. DOMAIN <<>> = {} /\ \A value : DOMAIN Aruba!Put(<<>>, "1", value) = {"1"}
    BY DEF Aruba!Put
  <2>3. DOMAIN c.port_mirrors = {} \/ DOMAIN c.port_mirrors = {"1"}
    BY <2>1, <2>2
  <2>4. IsFiniteSet({}) /\ IsFiniteSet({"1"})
    BY FS_EmptySet, FS_Singleton
  <2> QED
    BY <2>3, <2>4
<1>3. ASSUME NEW p \in DOMAIN dev.port PROVE IsList(c.ports[p].tagged_vlans)
  <2> DEFINE native == IF dev.untagged[p] = 0 THEN 1 ELSE dev.untagged[p]
             S == dev.tagged[p] \cup {native}
  <2>1. c.ports[p].tagged_vlans = IF dev.tagged[p] = {} THEN <<>> ELSE Sorted(S)
    BY SameSorted DEF Aruba!parse_current_state, Aruba!parse_interface_name, Aruba!PortVlanInfo
  <2>2. IsFiniteSet(dev.tagged[p]) /\ dev.tagged[p] \subseteq VlanId /\ dev.untagged[p] \in VlanId
    BY DEF IsDevice
  <2>3. S \subseteq Nat
    BY <2>2 DEF VlanId
  <2>4. IsFiniteSet(S)
    BY <2>2, FS_AddElement
  <2> HIDE DEF S, c
  <2>5. IsList(Sorted(S)) /\ IsList(<<>>)
    BY <2>3, <2>4, SortedHasAll, FitNone DEF Fit
  <2> QED
    BY <2>1, <2>5
<1>4. ASSUME NEW s \in c.snmp PROVE SnmpIsReadable(x, s)
  <2>1. /\ DOMAIN s.communities = DOMAIN dev.communities /\ s.trap_receivers = dev.receivers
        /\ s.enabled_traps = dev.traps \cap {"link-change", "mac-notify"}
    BY <1>4 DEF Aruba!parse_current_state, Aruba!parse_snmp_config, Aruba!parse_snmp_trap_status
  <2>2. IsFiniteSet({"link-change", "mac-notify"})
    <3>1. IsFiniteSet({"link-change"})
      BY FS_Singleton
    <3>2. IsFiniteSet({"link-change"} \cup {"mac-notify"})
      BY <3>1, FS_AddElement
    <3> QED
      BY <3>2
  <2>3. IsFiniteSet(dev.traps \cap {"link-change", "mac-notify"})
    BY <2>2, FS_Intersection
  <2> QED
    BY <1>0, <2>1, <2>3 DEF SnmpIsReadable
<1> HIDE DEF c
<1>5. Readable(x, c)
  BY <1>0, <1>1, <1>2, <1>3, <1>4 DEF Readable
<1> QED
  BY <1>1, <1>5 DEF c

\* What may touch few ports may touch more.
LEMMA FitWider ==
  ASSUME NEW x, NEW P, NEW Q, P \subseteq Q, NEW s, Fit(x, P, s)
  PROVE  Fit(x, Q, s)
  BY DEF Fit, Fits

\* The same of a list of batches.
LEMMA PlanWider ==
  ASSUME NEW x, NEW P, NEW Q, P \subseteq Q, NEW bs, Plan(x, P, bs)
  PROVE  Plan(x, Q, bs)
  BY FitWider DEF Plan

\* The VLANs that go, in the order of a HashSet.
LEMMA ListedOrder ==
  ASSUME NEW S, IsFiniteSet(S), NEW order \in SetToSeqs(S)
  PROVE  IsList(order) /\ \A i \in DOMAIN order : order[i] \in S
<1>1. order \in [1..Cardinality(S) -> S] /\ Cardinality(S) \in Nat
  BY FS_CardinalityType DEF SetToSeqs
<1> QED
  BY <1>1 DEF IsList

\* The first of three.
LEMMA FirstOfThree ==
  ASSUME NEW s, NEW a, NEW b, NEW c, s = <<a, b, c>>
  PROVE  1 \in DOMAIN s /\ s[1] = a
  OBVIOUS

(***************************************************************************)
(* Aruba: VLANs.                                                           *)
(***************************************************************************)
LEMMA ArubaVlanCommands ==
  ASSUME NEW x \in Scenarios, NEW ids, IsFiniteSet(ids), ids \subseteq DOMAIN x.cfg.vlans
  PROVE  /\ Fit(x, {}, Aruba!generate_vlan_commands(x.cfg, ids))
         /\ \A v \in ids : \E j \in DOMAIN Aruba!generate_vlan_commands(x.cfg, ids) :
              Aruba!generate_vlan_commands(x.cfg, ids)[j] = [op |-> "vlan", vlan |-> v]
<1> DEFINE f == [v \in ids |->
             <<[op |-> "vlan", vlan |-> v],
               [op |-> "vlan set", vlan |-> v, field |-> "name", value |-> x.cfg.vlans[v].name],
               [op |-> "vlan set", vlan |-> v, field |-> "ip_config",
                value |-> x.cfg.vlans[v].ip_config]>>]
<1>1. Aruba!generate_vlan_commands(x.cfg, ids) = ForEach(f)
  BY SameForEach DEF Aruba!generate_vlan_commands
<1>2. ids \subseteq VlanId
  BY ConfigTyped
<1>3. ASSUME NEW v \in ids PROVE Fit(x, {}, f[v]) /\ 1 \in DOMAIN f[v] /\ f[v][1] = [op |-> "vlan", vlan |-> v]
  <2>1. /\ Fits(x, {}, [op |-> "vlan", vlan |-> v])
        /\ Fits(x, {}, [op |-> "vlan set", vlan |-> v, field |-> "name", value |-> x.cfg.vlans[v].name])
        /\ Fits(x, {}, [op |-> "vlan set", vlan |-> v, field |-> "ip_config",
                        value |-> x.cfg.vlans[v].ip_config])
    BY <1>2, FitsVlan, FitsVlanSet
  <2>2. f[v] = <<[op |-> "vlan", vlan |-> v],
                 [op |-> "vlan set", vlan |-> v, field |-> "name", value |-> x.cfg.vlans[v].name],
                 [op |-> "vlan set", vlan |-> v, field |-> "ip_config",
                  value |-> x.cfg.vlans[v].ip_config]>>
    OBVIOUS
  <2> HIDE DEF f
  <2>3. 1 \in DOMAIN f[v] /\ f[v][1] = [op |-> "vlan", vlan |-> v]
    BY <2>2, FirstOfThree
  <2>4. Fit(x, {}, f[v])
    BY <2>1, <2>2, FitThree
  <2> QED
    BY <2>3, <2>4
<1>4. DOMAIN f = ids
  OBVIOUS
<1> HIDE DEF f
<1>5. Fit(x, {}, ForEach(f))
  BY <1>3, <1>4, FitForEach
<1>6. \A v \in ids : \E j \in DOMAIN ForEach(f) : ForEach(f)[j] = f[v][1]
  <2>1. \A v \in DOMAIN f : IsList(f[v])
    BY <1>3, <1>4 DEF Fit
  <2>2. \A v \in DOMAIN f : \A k \in DOMAIN f[v] : \E j \in DOMAIN ForEach(f) : ForEach(f)[j] = f[v][k]
    BY <1>4, <2>1, ForEachMember
  <2> QED
    BY <1>3, <1>4, <2>2
<1> QED
  BY <1>1, <1>3, <1>5, <1>6

\* Ports leave the VLANs that go, and no others.
LEMMA ArubaMigrations ==
  ASSUME NEW x, NEW cur1, NEW order, IsFiniteSet(DOMAIN cur1.ports), IsList(order),
         \A i \in DOMAIN order : order[i] \notin Kept(x)
  PROVE  Fit(x, {}, Aruba!migrate_ports_before_vlan_deletion(Aruba!find_ports_to_migrate(cur1, order)))
<1> DEFINE M == Aruba!find_ports_to_migrate(cur1, order)
           f == [m \in M |->
             IF m.action = "MoveAccessToVlan1"
             THEN <<[op |-> "no untagged", port |-> m.port_id, vlan |-> m.vlan_being_removed]>>
             ELSE <<[op |-> "no tagged", port |-> m.port_id, vlans |-> {m.vlan_being_removed}]>>]
<1>1. Aruba!migrate_ports_before_vlan_deletion(M) = ForEach(f)
  BY SameForEach DEF Aruba!migrate_ports_before_vlan_deletion
<1>2. \A m \in M : \E i \in DOMAIN order : m.vlan_being_removed = order[i]
  BY DEF Aruba!find_ports_to_migrate
<1>3. IsFiniteSet(M)
  <2> DEFINE D == (DOMAIN cur1.ports) \X (DOMAIN order)
             g == [at \in D |->
                    [port_id |-> at[1], vlan_being_removed |-> order[at[2]],
                     action |-> IF Aruba!inferred_mode(cur1.ports[at[1]]) = "Access"
                                THEN "MoveAccessToVlan1" ELSE "RemoveVlanFromTrunk"]]
             T == {g[at] : at \in DOMAIN g}
  <2>1. IsFiniteSet(DOMAIN order)
    BY FS_Interval DEF IsList
  <2>2. IsFiniteSet(D)
    BY <2>1, FS_Product
  <2>3. M \in SUBSET T
    BY DEF Aruba!find_ports_to_migrate
  <2>4. DOMAIN g = D
    OBVIOUS
  <2> HIDE DEF M, D, g
  <2>5. IsFiniteSet(T)
    BY <2>2, <2>4, FiniteImage
  <2> HIDE DEF T
  <2> QED
    BY <2>3, <2>5, FS_Subset
<1>4. DOMAIN f = M
  OBVIOUS
<1> HIDE DEF M
<1>5. ASSUME NEW m \in M PROVE Fit(x, {}, f[m])
  <2> DEFINE p == m.port_id
             v == m.vlan_being_removed
  <2>1. v \notin Kept(x)
    BY <1>2
  <2>2. {v} \cap Kept(x) = {}
    BY <2>1
  <2>3. f[m] = IF m.action = "MoveAccessToVlan1"
               THEN <<[op |-> "no untagged", port |-> p, vlan |-> v]>>
               ELSE <<[op |-> "no tagged", port |-> p, vlans |-> {v}]>>
    OBVIOUS
  <2> HIDE DEF f, p, v
  <2>4. /\ Fits(x, {}, [op |-> "no untagged", port |-> p, vlan |-> v])
        /\ Fits(x, {}, [op |-> "no tagged", port |-> p, vlans |-> {v}])
    BY <2>1, <2>2, FitsGone, FitsNoTagged
  <2> QED
    BY <2>3, <2>4, FitOne
<1> HIDE DEF f
<1>6. Fit(x, {}, ForEach(f))
  BY <1>3, <1>4, <1>5, FitForEach
<1> QED
  BY <1>1, <1>6 DEF M

\* One of the batches has the command for a VLAN.
Creates(bs, v) ==
  \E k \in DOMAIN bs : \E h \in DOMAIN bs[k] : bs[k][h] = [op |-> "vlan", vlan |-> v]

\* The batches about VLANs touch no port that stays where it is, and make
\* every VLAN that is missing.
LEMMA ArubaVlanBatches ==
  ASSUME NEW x \in Scenarios, NEW cur1, NEW d, NEW order \in SetToSeqs(d.vlans_to_remove),
         Readable(x, cur1), DiffFits(x, d)
  PROVE  /\ Plan(x, {}, Aruba!vlan_batches(x.cfg, cur1, d, order))
         /\ \A v \in d.vlans_to_add : Creates(Aruba!vlan_batches(x.cfg, cur1, d, order), v)
<1> DEFINE M == Aruba!find_ports_to_migrate(cur1, order)
           a == When(M # {}, Aruba!migrate_ports_before_vlan_deletion(M))
           b == When(d.vlans_to_remove # {}, Aruba!generate_remove_vlan_commands(order))
           add == Aruba!generate_vlan_commands(x.cfg, d.vlans_to_add)
           c == When(d.vlans_to_add # {}, add)
           e == When(d.vlans_to_update # {}, Aruba!generate_vlan_commands(x.cfg, d.vlans_to_update))
<1>1. Aruba!vlan_batches(x.cfg, cur1, d, order) = ((a \o b) \o c) \o e
  BY SameWhen, Zenon DEF Aruba!vlan_batches
<1>2. IsList(order) /\ \A i \in DOMAIN order : order[i] \notin Kept(x)
  BY ListedOrder DEF DiffFits
<1>3. Plan(x, {}, a)
  <2>1. Fit(x, {}, Aruba!migrate_ports_before_vlan_deletion(M))
    BY <1>2, ArubaMigrations DEF Readable
  <2> HIDE DEF M
  <2> QED
    BY <2>1, PlanWhen
<1>4. Plan(x, {}, b)
  <2> DEFINE s == Aruba!generate_remove_vlan_commands(order)
  <2>1. s = [i \in DOMAIN order |-> [op |-> "no vlan", vlan |-> order[i]]]
    BY DEF Aruba!generate_remove_vlan_commands
  <2> HIDE DEF s
  <2>2. ASSUME NEW i \in DOMAIN s PROVE Fits(x, {}, s[i])
    <3>1. s[i] = [op |-> "no vlan", vlan |-> order[i]] /\ order[i] \notin Kept(x)
      BY <1>2, <2>1
    <3> QED
      BY <3>1, FitsGone
  <2>3. DOMAIN s = DOMAIN order
    BY <2>1
  <2>4. Fit(x, {}, s)
    BY <1>2, <2>2, <2>3 DEF Fit, IsList
  <2> QED
    BY <2>4, PlanWhen DEF s
<1>5. /\ Fit(x, {}, add)
      /\ \A v \in d.vlans_to_add : \E h \in DOMAIN add : add[h] = [op |-> "vlan", vlan |-> v]
  BY ArubaVlanCommands DEF DiffFits
<1>6. Plan(x, {}, e)
  <2>1. Fit(x, {}, Aruba!generate_vlan_commands(x.cfg, d.vlans_to_update))
    BY ArubaVlanCommands DEF DiffFits
  <2> QED
    BY <2>1, PlanWhen
<1> HIDE DEF add, a, b, e
<1>7. Plan(x, {}, c)
  BY <1>5, PlanWhen
<1>8. ASSUME NEW v \in d.vlans_to_add
      PROVE  1 \in DOMAIN c /\ \E h \in DOMAIN c[1] : c[1][h] = [op |-> "vlan", vlan |-> v]
  <2>1. c = <<add>>
    BY <1>8 DEF When
  <2>2. DOMAIN c = 1..1 /\ c[1] = add
    BY <2>1
  <2> QED
    BY <1>5, <2>2
<1> HIDE DEF c
<1> DEFINE ab == a \o b
           abc == ab \o c
           all == abc \o e
<1>9. Plan(x, {}, ab)
  BY <1>3, <1>4, PlanJoined
<1> HIDE DEF ab
<1>10. Plan(x, {}, abc) /\ \A k \in DOMAIN c : \E j \in DOMAIN abc : abc[j] = c[k]
  <2>1. IsJoin(abc, ab, c) /\ IsList(ab) /\ IsList(c)
    BY <1>7, <1>9 DEF IsJoin, Plan
  <2>2. Plan(x, {}, abc)
    BY <1>7, <1>9, PlanJoined
  <2> HIDE DEF abc
  <2> QED
    BY <2>1, <2>2, JoinedMembers
<1> HIDE DEF abc
<1>11. Plan(x, {}, all) /\ \A k \in DOMAIN abc : \E j \in DOMAIN all : all[j] = abc[k]
  <2>1. IsJoin(all, abc, e) /\ IsList(abc) /\ IsList(e)
    BY <1>6, <1>10 DEF IsJoin, Plan
  <2>2. Plan(x, {}, all)
    BY <1>6, <1>10, PlanJoined
  <2> HIDE DEF all
  <2> QED
    BY <2>1, <2>2, JoinedMembers
<1>12. all = Aruba!vlan_batches(x.cfg, cur1, d, order)
  BY <1>1 DEF abc, ab
<1> HIDE DEF all
<1>13. ASSUME NEW v \in d.vlans_to_add
       PROVE  Creates(all, v)
  <2>1. PICK i \in DOMAIN abc : abc[i] = c[1]
    BY <1>8, <1>10
  <2>2. PICK k \in DOMAIN all : all[k] = abc[i]
    BY <1>11
  <2>3. PICK h \in DOMAIN c[1] : c[1][h] = [op |-> "vlan", vlan |-> v]
    BY <1>8
  <2>4. all[k] = c[1]
    BY <2>1, <2>2
  <2>5. h \in DOMAIN all[k] /\ all[k][h] = [op |-> "vlan", vlan |-> v]
    BY <2>3, <2>4
  <2> QED
    BY <2>5 DEF Creates
<1> QED
  BY <1>11, <1>12, <1>13

(***************************************************************************)
(* Aruba: ports.                                                           *)
(***************************************************************************)
\* What a port is to be, in VLANs that stay.
LEMMA WantedVlans ==
  ASSUME NEW x \in Scenarios, NEW p \in DOMAIN x.cfg.ports
  PROVE  /\ ToSet(tagged_without_native(x.cfg.ports[p])) \subseteq Kept(x)
         /\ ToSet(tagged_without_native(x.cfg.ports[p])) \subseteq VlanId
         /\ IsFiniteSet(ToSet(tagged_without_native(x.cfg.ports[p])))
         /\ x.cfg.ports[p].vlan \in Kept(x) /\ x.cfg.ports[p].vlan \in VlanId
         /\ x.cfg.ports[p].enabled \in BOOLEAN /\ x.cfg.ports[p].poe_enabled \in BOOLEAN
<1> DEFINE port == x.cfg.ports[p]
           list == port.tagged_vlans
           rest == tagged_without_native(port)
<1>1. port \in Port(Kept(x), STRING) /\ Kept(x) \subseteq VlanId
  BY ConfigTyped
<1> HIDE DEF port
<1>2. /\ list \in Seq(Kept(x)) /\ port.vlan \in Kept(x)
      /\ port.enabled \in BOOLEAN /\ port.poe_enabled \in BOOLEAN
  BY <1>1 DEF Port
<1> HIDE DEF list
<1>3. IsList(list) /\ ToSet(list) \subseteq Kept(x)
  BY <1>2 DEF IsList, ToSet
<1>4. rest = Dropping(list, {port.vlan})
  BY DEF tagged_without_native, list
<1> HIDE DEF rest
<1>5. IsList(rest) /\ ToSet(rest) = ToSet(list) \ {port.vlan}
  BY <1>3, <1>4, DroppingKeeps
<1>6. IsFiniteSet(ToSet(rest))
  BY <1>5, FiniteMembers
<1> QED
  BY <1>1, <1>2, <1>3, <1>5, <1>6 DEF rest, port

\* What a port is tagged in, as the parser found it.
LEMMA CurrentVlans ==
  ASSUME NEW x, NEW cur1, NEW p, Readable(x, cur1)
  PROVE  IsFiniteSet(Aruba!currently_tagged(cur1, p))
<1>1. CASE p \in DOMAIN cur1.ports
  <2> DEFINE list == cur1.ports[p].tagged_vlans
             rest == Dropping(list, {cur1.ports[p].vlan})
  <2>1. IsList(list)
    BY <1>1 DEF Readable
  <2>2. Aruba!currently_tagged(cur1, p) = ToSet(rest)
    BY <1>1, SameTagged, SameModels DEF Aruba!currently_tagged, tagged_without_native
  <2> HIDE DEF list
  <2>3. IsList(rest)
    BY <2>1, DroppingKeeps
  <2> QED
    BY <2>2, <2>3, FiniteMembers
<1>2. CASE p \notin DOMAIN cur1.ports
  BY <1>2, FS_EmptySet DEF Aruba!currently_tagged
<1> QED
  BY <1>1, <1>2

\* The commands for one port, one after the other.
LEMMA ArubaLeaveVlans ==
  ASSUME NEW x, NEW P, NEW p \in P, NEW vlans, IsFiniteSet(vlans)
  PROVE  Fit(x, P, Aruba!leave_vlans(p, vlans))
<1> DEFINE f == [v \in vlans |-> <<[op |-> "no tagged", port |-> p, vlans |-> {v}]>>]
<1>1. Aruba!leave_vlans(p, vlans) = ForEach(f)
  BY SameForEach DEF Aruba!leave_vlans
<1>2. ASSUME NEW v \in vlans PROVE Fit(x, P, f[v])
  BY FitsNoTagged, FitOne
<1>3. DOMAIN f = vlans
  OBVIOUS
<1> HIDE DEF f
<1> QED
  BY <1>1, <1>2, <1>3, FitForEach

\* What apply_diff of Aruba has for one port fits: its MAC notifications,
LEMMA ArubaMacNotify ==
  ASSUME NEW x, NEW P, NEW p \in P, NEW on
  PROVE  Fit(x, P, Aruba!mac_notify_commands(p, on))
<1> DEFINE s == Aruba!mac_notify_commands(p, on)
           t == <<"learned", "removed">>
<1>1. s = [i \in 1..2 |-> [op |-> IF on THEN "mac trap" ELSE "no mac trap", port |-> p, trap |-> t[i]]]
  BY DEF Aruba!mac_notify_commands
<1> HIDE DEF s, t
<1>2. ASSUME NEW i \in DOMAIN s PROVE Fits(x, P, s[i])
  <2>1. s[i] = [op |-> IF on THEN "mac trap" ELSE "no mac trap", port |-> p, trap |-> t[i]]
    BY <1>1
  <2> QED
    BY <2>1, FitsMac
<1>3. IsList(s)
  BY <1>1 DEF IsList
<1> QED
  BY <1>2, <1>3 DEF Fit, s

\* ... its mirroring,
LEMMA ArubaMonitor ==
  ASSUME NEW x \in Scenarios, NEW P, NEW p \in P
  PROVE  Fit(x, P, Aruba!monitor_commands(x.cfg, x.cfg.port_mirrors, p))
<1> DEFINE mirrors == x.cfg.port_mirrors
           sessions == {s \in DOMAIN mirrors : p \in Aruba!ToSet(mirrors[s].source_ports)}
           f == [s \in sessions |->
                   <<[op |-> "monitor", port |-> p, direction |-> <<s, mirrors[s].direction>>]>>]
           c == [op |-> "monitor", port |-> p, direction |-> <<"", "both">>]
<1>1. Aruba!monitor_commands(x.cfg, mirrors, p) = When(sessions # {}, c)
      \/ Aruba!monitor_commands(x.cfg, mirrors, p) = ForEach(f)
  BY SameForEach, SameWhen, Zenon DEF Aruba!monitor_commands
<1>2. IsFiniteSet(sessions)
  BY ConfigIsFinite, FS_Subset
<1>3. ASSUME NEW s \in sessions PROVE Fit(x, P, f[s])
  BY FitsMonitor, FitOne
<1>4. DOMAIN f = sessions
  OBVIOUS
<1>5. Fits(x, P, c)
  BY FitsMonitor
<1> HIDE DEF f, c, sessions
<1>6. Fit(x, P, ForEach(f)) /\ Fit(x, P, When(sessions # {}, c))
  BY <1>2, <1>3, <1>4, <1>5, FitForEach, FitWhen
<1> QED
  BY <1>1, <1>6

\* ... and its name.
LEMMA ArubaPortName ==
  ASSUME NEW x, NEW P, NEW p \in P, NEW cur1, NEW port
  PROVE  Fit(x, P, Aruba!port_name_commands(cur1, p, port))
<1> DEFINE s == Aruba!port_name_commands(cur1, p, port)
<1>1. s = <<port_set(p, "description", port.description)>>
      \/ s = <<port_set(p, "description", NoText)>> \/ s = <<>>
  BY SameModels DEF Aruba!port_name_commands, Aruba!NoText, NoText
<1>2. /\ Fits(x, P, port_set(p, "description", port.description))
      /\ Fits(x, P, port_set(p, "description", NoText))
  BY FitsPortSet
<1> QED
  BY <1>1, <1>2, FitOne, FitNone

\* Four lists put together.
LEMMA FitJoinedFour ==
  ASSUME NEW x, NEW P, NEW a, NEW b, NEW c, NEW d,
         Fit(x, P, a), Fit(x, P, b), Fit(x, P, c), Fit(x, P, d)
  PROVE  Fit(x, P, a \o b \o c \o d)
<1>1. Fit(x, P, a \o b)
  BY FitJoined
<1>2. Fit(x, P, a \o b \o c)
  BY <1>1, FitJoined
<1> QED
  BY <1>2, FitJoined

\* All the commands for one port.
LEMMA ArubaPortVlans ==
  ASSUME NEW x \in Scenarios, NEW P, NEW p \in P, p \in DOMAIN x.cfg.ports, NEW cur1, Readable(x, cur1)
  PROVE  Fit(x, P, Aruba!port_vlan_commands(cur1, p, x.cfg.ports[p]))
<1> DEFINE port == x.cfg.ports[p]
           wanted == ToSet(tagged_without_native(port))
           old == Aruba!currently_tagged(cur1, p)
           a == <<[op |-> "untagged", port |-> p, vlan |-> port.vlan]>>
           b == Aruba!leave_vlans(p, old \ wanted)
           c == When(wanted # {}, [op |-> "tagged", port |-> p, vlans |-> wanted])
<1>1. Aruba!port_vlan_commands(cur1, p, port) = a \o b \o c
  BY SameTagged, SameModels, SameWhen DEF Aruba!port_vlan_commands
<1>2. /\ wanted \subseteq Kept(x) /\ wanted \subseteq VlanId /\ IsFiniteSet(wanted)
      /\ port.vlan \in Kept(x) /\ port.vlan \in VlanId
  BY WantedVlans
<1>3. IsFiniteSet(old)
  BY CurrentVlans
<1> HIDE DEF port, wanted, old
<1>4. Fit(x, P, a)
  BY <1>2, FitsUntagged, FitOne
<1>5. Fit(x, P, b)
  <2>1. IsFiniteSet(old \ wanted)
    BY <1>3, FS_Difference
  <2> QED
    BY <2>1, ArubaLeaveVlans
<1>6. Fit(x, P, c)
  BY <1>2, FitsTagged, FitWhen
<1> HIDE DEF a, b, c
<1>7. Fit(x, P, a \o b)
  BY <1>4, <1>5, FitJoined
<1>8. Fit(x, P, a \o b \o c)
  BY <1>6, <1>7, FitJoined
<1> QED
  BY <1>1, <1>8 DEF port

\* Ports that are to be configured, ...
LEMMA ArubaPortCommands ==
  ASSUME NEW x \in Scenarios, NEW P, NEW ids, NEW cur1, Readable(x, cur1), IsFiniteSet(ids),
         ids \subseteq P, ids \subseteq DOMAIN x.cfg.ports
  PROVE  Fit(x, P, Aruba!generate_port_commands(x.cfg, cur1, ids, x.cfg.port_mirrors))
<1> DEFINE a(p) == Aruba!port_name_commands(cur1, p, x.cfg.ports[p])
           b(p) == Aruba!port_vlan_commands(cur1, p, x.cfg.ports[p])
           c(p) == <<port_set(p, "enabled", x.cfg.ports[p].enabled)>>
           d(p) == Aruba!port_poe_commands(x.cfg, p, x.cfg.ports[p])
           e(p) == Aruba!mac_notify_commands(p, x.cfg.ports[p].mac_notify)
           g(p) == <<port_set(p, "speed_duplex", x.cfg.ports[p].speed_duplex)>>
           h(p) == Aruba!monitor_commands(x.cfg, x.cfg.port_mirrors, p)
           f == [p \in ids |-> a(p) \o b(p) \o c(p) \o d(p) \o e(p) \o g(p) \o h(p)]
<1>1. Aruba!generate_port_commands(x.cfg, cur1, ids, x.cfg.port_mirrors) = ForEach(f)
  BY SameForEach, SameModels DEF Aruba!generate_port_commands
<1>2. ASSUME NEW p \in ids PROVE Fit(x, P, f[p])
  <2>0. f[p] = a(p) \o b(p) \o c(p) \o d(p) \o e(p) \o g(p) \o h(p)
    OBVIOUS
  <2>1. Fit(x, P, a(p)) /\ Fit(x, P, b(p))
    BY ArubaPortName, ArubaPortVlans
  <2>2. Fit(x, P, c(p)) /\ Fit(x, P, g(p))
    BY FitsPortSet, FitOne
  <2>3. Fit(x, P, d(p))
    <3>1. d(p) = When(Aruba!supports_poe(x.cfg.model),
                      port_set(p, "poe_enabled",
                               x.cfg.ports[p].poe_enabled /\ Aruba!port_supports_poe(x.cfg.model, p)))
      BY SameWhen, SameModels DEF Aruba!port_poe_commands
    <3>2. (x.cfg.ports[p].poe_enabled /\ Aruba!port_supports_poe(x.cfg.model, p)) \in BOOLEAN
      OBVIOUS
    <3>3. Fits(x, P, port_set(p, "poe_enabled",
                              x.cfg.ports[p].poe_enabled /\ Aruba!port_supports_poe(x.cfg.model, p)))
      BY <3>2, FitsPortSet
    <3> QED
      BY <3>1, <3>3, FitWhen
  <2>4. Fit(x, P, e(p)) /\ Fit(x, P, h(p))
    BY ArubaMacNotify, ArubaMonitor
  <2> HIDE DEF a, b, c, d, e, f, g, h
  <2>5. Fit(x, P, a(p) \o b(p) \o c(p) \o d(p))
    BY <2>1, <2>2, <2>3, FitJoinedFour
  <2>6. Fit(x, P, a(p) \o b(p) \o c(p) \o d(p) \o e(p) \o g(p) \o h(p))
    BY <2>2, <2>4, <2>5, FitJoinedFour
  <2> QED
    BY <2>0, <2>6
<1>3. DOMAIN f = ids
  OBVIOUS
<1> HIDE DEF f
<1> QED
  BY <1>1, <1>2, <1>3, FitForEach

\* ... reset, ...
LEMMA ArubaReset ==
  ASSUME NEW x \in Scenarios, NEW P, NEW ids, NEW cur1, Readable(x, cur1), IsFiniteSet(ids), ids \subseteq P
  PROVE  Fit(x, P, Aruba!reset_ports(cur1, ids))
<1> DEFINE a(p) == <<port_set(p, "enabled", FALSE), port_set(p, "description", NoText),
                     [op |-> "untagged", port |-> p, vlan |-> 1]>>
           b(p) == Aruba!leave_vlans(p, Aruba!currently_tagged(cur1, p))
           c(p) == Aruba!mac_notify_commands(p, FALSE)
           f == [p \in ids |-> a(p) \o b(p) \o c(p)]
<1>1. Aruba!reset_ports(cur1, ids) = ForEach(f)
  BY SameForEach, SameModels DEF Aruba!reset_ports, Aruba!NoText, NoText
<1>2. ASSUME NEW p \in ids PROVE Fit(x, P, f[p])
  <2>0. f[p] = a(p) \o b(p) \o c(p)
    OBVIOUS
  <2>1. Fit(x, P, a(p))
    <3>1. 1 \in Kept(x) /\ 1 \in VlanId
      BY OneIsVlan DEF Kept
    <3>2. /\ Fits(x, P, port_set(p, "enabled", FALSE))
          /\ Fits(x, P, port_set(p, "description", NoText))
          /\ Fits(x, P, [op |-> "untagged", port |-> p, vlan |-> 1])
      BY <3>1, FitsPortSet, FitsUntagged
    <3> QED
      BY <3>2, FitThree
  <2>2. Fit(x, P, b(p)) /\ Fit(x, P, c(p))
    BY CurrentVlans, ArubaLeaveVlans, ArubaMacNotify
  <2> HIDE DEF a, b, c, f
  <2>3. Fit(x, P, a(p) \o b(p))
    BY <2>1, <2>2, FitJoined
  <2>4. Fit(x, P, a(p) \o b(p) \o c(p))
    BY <2>2, <2>3, FitJoined
  <2> QED
    BY <2>0, <2>4
<1>3. DOMAIN f = ids
  OBVIOUS
<1> HIDE DEF f
<1> QED
  BY <1>1, <1>2, <1>3, FitForEach

\* ... or made ready for a mirror.
LEMMA ArubaMirrorPorts ==
  ASSUME NEW x \in Scenarios, NEW P, NEW ids, IsFiniteSet(ids), ids \subseteq P
  PROVE  Fit(x, P, Aruba!configure_mirror_dest_ports(ids))
<1> DEFINE f == [p \in ids |->
             <<port_set(p, "enabled", FALSE), [op |-> "untagged", port |-> p, vlan |-> 1],
               port_set(p, "description", NoText), port_set(p, "enabled", TRUE)>>]
<1>1. Aruba!configure_mirror_dest_ports(ids) = ForEach(f)
  BY SameForEach, SameModels DEF Aruba!configure_mirror_dest_ports, Aruba!NoText, NoText
<1>2. ASSUME NEW p \in ids PROVE Fit(x, P, f[p])
  <2>1. 1 \in Kept(x) /\ 1 \in VlanId
    BY OneIsVlan DEF Kept
  <2>2. /\ Fits(x, P, port_set(p, "enabled", FALSE)) /\ Fits(x, P, port_set(p, "enabled", TRUE))
        /\ Fits(x, P, port_set(p, "description", NoText))
        /\ Fits(x, P, [op |-> "untagged", port |-> p, vlan |-> 1])
    BY <2>1, FitsPortSet, FitsUntagged
  <2> QED
    BY <2>2, FitFour
<1>3. DOMAIN f = ids
  OBVIOUS
<1> HIDE DEF f
<1> QED
  BY <1>1, <1>2, <1>3, FitForEach

(***************************************************************************)
(* Commands that are not about ports or VLANs.                             *)
(***************************************************************************)
LEMMA FitsEntries ==
  ASSUME NEW x, NEW P, NEW n, NEW value
  PROVE  /\ Fits(x, P, [op |-> "no community", name |-> n])
         /\ Fits(x, P, [op |-> "community", name |-> n, value |-> value])
         /\ Fits(x, P, [op |-> "no receiver", host |-> n])
         /\ Fits(x, P, [op |-> "receiver", host |-> n, community |-> value])
         /\ Fits(x, P, [op |-> "traps", traps |-> value])
         /\ Fits(x, P, [op |-> "no traps", traps |-> value])
         /\ Fits(x, P, [op |-> "mirror", session |-> n, value |-> value])
         /\ Fits(x, P, [op |-> "no mirror", session |-> n])
         /\ Fits(x, P, [op |-> "management vlan", vlan |-> value])
  BY DEF Fits, OtherOps, PortOps, VlanOps

\* SNMP: communities, receivers and traps.
LEMMA ArubaSnmp ==
  ASSUME NEW x, NEW P, NEW snmp, NEW d, SnmpDiffIsFinite(x, d), vendor(x.cfg.model) = "Aruba"
  PROVE  Fit(x, P, Aruba!apply_snmp_diff(snmp, d))
<1> DEFINE value(n) == [op |-> "community", name |-> n, value |-> snmp.communities[n]]
           fa == [n \in d.communities_to_remove |-> <<[op |-> "no community", name |-> n]>>]
           fb == [n \in d.communities_to_update |-> <<[op |-> "no community", name |-> n], value(n)>>]
           fc == [n \in d.communities_to_add |-> <<value(n)>>]
           fd == [h \in d.trap_receivers_to_remove |-> <<[op |-> "no receiver", host |-> h]>>]
           fe == [h \in d.trap_receivers_to_add |->
                    <<[op |-> "receiver", host |-> h, community |-> snmp.trap_receivers[h]]>>]
           fg == [t \in d.traps_to_enable |-> <<[op |-> "traps", traps |-> Aruba!trap_names({t})]>>]
           fh == [t \in d.traps_to_disable |-> <<[op |-> "no traps", traps |-> Aruba!trap_names({t})]>>]
<1>1. Aruba!apply_snmp_diff(snmp, d)
        = ForEach(fa) \o ForEach(fb) \o ForEach(fc) \o ForEach(fd) \o ForEach(fe) \o ForEach(fg) \o ForEach(fh)
  BY SameForEach DEF Aruba!apply_snmp_diff, Aruba!community
<1>2. Fit(x, P, ForEach(fa))
  <2>1. \A n \in DOMAIN fa : Fit(x, P, fa[n])
    BY FitsEntries, FitOne
  <2>2. IsFiniteSet(DOMAIN fa)
    BY DEF SnmpDiffIsFinite
  <2> HIDE DEF fa
  <2> QED
    BY <2>1, <2>2, FitForEach
<1>3. Fit(x, P, ForEach(fb))
  <2>1. ASSUME NEW n \in DOMAIN fb PROVE Fit(x, P, fb[n])
    <3>1. Fits(x, P, [op |-> "no community", name |-> n]) /\ Fits(x, P, value(n))
      BY FitsEntries
    <3> QED
      BY <3>1, FitTwo
  <2>2. IsFiniteSet(DOMAIN fb)
    BY DEF SnmpDiffIsFinite
  <2> HIDE DEF fb
  <2> QED
    BY <2>1, <2>2, FitForEach
<1>4. Fit(x, P, ForEach(fc))
  <2>1. \A n \in DOMAIN fc : Fit(x, P, fc[n])
    BY FitsEntries, FitOne
  <2>2. IsFiniteSet(DOMAIN fc)
    BY DEF SnmpDiffIsFinite
  <2> HIDE DEF fc
  <2> QED
    BY <2>1, <2>2, FitForEach
<1>5. Fit(x, P, ForEach(fd))
  <2>1. \A n \in DOMAIN fd : Fit(x, P, fd[n])
    BY FitsEntries, FitOne
  <2>2. IsFiniteSet(DOMAIN fd)
    BY DEF SnmpDiffIsFinite
  <2> HIDE DEF fd
  <2> QED
    BY <2>1, <2>2, FitForEach
<1>6. Fit(x, P, ForEach(fe))
  <2>1. \A n \in DOMAIN fe : Fit(x, P, fe[n])
    BY FitsEntries, FitOne
  <2>2. IsFiniteSet(DOMAIN fe)
    BY DEF SnmpDiffIsFinite
  <2> HIDE DEF fe
  <2> QED
    BY <2>1, <2>2, FitForEach
<1>7. Fit(x, P, ForEach(fg))
  <2>1. \A n \in DOMAIN fg : Fit(x, P, fg[n])
    BY FitsEntries, FitOne
  <2>2. IsFiniteSet(DOMAIN fg)
    BY DEF SnmpDiffIsFinite
  <2> HIDE DEF fg
  <2> QED
    BY <2>1, <2>2, FitForEach
<1>8. Fit(x, P, ForEach(fh))
  <2>1. \A n \in DOMAIN fh : Fit(x, P, fh[n])
    BY FitsEntries, FitOne
  <2>2. IsFiniteSet(DOMAIN fh)
    BY DEF SnmpDiffIsFinite
  <2> HIDE DEF fh
  <2> QED
    BY <2>1, <2>2, FitForEach
<1> HIDE DEF fa, fb, fc, fd, fe, fg, fh
<1>9. Fit(x, P, ForEach(fa) \o ForEach(fb) \o ForEach(fc) \o ForEach(fd))
  BY <1>2, <1>3, <1>4, <1>5, FitJoinedFour
<1>10. Fit(x, P, ForEach(fa) \o ForEach(fb) \o ForEach(fc) \o ForEach(fd) \o ForEach(fe) \o ForEach(fg) \o ForEach(fh))
  BY <1>6, <1>7, <1>8, <1>9, FitJoinedFour
<1> QED
  BY <1>1, <1>10

\* The batches about ports touch those that may be touched.
LEMMA ArubaPortBatches ==
  ASSUME NEW x \in Scenarios, NEW cur1, NEW d, Readable(x, cur1), DiffFits(x, d)
  PROVE  Plan(x, Reached(x), Aruba!port_batches(x.cfg, cur1, d))
<1> DEFINE P == Reached(x)
           a == Aruba!generate_port_commands(x.cfg, cur1, d.ports_to_configure, x.cfg.port_mirrors)
           b == Aruba!reset_ports(cur1, d.ports_to_reset)
           c == Aruba!configure_mirror_dest_ports(d.mirror_dest_ports_to_configure)
           s == When(d.ports_to_configure # {}, a)
           t == When(d.ports_to_reset # {}, b)
           u == When(d.mirror_dest_ports_to_configure # {}, c)
<1>1. Aruba!port_batches(x.cfg, cur1, d) = s \o t \o u
  BY SameWhen DEF Aruba!port_batches
<1>2. /\ IsFiniteSet(d.ports_to_configure) /\ d.ports_to_configure \subseteq DOMAIN x.cfg.ports
      /\ IsFiniteSet(d.ports_to_reset) /\ d.ports_to_reset \subseteq P
      /\ IsFiniteSet(d.mirror_dest_ports_to_configure)
      /\ d.mirror_dest_ports_to_configure \subseteq mirror_destinations(x.cfg)
  BY DEF DiffFits
<1>3. DOMAIN x.cfg.ports \subseteq P /\ mirror_destinations(x.cfg) \subseteq P
  BY DEF Reached, Managed
<1> HIDE DEF P
<1>4. Fit(x, P, a)
  BY <1>2, <1>3, ArubaPortCommands
<1>5. Fit(x, P, b)
  BY <1>2, ArubaReset
<1>6. Fit(x, P, c)
  BY <1>2, <1>3, ArubaMirrorPorts
<1> HIDE DEF a, b, c
<1>7. Plan(x, P, s) /\ Plan(x, P, t) /\ Plan(x, P, u)
  BY <1>4, <1>5, <1>6, PlanWhen
<1> HIDE DEF s, t, u
<1>8. Plan(x, P, s \o t)
  BY <1>7, PlanJoined
<1>9. Plan(x, P, s \o t \o u)
  BY <1>7, <1>8, PlanJoined
<1> QED
  BY <1>1, <1>9 DEF P

\* Mirror sessions.
LEMMA ArubaMirrors ==
  ASSUME NEW x, NEW P, NEW mirrors, NEW sessions, IsFiniteSet(sessions)
  PROVE  /\ Fit(x, P, Aruba!generate_mirror_commands(x.cfg, mirrors, sessions))
         /\ Fit(x, P, Aruba!generate_remove_mirror_commands(sessions))
<1> DEFINE f == [s \in sessions |->
             <<[op |-> "mirror",
                session |-> IF Aruba!uses_legacy_mirror_syntax(x.cfg.model) THEN "port" ELSE s,
                value |-> [destination_port |-> mirrors[s].destination_port]]>>]
           g == [s \in sessions |-> <<[op |-> "no mirror", session |-> s]>>]
<1>1. Aruba!generate_mirror_commands(x.cfg, mirrors, sessions) = ForEach(f)
  BY SameForEach DEF Aruba!generate_mirror_commands
<1>2. Aruba!generate_remove_mirror_commands(sessions) = ForEach(g)
  BY SameForEach DEF Aruba!generate_remove_mirror_commands
<1>3. \A s \in sessions : Fit(x, P, f[s])
  BY FitsEntries, FitOne
<1>4. \A s \in sessions : Fit(x, P, g[s])
  BY FitsEntries, FitOne
<1>5. DOMAIN f = sessions /\ DOMAIN g = sessions
  OBVIOUS
<1> HIDE DEF f, g
<1>6. Fit(x, P, ForEach(f)) /\ Fit(x, P, ForEach(g))
  BY <1>3, <1>4, <1>5, FitForEach
<1> QED
  BY <1>1, <1>2, <1>6

\* The batches about mirrors.
LEMMA ArubaMirrorBatches ==
  ASSUME NEW x, NEW P, NEW d, DiffFits(x, d)
  PROVE  Plan(x, P, Aruba!mirror_batches(x.cfg, d))
<1> DEFINE a == Aruba!generate_remove_mirror_commands(d.mirrors_to_remove)
           b == Aruba!generate_mirror_commands(x.cfg, x.cfg.port_mirrors, d.mirrors_to_add)
           c == Aruba!generate_mirror_commands(x.cfg, x.cfg.port_mirrors, d.mirrors_to_update)
           s == When(d.mirrors_to_remove # {}, a)
           t == When(d.mirrors_to_add # {}, b)
           u == When(d.mirrors_to_update # {}, c)
<1>1. Aruba!mirror_batches(x.cfg, d) = s \o t \o u
  BY SameWhen DEF Aruba!mirror_batches
<1>2. /\ IsFiniteSet(d.mirrors_to_remove) /\ IsFiniteSet(d.mirrors_to_add)
      /\ IsFiniteSet(d.mirrors_to_update)
  BY DEF DiffFits
<1>3. Fit(x, P, a) /\ Fit(x, P, b) /\ Fit(x, P, c)
  BY <1>2, ArubaMirrors
<1> HIDE DEF a, b, c
<1>4. Plan(x, P, s) /\ Plan(x, P, t) /\ Plan(x, P, u)
  BY <1>3, PlanWhen
<1> HIDE DEF s, t, u
<1>5. Plan(x, P, s \o t)
  BY <1>4, PlanJoined
<1>6. Plan(x, P, s \o t \o u)
  BY <1>4, <1>5, PlanJoined
<1> QED
  BY <1>1, <1>6

\* The batches about SNMP and the management VLAN.
LEMMA ArubaManagementBatches ==
  ASSUME NEW x, NEW P, NEW d, DiffFits(x, d), vendor(x.cfg.model) = "Aruba"
  PROVE  Plan(x, P, Aruba!management_batches(x.cfg, d))
<1>1. PICK wanted :
        wanted = IF Aruba!effective_snmp(x.cfg.snmp) = {} THEN Aruba!EmptySnmp
                 ELSE Aruba!the(Aruba!effective_snmp(x.cfg.snmp))
  OBVIOUS
<1> DEFINE changed == \E s \in d.snmp_diff : Aruba!snmp_has_changes(s)
           a == Aruba!apply_snmp_diff(wanted, the(d.snmp_diff))
           b == IF d.management_vlan # 0 THEN Aruba!configure_management_vlan(d.management_vlan)
                ELSE Aruba!remove_management_vlan
           s == When(changed, a)
           t == When(d.management_vlan_changed, b)
<1>2. Aruba!management_batches(x.cfg, d) = s \o t
  BY <1>1, SameWhen, SameModels DEF Aruba!management_batches
<1>3. changed => Fit(x, P, a)
  <2>1. changed => the(d.snmp_diff) \in d.snmp_diff
    BY DEF the
  <2>2. \A e \in d.snmp_diff : SnmpDiffIsFinite(x, e)
    BY DEF DiffFits
  <2> HIDE DEF changed
  <2> QED
    BY <2>1, <2>2, ArubaSnmp
<1>4. Fit(x, P, b)
  <2>1. \A v : Fit(x, P, <<[op |-> "management vlan", vlan |-> v]>>)
    BY FitsEntries, FitOne
  <2>2. b = <<[op |-> "management vlan", vlan |-> d.management_vlan]>>
        \/ b = <<[op |-> "management vlan", vlan |-> 0]>>
    BY DEF Aruba!configure_management_vlan, Aruba!remove_management_vlan
  <2> HIDE DEF b
  <2> QED
    BY <2>1, <2>2
<1> HIDE DEF changed, a, b
<1>5. Plan(x, P, s) /\ Plan(x, P, t)
  BY <1>3, <1>4, PlanWhen
<1> HIDE DEF s, t
<1> QED
  BY <1>2, <1>5, PlanJoined

\* The batches begin with some that do not bring a port into a VLAN and that
\* make every VLAN that is wanted and missing.
VlansFirst(x, d, bs) ==
  \E n \in 0..Len(bs) :
    /\ \A i \in 1..n : bs[i] = FortiOS!Fails \/ Fit(x, {}, bs[i])
    /\ \A v \in Kept(x) \ DOMAIN d.vlans :
         \E i \in 1..n : \E h \in DOMAIN bs[i] : bs[i][h] = [op |-> "vlan", vlan |-> v]

\* All of apply_diff.
LEMMA ArubaPlan ==
  ASSUME NEW x \in Scenarios, NEW dev, NEW cur1, NEW d, NEW order \in SetToSeqs(d.vlans_to_remove),
         Readable(x, cur1), DiffFits(x, d), vendor(x.cfg.model) = "Aruba", KnowsItsVlans(dev),
         DOMAIN x.cfg.vlans \ DOMAIN dev.vlans \subseteq d.vlans_to_add
  PROVE  /\ Plan(x, Reached(x), Aruba!apply_diff(x.cfg, cur1, d, order))
         /\ VlansFirst(x, dev, Aruba!apply_diff(x.cfg, cur1, d, order))
<1> DEFINE P == Reached(x)
           a == Aruba!vlan_batches(x.cfg, cur1, d, order)
           b == Aruba!port_batches(x.cfg, cur1, d)
           c == Aruba!mirror_batches(x.cfg, d)
           e == Aruba!management_batches(x.cfg, d)
           bs == Aruba!apply_diff(x.cfg, cur1, d, order)
<1>1. bs = a \o b \o c \o e
  BY DEF Aruba!apply_diff
<1>2. /\ Plan(x, {}, a)
      /\ \A v \in d.vlans_to_add : Creates(a, v)
  <2>1. Plan(x, {}, a)
    BY ArubaVlanBatches
  <2>2. \A v \in d.vlans_to_add : Creates(a, v)
    BY ArubaVlanBatches
  <2> QED
    BY <2>1, <2>2
<1>3. Plan(x, P, b) /\ Plan(x, P, c) /\ Plan(x, P, e)
  <2>1. Plan(x, P, b)
    BY ArubaPortBatches
  <2>2. Plan(x, P, c)
    BY ArubaMirrorBatches
  <2>3. Plan(x, P, e)
    BY ArubaManagementBatches
  <2> QED
    BY <2>1, <2>2, <2>3
<1> HIDE DEF a, b, c, e, bs, P
<1>4. Plan(x, P, a)
  BY <1>2, PlanWider
<1>5. Plan(x, P, a \o b)
  BY <1>3, <1>4, PlanJoined
<1>6. Plan(x, P, a \o b \o c)
  BY <1>3, <1>5, PlanJoined
<1>7. Plan(x, P, bs)
  <2>1. Plan(x, P, a \o b \o c \o e)
    BY <1>3, <1>6, PlanJoined
  <2> QED
    BY <1>1, <2>1
<1> DEFINE ab == a \o b
           abc == ab \o c
<1>8. IsList(a) /\ IsList(b) /\ IsList(c) /\ IsList(e) /\ IsList(ab) /\ IsList(abc) /\ IsList(bs)
  BY <1>2, <1>3, <1>5, <1>6, <1>7 DEF Plan
<1>9. IsJoin(ab, a, b) /\ IsJoin(abc, ab, c) /\ IsJoin(bs, abc, e)
  BY <1>1 DEF IsJoin
<1> HIDE DEF ab, abc
<1>10. \A i \in DOMAIN a : i \in DOMAIN bs /\ bs[i] = a[i]
  <2>1. \A i \in DOMAIN a : i \in DOMAIN ab /\ ab[i] = a[i]
    BY <1>8, <1>9, Joined DEF IsJoin
  <2>2. \A i \in DOMAIN ab : i \in DOMAIN abc /\ abc[i] = ab[i]
    BY <1>8, <1>9, Joined DEF IsJoin
  <2>3. \A i \in DOMAIN abc : i \in DOMAIN bs /\ bs[i] = abc[i]
    BY <1>8, <1>9, Joined DEF IsJoin
  <2> QED
    BY <2>1, <2>2, <2>3
<1>11. /\ Len(a) \in Nat /\ DOMAIN a = 1..Len(a)
       /\ Len(bs) \in Nat /\ DOMAIN bs = 1..Len(bs)
  BY <1>8 DEF IsList
<1>12. Len(a) \in 0..Len(bs)
  BY <1>10, <1>11
<1>13. \A i \in 1..Len(a) : bs[i] = FortiOS!Fails \/ Fit(x, {}, bs[i])
  BY <1>2, <1>10, <1>11 DEF Plan
<1>14. ASSUME NEW v \in Kept(x) \ DOMAIN dev.vlans
       PROVE  \E i \in 1..Len(a) : \E h \in DOMAIN bs[i] : bs[i][h] = [op |-> "vlan", vlan |-> v]
  <2>1. v \in d.vlans_to_add
    BY DEF Kept, KnowsItsVlans
  <2>2. PICK i \in DOMAIN a : \E h \in DOMAIN a[i] : a[i][h] = [op |-> "vlan", vlan |-> v]
    BY <1>2, <2>1 DEF Creates
  <2>3. bs[i] = a[i] /\ i \in 1..Len(a)
    BY <1>10, <1>11
  <2> QED
    BY <2>2, <2>3
<1>15. VlansFirst(x, dev, bs)
  BY <1>12, <1>13, <1>14 DEF VlansFirst
<1> QED
  BY <1>7, <1>15 DEF bs, P

\* A batch is sent: what VlansFirst says is true of the rest.
LEMMA VlansStayFirst ==
  ASSUME NEW x, NEW d, NEW bs, vendor(x.cfg.model) = "Aruba", IsDevice(d), KnowsItsVlans(d),
         Plan(x, Reached(x), bs), VlansFirst(x, d, bs), bs # <<>>, Head(bs) # FortiOS!Fails
  PROVE  /\ \A i \in DOMAIN Head(bs) : Uses(Head(bs)[i]) \subseteq DOMAIN d.vlans
         /\ VlansFirst(x, Run(d, Head(bs)), Tail(bs))
<1> DEFINE b == Head(bs)
           rest == Tail(bs)
           e == Run(d, b)
<1>1. /\ b = bs[1] /\ 1 \in DOMAIN bs /\ Plan(x, Reached(x), rest)
      /\ \A i \in DOMAIN rest : i + 1 \in DOMAIN bs /\ rest[i] = bs[i + 1]
  BY PlanRest
<1>2. Fit(x, Reached(x), b)
  BY <1>1 DEF Plan
<1>3. PICK n \in 0..Len(bs) :
        /\ \A i \in 1..n : bs[i] = FortiOS!Fails \/ Fit(x, {}, bs[i])
        /\ \A v \in Kept(x) \ DOMAIN d.vlans :
             \E i \in 1..n : \E h \in DOMAIN bs[i] : bs[i][h] = [op |-> "vlan", vlan |-> v]
  BY DEF VlansFirst
<1>4. IsList(bs) /\ IsList(rest) /\ Len(rest) = Len(bs) - 1
  BY <1>1 DEF Plan, IsList
<1>5. /\ DOMAIN d.vlans \cap Kept(x) \subseteq DOMAIN e.vlans
      /\ \A i \in DOMAIN b : b[i].op = "vlan" /\ b[i].vlan \in Kept(x) => b[i].vlan \in DOMAIN e.vlans
  <2>1. Follows(x, Reached(x), d, e)
    BY <1>2, RunFollows
  <2>2. \A i \in DOMAIN b : b[i].op = "vlan" /\ b[i].vlan \in Kept(x) => b[i].vlan \in DOMAIN e.vlans
    BY <1>2, RunFollows
  <2> QED
    BY <2>1, <2>2 DEF Follows
<1> HIDE DEF e, b, rest
<1>6. CASE n = 0
  <2>1. Kept(x) \subseteq DOMAIN d.vlans
    BY <1>3, <1>6
  <2>2. \A i \in DOMAIN b : Uses(b[i]) \subseteq Kept(x)
    BY <1>2, UsesKept DEF Fit
  <2>3. Kept(x) \ DOMAIN e.vlans = {}
    BY <1>5, <2>1
  <2>4. 0 \in 0..Len(rest) /\ \A i \in 1..0 : FALSE
    BY <1>4 DEF IsList
  <2>5. VlansFirst(x, e, rest)
    BY <2>3, <2>4 DEF VlansFirst
  <2> QED
    BY <2>1, <2>2, <2>5 DEF b, e, rest
<1>7. CASE n # 0
  <2>0. n \in Nat /\ 1 \in 1..n /\ Len(bs) \in Nat /\ n - 1 \in 0..Len(rest)
    BY <1>3, <1>4, <1>7 DEF IsList
  <2>1. Fit(x, {}, b)
    BY <1>1, <1>3, <2>0 DEF b
  <2>2. \A i \in DOMAIN b : Uses(b[i]) = {}
    BY <2>1 DEF Fit, Fits, Uses, PortOps
  <2>3. \A i \in 1..(n - 1) : i + 1 \in 1..n /\ i \in DOMAIN rest /\ rest[i] = bs[i + 1]
    BY <1>1, <1>4, <2>0 DEF IsList
  <2>4. \A i \in 1..(n - 1) : rest[i] = FortiOS!Fails \/ Fit(x, {}, rest[i])
    BY <1>3, <2>3
  <2>5. ASSUME NEW v \in Kept(x) \ DOMAIN e.vlans
        PROVE  \E i \in 1..(n - 1) : \E h \in DOMAIN rest[i] : rest[i][h] = [op |-> "vlan", vlan |-> v]
    <3>1. v \in Kept(x) \ DOMAIN d.vlans
      BY <1>5
    <3>2. PICK i \in 1..n : \E h \in DOMAIN bs[i] : bs[i][h] = [op |-> "vlan", vlan |-> v]
      BY <1>3, <3>1
    <3>3. PICK h \in DOMAIN bs[i] : bs[i][h] = [op |-> "vlan", vlan |-> v]
      BY <3>2
    <3>4. bs[i][h].op = "vlan" /\ bs[i][h].vlan = v
      BY <3>3
    <3>5. i # 1
      BY <1>1, <1>5, <3>4
    <3>6. i - 1 \in 1..(n - 1) /\ (i - 1) + 1 = i
      BY <2>0, <3>5
    <3>7. rest[i - 1] = bs[i]
      BY <2>3, <3>6
    <3> QED
      BY <3>2, <3>6, <3>7
  <2>6. VlansFirst(x, e, rest)
    BY <2>0, <2>4, <2>5 DEF VlansFirst
  <2> QED
    BY <2>2, <2>6 DEF b, e, rest
<1> QED
  BY <1>6, <1>7

(***************************************************************************)
(* FortiOS.                                                                *)
(***************************************************************************)
LEMMA FortiReadable ==
  ASSUME NEW x \in Scenarios, NEW dev, IsDevice(dev), DOMAIN dev.port = DOMAIN x.dev.port,
         vendor(x.cfg.model) = "Fortiswitch"
  PROVE  Readable(x, FortiOS!parse_current_state(x.cfg, dev))
<1> DEFINE c == FortiOS!parse_current_state(x.cfg, dev)
<1>0. /\ IsFiniteSet(DOMAIN dev.vlans) /\ IsFiniteSet(DOMAIN dev.port)
      /\ IsFiniteSet(DOMAIN dev.communities) /\ IsFiniteSet(DOMAIN dev.mirrors)
  BY DEF IsDevice
<1>1. DOMAIN c.vlans = DOMAIN dev.vlans /\ DOMAIN c.ports = DOMAIN dev.port
  BY DEF FortiOS!parse_current_state, FortiOS!parse_switch_vlan_ids, FortiOS!build_ports
<1>2. IsFiniteSet(DOMAIN c.port_mirrors)
  <2>1. DOMAIN c.port_mirrors \in SUBSET DOMAIN dev.mirrors
    BY DEF FortiOS!parse_current_state, FortiOS!parse_switch_mirrors
  <2> QED
    BY <1>0, <2>1, FS_Subset
<1>3. ASSUME NEW p \in DOMAIN dev.port PROVE IsList(c.ports[p].tagged_vlans)
  <2>1. c.ports[p].tagged_vlans = Dropping(Sorted(dev.tagged[p]), {dev.untagged[p]})
    BY SameSorted, SameModels
       DEF FortiOS!parse_current_state, FortiOS!build_ports, FortiOS!parse_switch_interface_ports
  <2>2. IsFiniteSet(dev.tagged[p]) /\ dev.tagged[p] \subseteq Nat
    BY DEF IsDevice, VlanId
  <2>3. IsList(Sorted(dev.tagged[p]))
    BY <2>2, SortedHasAll
  <2>4. IsList(Dropping(Sorted(dev.tagged[p]), {dev.untagged[p]}))
    BY <2>3, DroppingKeeps
  <2> QED
    BY <2>1, <2>4
<1>4. ASSUME NEW s \in c.snmp PROVE SnmpIsReadable(x, s)
  <2> DEFINE names == {dev.communities[i].name : i \in FortiOS!named(dev)}
             parsed == FortiOS!parse_snmp_community(dev)
  <2>1. IsFiniteSet(names)
    <3> DEFINE D == FortiOS!named(dev)
               f == [i \in D |-> dev.communities[i].name]
    <3>1. D \in SUBSET DOMAIN dev.communities
      BY DEF FortiOS!named
    <3>2. DOMAIN f = D /\ names = {f[i] : i \in DOMAIN f}
      OBVIOUS
    <3> HIDE DEF f, D, names
    <3>3. IsFiniteSet(DOMAIN f)
      BY <1>0, <3>1, <3>2, FS_Subset
    <3> QED
      BY <3>2, <3>3, FiniteImage
  <2>2. ASSUME NEW t \in parsed
        PROVE  "communities" \in DOMAIN t /\ DOMAIN t.communities = names
    BY <2>2 DEF FortiOS!parse_snmp_community
  <2> HIDE DEF names, parsed
  <2>4. PICK t \in parsed : DOMAIN s.communities = DOMAIN t.communities
    <3>1. c.snmp = FortiOS!adopt_desired_access(parsed, FortiOS!effective_snmp(x.cfg.snmp))
      BY DEF FortiOS!parse_current_state, parsed
    <3> HIDE DEF c
    <3>2. PICK w : w = FortiOS!effective_snmp(x.cfg.snmp)
      OBVIOUS
    <3>3. s \in FortiOS!adopt_desired_access(parsed, w)
      BY <1>4, <3>1, <3>2
    <3>4. PICK t \in parsed : \E h : s = [t EXCEPT !.communities = [n \in DOMAIN @ |-> h[n]]]
      <4> DEFINE h(t) == [n \in DOMAIN t.communities |->
                            IF \E y \in w : n \in DOMAIN y.communities
                            THEN [t.communities[n] EXCEPT !.access = FortiOS!the(w).communities[n].access]
                            ELSE t.communities[n]]
      <4>1. PICK t \in parsed : s = [t EXCEPT !.communities = h(t)]
        BY <3>3 DEF FortiOS!adopt_desired_access
      <4>2. h(t) = [n \in DOMAIN t.communities |-> h(t)[n]]
        OBVIOUS
      <4> HIDE DEF h
      <4> QED
        BY <4>1, <4>2
    <3> QED
      BY <2>2, <3>4
  <2>5. IsFiniteSet(DOMAIN s.communities)
    BY <2>1, <2>2, <2>4
  <2> QED
    BY <2>5 DEF SnmpIsReadable
<1> HIDE DEF c
<1>5. Readable(x, c)
  BY <1>0, <1>1, <1>2, <1>3, <1>4 DEF Readable
<1> QED
  BY <1>5 DEF c

\* Commands that only FortiOS has.
LEMMA FitsFortiOS ==
  ASSUME NEW x, NEW P, NEW n, NEW value, NEW w
  PROVE  /\ Fits(x, P, [op |-> "svi", vlan |-> n, value |-> value])
         /\ Fits(x, P, [op |-> "sysinfo"])
         /\ Fits(x, P, [op |-> "host", entry |-> n, index |-> value, host |-> w])
         /\ Fits(x, P, [op |-> "trunk", port |-> n, value |-> value])
  BY DEF Fits, OtherOps, PortOps, VlanOps

\* VLANs and their interfaces.
LEMMA FortiVlanCommands ==
  ASSUME NEW x \in Scenarios, NEW P, NEW ids, IsFiniteSet(ids), ids \subseteq DOMAIN x.cfg.vlans
  PROVE  Fit(x, P, FortiOS!generate_vlan_commands(x.cfg, ids))
<1> DEFINE f == [v \in ids |-> <<[op |-> "vlan", vlan |-> v]>>]
           value(v) == FortiOS!svi_value(x.cfg.vlans[v])
           g == [v \in ids |-> When(x.cfg.vlans[v].ip_config # "none",
                                    [op |-> "svi", vlan |-> v, value |-> value(v)])]
<1>1. FortiOS!generate_vlan_commands(x.cfg, ids) = ForEach(f) \o ForEach(g)
  BY SameForEach, SameWhen DEF FortiOS!generate_vlan_commands
<1>2. ids \subseteq VlanId
  BY ConfigTyped
<1>3. ASSUME NEW v \in ids PROVE Fit(x, P, f[v])
  BY <1>2, FitsVlan, FitOne
<1>4. ASSUME NEW v \in ids PROVE Fit(x, P, g[v])
  BY FitsFortiOS, FitWhen
<1>5. DOMAIN f = ids /\ DOMAIN g = ids
  OBVIOUS
<1> HIDE DEF f, g
<1>6. Fit(x, P, ForEach(f)) /\ Fit(x, P, ForEach(g))
  BY <1>3, <1>4, <1>5, FitForEach
<1> QED
  BY <1>1, <1>6, FitJoined

\* VLANs that go.
LEMMA GoneCommands ==
  ASSUME NEW x, NEW P, NEW d, DiffFits(x, d), NEW order \in SetToSeqs(d.vlans_to_remove),
         vendor(x.cfg.model) # "Aruba"
  PROVE  Fit(x, P, FortiOS!generate_remove_vlan_commands(order))
<1> DEFINE s == FortiOS!generate_remove_vlan_commands(order)
<1>1. s = [i \in DOMAIN order |-> [op |-> "delete vlan", vlan |-> order[i]]]
  BY DEF FortiOS!generate_remove_vlan_commands
<1>2. IsList(order) /\ \A i \in DOMAIN order : order[i] \notin Kept(x)
  BY ListedOrder DEF DiffFits
<1> HIDE DEF s
<1>3. ASSUME NEW i \in DOMAIN s PROVE Fits(x, P, s[i])
  <2>1. s[i] = [op |-> "delete vlan", vlan |-> order[i]] /\ order[i] \notin Kept(x)
    BY <1>1, <1>2
  <2> QED
    BY <2>1, FitsGone
<1>4. DOMAIN s = DOMAIN order
  BY <1>1
<1> QED
  BY <1>1, <1>2, <1>3, <1>4 DEF Fit, IsList, s

\* The list of a trunk, or the VLAN of an access port.
LEMMA FortiMembers ==
  ASSUME NEW x \in Scenarios, NEW p \in DOMAIN x.cfg.ports, NEW T,
         T = IF FortiOS!inferred_mode(x.cfg.ports[p]) = "Access" THEN {x.cfg.ports[p].vlan}
             ELSE ToSet(x.cfg.ports[p].tagged_vlans)
  PROVE  T \subseteq VlanId /\ T \subseteq Kept(x) /\ IsFiniteSet(T)
<1> DEFINE port == x.cfg.ports[p]
           list == port.tagged_vlans
<1>1. port \in Port(Kept(x), STRING) /\ Kept(x) \subseteq VlanId
  BY ConfigTyped
<1>2. port.vlan \in Kept(x) /\ list \in Seq(Kept(x))
  <2> HIDE DEF port
  <2> QED
    BY <1>1 DEF Port
<1>3. T = {port.vlan} \/ T = ToSet(list)
  OBVIOUS
<1> HIDE DEF list
<1>4. IsList(list) /\ ToSet(list) \subseteq Kept(x)
  BY <1>2 DEF IsList, ToSet
<1>5. IsFiniteSet(ToSet(list)) /\ IsFiniteSet({port.vlan})
  BY <1>4, FiniteMembers, FS_Singleton
<1> HIDE DEF port
<1> QED
  BY <1>1, <1>2, <1>3, <1>4, <1>5

\* Ports that are to be configured, ...
LEMMA FortiPortCommands ==
  ASSUME NEW x \in Scenarios, NEW P, NEW ids, IsFiniteSet(ids), ids \subseteq P,
         ids \subseteq DOMAIN x.cfg.ports, vendor(x.cfg.model) # "Aruba"
  PROVE  Fit(x, P, FortiOS!generate_port_commands(x.cfg, ids))
<1> DEFINE T(p) == IF FortiOS!inferred_mode(x.cfg.ports[p]) = "Access" THEN {x.cfg.ports[p].vlan}
                   ELSE ToSet(x.cfg.ports[p].tagged_vlans)
           a(p) == When(x.cfg.ports[p].description # NoText,
                        port_set(p, "description", x.cfg.ports[p].description))
           b(p) == <<[op |-> "native", port |-> p, vlan |-> x.cfg.ports[p].vlan],
                     [op |-> "set tagged", port |-> p, vlans |-> T(p)]>>
           speed(p) == FortiOS!convert_speed_to_fortiswitch(x.cfg.ports[p].speed_duplex)
           f == [p \in ids |-> a(p) \o b(p)]
           g == [p \in ids |->
                   <<port_set(p, "enabled", x.cfg.ports[p].enabled),
                     port_set(p, "poe_enabled", x.cfg.ports[p].poe_enabled),
                     port_set(p, "speed_duplex", speed(p))>>]
<1>1. FortiOS!generate_port_commands(x.cfg, ids) = ForEach(f) \o ForEach(g)
  BY SameForEach, SameWhen, SameModels
     DEF FortiOS!generate_port_commands, FortiOS!port_interface_commands,
         FortiOS!port_physical_commands, FortiOS!NoText, NoText
<1>2. ASSUME NEW p \in ids PROVE Fit(x, P, f[p])
  <2>1. f[p] = a(p) \o b(p)
    OBVIOUS
  <2>2. Fit(x, P, a(p))
    BY FitsPortSet, FitWhen
  <2>3. Fit(x, P, b(p))
    <3>1. T(p) \subseteq VlanId /\ T(p) \subseteq Kept(x) /\ IsFiniteSet(T(p))
      BY FortiMembers
    <3>2. x.cfg.ports[p].vlan \in Kept(x) /\ x.cfg.ports[p].vlan \in VlanId
      BY WantedVlans
    <3> HIDE DEF T
    <3>3. /\ Fits(x, P, [op |-> "native", port |-> p, vlan |-> x.cfg.ports[p].vlan])
          /\ Fits(x, P, [op |-> "set tagged", port |-> p, vlans |-> T(p)])
      BY <3>1, <3>2, FitsUntagged, FitsTagged
    <3> QED
      BY <3>3, FitTwo
  <2> HIDE DEF a, b, f
  <2> QED
    BY <2>1, <2>2, <2>3, FitJoined
<1>3. ASSUME NEW p \in ids PROVE Fit(x, P, g[p])
  <2>1. g[p] = <<port_set(p, "enabled", x.cfg.ports[p].enabled),
                 port_set(p, "poe_enabled", x.cfg.ports[p].poe_enabled),
                 port_set(p, "speed_duplex", speed(p))>>
    OBVIOUS
  <2>2. x.cfg.ports[p].poe_enabled \in BOOLEAN
    BY WantedVlans
  <2> HIDE DEF g, speed
  <2>3. /\ Fits(x, P, port_set(p, "enabled", x.cfg.ports[p].enabled))
        /\ Fits(x, P, port_set(p, "poe_enabled", x.cfg.ports[p].poe_enabled))
        /\ Fits(x, P, port_set(p, "speed_duplex", speed(p)))
    BY <2>2, FitsPortSet
  <2> QED
    BY <2>1, <2>3, FitThree
<1>4. DOMAIN f = ids /\ DOMAIN g = ids
  OBVIOUS
<1> HIDE DEF f, g
<1>5. Fit(x, P, ForEach(f)) /\ Fit(x, P, ForEach(g))
  BY <1>2, <1>3, <1>4, FitForEach
<1> QED
  BY <1>1, <1>5, FitJoined

\* ... reset, or made ready for a mirror.
LEMMA FortiOtherPorts ==
  ASSUME NEW x \in Scenarios, NEW P, NEW ids, IsFiniteSet(ids), ids \subseteq P,
         vendor(x.cfg.model) # "Aruba"
  PROVE  Fit(x, P, FortiOS!reset_ports(ids)) /\ Fit(x, P, FortiOS!configure_mirror_dest_ports(ids))
<1> DEFINE f == [p \in ids |->
             <<port_set(p, "description", NoText), [op |-> "native", port |-> p, vlan |-> 1],
               [op |-> "set tagged", port |-> p, vlans |-> {1}]>>]
           g == [p \in ids |-> <<port_set(p, "enabled", TRUE)>>]
<1>1. FortiOS!reset_ports(ids) = ForEach(f)
  BY SameForEach, SameModels DEF FortiOS!reset_ports, FortiOS!NoText, NoText
<1>2. FortiOS!configure_mirror_dest_ports(ids) = ForEach(g)
  BY SameForEach, SameModels DEF FortiOS!configure_mirror_dest_ports
<1>3. ASSUME NEW p \in ids PROVE Fit(x, P, f[p])
  <2>1. 1 \in Kept(x) /\ 1 \in VlanId /\ IsFiniteSet({1})
    BY OneIsVlan, FS_Singleton DEF Kept
  <2>2. /\ Fits(x, P, port_set(p, "description", NoText))
        /\ Fits(x, P, [op |-> "native", port |-> p, vlan |-> 1])
        /\ Fits(x, P, [op |-> "set tagged", port |-> p, vlans |-> {1}])
    BY <2>1, FitsPortSet, FitsUntagged, FitsTagged
  <2> QED
    BY <2>2, FitThree
<1>4. ASSUME NEW p \in ids PROVE Fit(x, P, g[p])
  BY FitsPortSet, FitOne
<1>5. DOMAIN f = ids /\ DOMAIN g = ids
  OBVIOUS
<1> HIDE DEF f, g
<1> QED
  BY <1>1, <1>2, <1>3, <1>4, <1>5, FitForEach

\* Mirror sessions.
LEMMA FortiMirrors ==
  ASSUME NEW x, NEW P, NEW mirrors, NEW sessions, IsFiniteSet(sessions)
  PROVE  /\ Fit(x, P, FortiOS!generate_mirror_commands(mirrors, sessions))
         /\ Fit(x, P, FortiOS!generate_remove_mirror_commands(sessions))
<1>1. PICK value : FortiOS!generate_mirror_commands(mirrors, sessions)
                     = ForEach([s \in sessions |-> <<[op |-> "mirror", session |-> s, value |-> value[s]]>>])
  <2> DEFINE received(m) == IF m.direction = "tx" THEN <<>> ELSE [ingress |-> m.source_ports]
             transmitted(m) == IF m.direction = "rx" THEN <<>> ELSE [egress |-> m.source_ports]
             v(m) == FortiOS!Updated(FortiOS!Updated([destination_port |-> m.destination_port],
                                                     received(m)), transmitted(m))
             values == [s \in sessions |-> v(mirrors[s])]
  <2>1. FortiOS!generate_mirror_commands(mirrors, sessions)
          = ForEach([s \in sessions |-> <<[op |-> "mirror", session |-> s, value |-> v(mirrors[s])]>>])
    BY SameForEach DEF FortiOS!generate_mirror_commands
  <2>2. \A s \in sessions : values[s] = v(mirrors[s])
    OBVIOUS
  <2> HIDE DEF values, v
  <2>3. [s \in sessions |-> <<[op |-> "mirror", session |-> s, value |-> v(mirrors[s])]>>]
        = [s \in sessions |-> <<[op |-> "mirror", session |-> s, value |-> values[s]]>>]
    BY <2>2
  <2> QED
    BY <2>1, <2>3
<1> DEFINE f == [s \in sessions |-> <<[op |-> "mirror", session |-> s, value |-> value[s]]>>]
           g == [s \in sessions |-> <<[op |-> "no mirror", session |-> s]>>]
<1>2. FortiOS!generate_remove_mirror_commands(sessions) = ForEach(g)
  BY SameForEach DEF FortiOS!generate_remove_mirror_commands
<1>3. \A s \in sessions : Fit(x, P, f[s])
  BY FitsEntries, FitOne
<1>4. \A s \in sessions : Fit(x, P, g[s])
  BY FitsEntries, FitOne
<1>5. DOMAIN f = sessions /\ DOMAIN g = sessions
  OBVIOUS
<1> HIDE DEF f, g
<1>6. Fit(x, P, ForEach(f)) /\ Fit(x, P, ForEach(g))
  BY <1>3, <1>4, <1>5, FitForEach
<1> QED
  BY <1>1, <1>2, <1>6 DEF f

\* Four lists of batches put together.
LEMMA PlanJoinedFour ==
  ASSUME NEW x, NEW P, NEW a, NEW b, NEW c, NEW d,
         Plan(x, P, a), Plan(x, P, b), Plan(x, P, c), Plan(x, P, d)
  PROVE  Plan(x, P, a \o b \o c \o d)
<1>1. Plan(x, P, a \o b)
  BY PlanJoined
<1>2. Plan(x, P, a \o b \o c)
  BY <1>1, PlanJoined
<1> QED
  BY <1>2, PlanJoined

\* The order in which entries are given out.
LEMMA SameSetToSeq == \A S : FortiOS!SetToSeq(S) = SetToSeq(S)
<1>1. ASSUME NEW S PROVE FortiOS!SetToSeq(S) = SetToSeq(S)
  BY Zenon DEF FortiOS!SetToSeq, SetToSeq, FortiOS!IsInjective, IsInjective, FortiOS!Cardinality, Cardinality
<1> QED
  BY <1>1

\* Communities and receivers that are added.
LEMMA FortiAdditions ==
  ASSUME NEW x, NEW P, NEW names, IsFiniteSet(names), NEW snmp, NEW occupied
  PROVE  /\ Fit(x, P, FortiOS!add_community_commands(snmp, names, occupied))
         /\ Fit(x, P, FortiOS!trap_receiver_commands(names))
<1> DEFINE order == SetToSeq(names)
           s == FortiOS!add_community_commands(snmp, names, occupied)
           t == FortiOS!trap_receiver_commands(names)
<1>1. Cardinality(names) \in Nat /\ DOMAIN order = 1..Cardinality(names)
  BY ListedSet
<1>2. /\ DOMAIN s = DOMAIN order
      /\ \A k \in DOMAIN order : \E i, n, c : s[k] = FortiOS!snmp_community_block(i, n, c)
  <2>1. FortiOS!SetToSeq(names) = order
    BY SameSetToSeq
  <2> HIDE DEF order
  <2>2. DOMAIN s = DOMAIN order
    BY <2>1 DEF FortiOS!add_community_commands
  <2>3. ASSUME NEW k \in DOMAIN order PROVE \E i, n, c : s[k] = FortiOS!snmp_community_block(i, n, c)
    BY <2>1, <2>3 DEF FortiOS!add_community_commands
  <2> QED
    BY <2>2, <2>3
<1>3. ASSUME NEW i, NEW n, NEW c PROVE Fits(x, P, FortiOS!snmp_community_block(i, n, c))
  BY FitsEntries DEF FortiOS!snmp_community_block
<1>4. t = [k \in DOMAIN order |-> [op |-> "host", entry |-> 1, index |-> 99 + k, host |-> order[k]]]
  BY SameSetToSeq DEF FortiOS!trap_receiver_commands
<1> HIDE DEF s, t, order
<1>5. Fit(x, P, s)
  <2>1. \A k \in DOMAIN s : Fits(x, P, s[k])
    BY <1>2, <1>3
  <2> QED
    BY <1>1, <1>2, <2>1 DEF Fit, IsList
<1>6. ASSUME NEW k \in DOMAIN t PROVE Fits(x, P, t[k])
  <2>1. t[k] = [op |-> "host", entry |-> 1, index |-> 99 + k, host |-> order[k]]
    BY <1>4
  <2> QED
    BY <2>1, FitsFortiOS
<1>7. Fit(x, P, t)
  BY <1>1, <1>4, <1>6 DEF Fit, IsList
<1> QED
  BY <1>5, <1>7 DEF s, t

\* What SNMP needs before a community is added.
LEMMA FortiPrerequisites ==
  ASSUME NEW x, NEW P, NEW dev
  PROVE  Fit(x, P, FortiOS!snmp_prerequisite_commands(x.cfg, dev))
<1> DEFINE a == When(~ FortiOS!parse_snmp_sysinfo_enabled(dev), [op |-> "sysinfo"])
           S == FortiOS!resolve_mgmt_access(x.cfg, dev)
           f == [v \in S |->
                   When("snmp" \notin dev.svi[v].allowaccess,
                        [op |-> "svi", vlan |-> v,
                         value |-> [allowaccess |-> dev.svi[v].allowaccess \cup {"snmp"}]])]
<1>1. FortiOS!snmp_prerequisite_commands(x.cfg, dev) = a \o ForEach(f)
  BY SameForEach, SameWhen DEF FortiOS!snmp_prerequisite_commands
<1>2. IsFiniteSet(S)
  <2>1. S = {} \/ S = {x.cfg.management_vlan}
    BY DEF FortiOS!resolve_mgmt_access
  <2> HIDE DEF S
  <2>2. IsFiniteSet({}) /\ IsFiniteSet({x.cfg.management_vlan})
    BY FS_EmptySet, FS_Singleton
  <2> QED
    BY <2>1, <2>2
<1>3. Fit(x, P, a)
  BY FitsFortiOS, FitWhen
<1>4. ASSUME NEW v \in S PROVE Fit(x, P, f[v])
  BY FitsFortiOS, FitWhen
<1>5. DOMAIN f = S
  OBVIOUS
<1> HIDE DEF a, f, S
<1>6. Fit(x, P, ForEach(f))
  BY <1>2, <1>4, <1>5, FitForEach
<1> QED
  BY <1>1, <1>3, <1>6, FitJoined

\* All of apply_snmp_diff.
LEMMA FortiSnmp ==
  ASSUME NEW x, NEW P, NEW dev, NEW snmp, NEW d, SnmpDiffIsFinite(x, d)
  PROVE  Fit(x, P, FortiOS!apply_snmp_diff(x.cfg, dev, snmp, d))
<1> DEFINE indices == FortiOS!parse_snmp_community_indices(dev)
           a == IF d.communities_to_add \cup d.communities_to_update # {}
                THEN FortiOS!snmp_prerequisite_commands(x.cfg, dev) ELSE <<>>
           fb == [n \in d.communities_to_remove |-> <<[op |-> "no community", name |-> indices[n]]>>]
           fc == [n \in d.communities_to_update |->
                    <<[op |-> "no community", name |-> indices[n]],
                      FortiOS!snmp_community_block(indices[n], n, snmp.communities[n])>>]
           e == FortiOS!add_community_commands(snmp, d.communities_to_add, FortiOS!occupied_indices(dev, d))
           g == FortiOS!trap_receiver_commands(d.trap_receivers_to_add)
<1>1. FortiOS!apply_snmp_diff(x.cfg, dev, snmp, d) = a \o ForEach(fb) \o ForEach(fc) \o e \o g
  BY SameForEach DEF FortiOS!apply_snmp_diff
<1>2. Fit(x, P, a)
  BY FortiPrerequisites, FitNone
<1>3. Fit(x, P, ForEach(fb))
  <2>1. \A n \in DOMAIN fb : Fit(x, P, fb[n])
    BY FitsEntries, FitOne
  <2>2. IsFiniteSet(DOMAIN fb)
    BY DEF SnmpDiffIsFinite
  <2> HIDE DEF fb
  <2> QED
    BY <2>1, <2>2, FitForEach
<1>4. Fit(x, P, ForEach(fc))
  <2>1. ASSUME NEW n \in DOMAIN fc PROVE Fit(x, P, fc[n])
    <3>1. /\ Fits(x, P, [op |-> "no community", name |-> indices[n]])
          /\ Fits(x, P, FortiOS!snmp_community_block(indices[n], n, snmp.communities[n]))
      BY FitsEntries DEF FortiOS!snmp_community_block
    <3> QED
      BY <3>1, FitTwo
  <2>2. IsFiniteSet(DOMAIN fc)
    BY DEF SnmpDiffIsFinite
  <2> HIDE DEF fc
  <2> QED
    BY <2>1, <2>2, FitForEach
<1>5. Fit(x, P, e) /\ Fit(x, P, g)
  BY FortiAdditions DEF SnmpDiffIsFinite
<1> HIDE DEF a, fb, fc, e, g
<1>6. Fit(x, P, a \o ForEach(fb) \o ForEach(fc) \o e)
  BY <1>2, <1>3, <1>4, <1>5, FitJoinedFour
<1>7. Fit(x, P, a \o ForEach(fb) \o ForEach(fc) \o e \o g)
  BY <1>5, <1>6, FitJoined
<1> QED
  BY <1>1, <1>7

\* All of apply_diff.
LEMMA FortiPlan ==
  ASSUME NEW x \in Scenarios, NEW dev, NEW d, NEW order \in SetToSeqs(d.vlans_to_remove),
         DiffFits(x, d), vendor(x.cfg.model) # "Aruba"
  PROVE  Plan(x, Reached(x), FortiOS!apply_diff(x.cfg, dev, d, order))
<1> DEFINE P == Reached(x)
           wanted == IF FortiOS!effective_snmp(x.cfg.snmp) = {} THEN FortiOS!EmptySnmp
                     ELSE FortiOS!the(FortiOS!effective_snmp(x.cfg.snmp))
           changed == \E s \in d.snmp_diff : FortiOS!snmp_has_changes(s)
           a == When(d.vlans_to_remove # {}, FortiOS!generate_remove_vlan_commands(order))
           b == When(d.vlans_to_add # {}, FortiOS!generate_vlan_commands(x.cfg, d.vlans_to_add))
           c == When(d.vlans_to_update # {}, FortiOS!generate_vlan_commands(x.cfg, d.vlans_to_update))
           e == When(d.ports_to_configure # {}, FortiOS!generate_port_commands(x.cfg, d.ports_to_configure))
           f == When(d.ports_to_reset # {}, FortiOS!reset_ports(d.ports_to_reset))
           g == When(d.mirror_dest_ports_to_configure # {},
                     FortiOS!configure_mirror_dest_ports(d.mirror_dest_ports_to_configure))
           h == When(d.mirrors_to_remove # {}, FortiOS!generate_remove_mirror_commands(d.mirrors_to_remove))
           i == When(d.mirrors_to_add # {},
                     FortiOS!generate_mirror_commands(x.cfg.port_mirrors, d.mirrors_to_add))
           j == When(d.mirrors_to_update # {},
                     FortiOS!generate_mirror_commands(x.cfg.port_mirrors, d.mirrors_to_update))
           k == When(changed,
                     IF FortiOS!check_snmp_limits(wanted)
                     THEN FortiOS!apply_snmp_diff(x.cfg, dev, wanted, FortiOS!the(d.snmp_diff))
                     ELSE FortiOS!Fails)
           l == When(d.management_vlan_changed,
                     IF d.management_vlan = 0 THEN FortiOS!remove_management_vlan
                     ELSE IF d.management_vlan \notin DOMAIN x.cfg.vlans THEN FortiOS!Fails
                     ELSE FortiOS!configure_management_vlan(x.cfg, d.management_vlan))
<1>1. FortiOS!apply_diff(x.cfg, dev, d, order) = a \o b \o c \o e \o f \o g \o h \o i \o j \o k \o l
  BY SameWhen, Zenon DEF FortiOS!apply_diff
<1>2. /\ IsFiniteSet(d.vlans_to_add) /\ IsFiniteSet(d.vlans_to_update)
      /\ d.vlans_to_add \subseteq DOMAIN x.cfg.vlans /\ d.vlans_to_update \subseteq DOMAIN x.cfg.vlans
      /\ IsFiniteSet(d.ports_to_configure) /\ d.ports_to_configure \subseteq DOMAIN x.cfg.ports
      /\ IsFiniteSet(d.ports_to_reset) /\ d.ports_to_reset \subseteq P
      /\ IsFiniteSet(d.mirror_dest_ports_to_configure)
      /\ d.mirror_dest_ports_to_configure \subseteq mirror_destinations(x.cfg)
      /\ IsFiniteSet(d.mirrors_to_remove) /\ IsFiniteSet(d.mirrors_to_add)
      /\ IsFiniteSet(d.mirrors_to_update)
  BY DEF DiffFits
<1>3. DOMAIN x.cfg.ports \subseteq P /\ mirror_destinations(x.cfg) \subseteq P
  BY DEF Reached, Managed
<1> HIDE DEF P
<1>4. Plan(x, P, a)
  <2>1. Fit(x, P, FortiOS!generate_remove_vlan_commands(order))
    BY GoneCommands
  <2> QED
    BY <2>1, PlanWhen
<1>5. Plan(x, P, b) /\ Plan(x, P, c)
  <2>1. /\ Fit(x, P, FortiOS!generate_vlan_commands(x.cfg, d.vlans_to_add))
        /\ Fit(x, P, FortiOS!generate_vlan_commands(x.cfg, d.vlans_to_update))
    BY <1>2, FortiVlanCommands
  <2> QED
    BY <2>1, PlanWhen
<1>6. Plan(x, P, e)
  <2>1. Fit(x, P, FortiOS!generate_port_commands(x.cfg, d.ports_to_configure))
    BY <1>2, <1>3, FortiPortCommands
  <2> QED
    BY <2>1, PlanWhen
<1>7. Plan(x, P, f) /\ Plan(x, P, g)
  <2>1. Fit(x, P, FortiOS!reset_ports(d.ports_to_reset))
    BY <1>2, FortiOtherPorts
  <2>2. Fit(x, P, FortiOS!configure_mirror_dest_ports(d.mirror_dest_ports_to_configure))
    BY <1>2, <1>3, FortiOtherPorts
  <2> QED
    BY <2>1, <2>2, PlanWhen
<1>8. Plan(x, P, h) /\ Plan(x, P, i) /\ Plan(x, P, j)
  <2>1. /\ Fit(x, P, FortiOS!generate_remove_mirror_commands(d.mirrors_to_remove))
        /\ Fit(x, P, FortiOS!generate_mirror_commands(x.cfg.port_mirrors, d.mirrors_to_add))
        /\ Fit(x, P, FortiOS!generate_mirror_commands(x.cfg.port_mirrors, d.mirrors_to_update))
    BY <1>2, FortiMirrors
  <2> QED
    BY <2>1, PlanWhen
<1>9. Plan(x, P, k)
  <2> DEFINE batch == IF FortiOS!check_snmp_limits(wanted)
                      THEN FortiOS!apply_snmp_diff(x.cfg, dev, wanted, FortiOS!the(d.snmp_diff))
                      ELSE FortiOS!Fails
  <2>1. changed => FortiOS!the(d.snmp_diff) \in d.snmp_diff
    BY DEF FortiOS!the
  <2>2. \A s \in d.snmp_diff : SnmpDiffIsFinite(x, s)
    BY DEF DiffFits
  <2> HIDE DEF changed, wanted
  <2>3. changed => Fit(x, P, FortiOS!apply_snmp_diff(x.cfg, dev, wanted, FortiOS!the(d.snmp_diff)))
    BY <2>1, <2>2, FortiSnmp
  <2>4. changed => batch = FortiOS!Fails \/ Fit(x, P, batch)
    BY <2>3
  <2> HIDE DEF batch
  <2>5. Plan(x, P, When(changed, batch))
    BY <2>4, PlanWhen
  <2> QED
    BY <2>5 DEF batch
<1>10. Plan(x, P, l)
  <2> DEFINE batch == IF d.management_vlan = 0 THEN FortiOS!remove_management_vlan
                      ELSE IF d.management_vlan \notin DOMAIN x.cfg.vlans THEN FortiOS!Fails
                      ELSE FortiOS!configure_management_vlan(x.cfg, d.management_vlan)
  <2>1. Fit(x, P, FortiOS!remove_management_vlan)
    BY FitNone DEF FortiOS!remove_management_vlan
  <2>2. Fit(x, P, FortiOS!configure_management_vlan(x.cfg, d.management_vlan))
    BY FitsFortiOS, FitOne DEF FortiOS!configure_management_vlan
  <2>3. batch = FortiOS!Fails \/ Fit(x, P, batch)
    BY <2>1, <2>2
  <2> HIDE DEF batch
  <2>4. Plan(x, P, When(d.management_vlan_changed, batch))
    BY <2>3, PlanWhen
  <2> QED
    BY <2>4 DEF batch
<1> HIDE DEF a, b, c, e, f, g, h, i, j, k, l
<1>11. Plan(x, P, a \o b \o c \o e)
  BY <1>4, <1>5, <1>6, PlanJoinedFour
<1>12. Plan(x, P, a \o b \o c \o e \o f \o g \o h)
  BY <1>7, <1>8, <1>11, PlanJoinedFour
<1>13. Plan(x, P, a \o b \o c \o e \o f \o g \o h \o i \o j \o k)
  BY <1>8, <1>9, <1>12, PlanJoinedFour
<1>14. Plan(x, P, a \o b \o c \o e \o f \o g \o h \o i \o j \o k \o l)
  BY <1>10, <1>13, PlanJoined
<1> QED
  BY <1>1, <1>14 DEF P

(***************************************************************************)
(* IOS.                                                                    *)
(***************************************************************************)
LEMMA CiscoReadable ==
  ASSUME NEW x \in Scenarios, NEW dev
  PROVE  Readable(x, IOS!parse_current_state(dev))
<1> DEFINE c == IOS!parse_current_state(dev)
<1>1. DOMAIN c.vlans = {} /\ DOMAIN c.ports = {} /\ DOMAIN c.port_mirrors = {} /\ c.snmp = {}
  BY DEF IOS!parse_current_state, IOS!EmptyState
<1> HIDE DEF c
<1>2. Readable(x, c)
  BY <1>1, FS_EmptySet DEF Readable
<1> QED
  BY <1>2 DEF c

\* VLANs.
LEMMA CiscoVlanCommands ==
  ASSUME NEW x \in Scenarios, NEW P, NEW ids, IsFiniteSet(ids), ids \subseteq DOMAIN x.cfg.vlans
  PROVE  Fit(x, P, IOS!generate_vlan_commands(x.cfg, ids))
<1> DEFINE set(v, field) == [op |-> "vlan set", vlan |-> v, field |-> field, value |-> x.cfg.vlans[v][field]]
           a(v) == <<[op |-> "vlan", vlan |-> v], set(v, "name")>>
           b(v) == When(x.cfg.vlans[v].description # IOS!NoText, set(v, "description"))
           f == [v \in ids |-> a(v) \o b(v)]
<1>1. IOS!generate_vlan_commands(x.cfg, ids) = ForEach(f)
  BY SameForEach, SameWhen DEF IOS!generate_vlan_commands
<1>2. ids \subseteq VlanId
  BY ConfigTyped
<1>3. ASSUME NEW v \in ids PROVE Fit(x, P, f[v])
  <2>1. f[v] = a(v) \o b(v)
    OBVIOUS
  <2>2. /\ Fits(x, P, [op |-> "vlan", vlan |-> v])
        /\ Fits(x, P, set(v, "name")) /\ Fits(x, P, set(v, "description"))
    BY <1>2, FitsVlan, FitsVlanSet
  <2> HIDE DEF f, set
  <2>3. Fit(x, P, a(v)) /\ Fit(x, P, b(v))
    BY <2>2, FitTwo, FitWhen
  <2> HIDE DEF a, b
  <2> QED
    BY <2>1, <2>3, FitJoined
<1>4. DOMAIN f = ids
  OBVIOUS
<1> HIDE DEF f
<1> QED
  BY <1>1, <1>3, <1>4, FitForEach

\* The commands for one port.
LEMMA CiscoPort ==
  ASSUME NEW x \in Scenarios, NEW P, NEW p \in P, p \in DOMAIN x.cfg.ports,
         vendor(x.cfg.model) # "Aruba"
  PROVE  Fit(x, P, IOS!port_commands(p, x.cfg.ports[p]))
<1> DEFINE port == x.cfg.ports[p]
           trunk == IOS!inferred_mode(port) = "Trunk"
           T == ToSet(port.tagged_vlans)
           speed == <<IOS!to_cisco_speed(port.speed_duplex), IOS!to_cisco_duplex(port.speed_duplex)>>
           mac(t) == [op |-> IF port.mac_notify THEN "mac trap" ELSE "no mac trap", port |-> p, trap |-> t]
           a == When(port.description # IOS!NoText, port_set(p, "description", port.description))
           b == <<[op |-> "trunk", port |-> p, value |-> trunk],
                  [op |-> "untagged", port |-> p, vlan |-> port.vlan]>>
           c == When(trunk, [op |-> "set tagged", port |-> p, vlans |-> T])
           d == <<port_set(p, "enabled", port.enabled), port_set(p, "poe_enabled", port.poe_enabled),
                  mac("added"), mac("removed"), port_set(p, "speed_duplex", speed)>>
<1>1. IOS!port_commands(p, port) = a \o b \o c \o d
  BY SameWhen, SameModels DEF IOS!port_commands
<1>2. /\ port.vlan \in Kept(x) /\ port.vlan \in VlanId /\ port.poe_enabled \in BOOLEAN
  BY WantedVlans
<1>3. T \subseteq Kept(x) /\ T \subseteq VlanId /\ IsFiniteSet(T)
  <2> DEFINE list == port.tagged_vlans
  <2>1. port \in Port(Kept(x), STRING) /\ Kept(x) \subseteq VlanId
    BY ConfigTyped
  <2>2. list \in Seq(Kept(x))
    <3> HIDE DEF port
    <3> QED
      BY <2>1 DEF Port
  <2> HIDE DEF list, port
  <2>3. IsList(list) /\ ToSet(list) \subseteq Kept(x)
    BY <2>2 DEF IsList, ToSet
  <2>4. IsFiniteSet(ToSet(list))
    BY <2>3, FiniteMembers
  <2> QED
    BY <2>1, <2>3, <2>4 DEF list
<1>4. /\ Fits(x, P, port_set(p, "description", port.description))
      /\ Fits(x, P, port_set(p, "enabled", port.enabled))
      /\ Fits(x, P, port_set(p, "poe_enabled", port.poe_enabled))
      /\ Fits(x, P, port_set(p, "speed_duplex", speed))
  BY <1>2, FitsPortSet
<1>5. Fits(x, P, mac("added")) /\ Fits(x, P, mac("removed"))
  BY FitsMac
<1>6. /\ Fits(x, P, [op |-> "trunk", port |-> p, value |-> trunk])
      /\ Fits(x, P, [op |-> "untagged", port |-> p, vlan |-> port.vlan])
      /\ Fits(x, P, [op |-> "set tagged", port |-> p, vlans |-> T])
  BY <1>2, <1>3, FitsFortiOS, FitsUntagged, FitsTagged
<1> HIDE DEF T, trunk, mac, speed, port
<1>7. Fit(x, P, a) /\ Fit(x, P, b) /\ Fit(x, P, c)
  BY <1>4, <1>6, FitWhen, FitTwo
<1>8. Fit(x, P, d)
  <2>1. IsList(d) /\ DOMAIN d = 1..5
    BY DEF IsList
  <2>2. \A i \in 1..5 : Fits(x, P, d[i])
    BY <1>4, <1>5
  <2> QED
    BY <2>1, <2>2 DEF Fit
<1> HIDE DEF a, b, c, d
<1>9. Fit(x, P, a \o b \o c \o d)
  BY <1>7, <1>8, FitJoinedFour
<1> QED
  BY <1>1, <1>9 DEF port

\* Ports that are to be configured or made ready for a mirror.
LEMMA CiscoPorts ==
  ASSUME NEW x \in Scenarios, NEW P, NEW ids, IsFiniteSet(ids), ids \subseteq P,
         vendor(x.cfg.model) # "Aruba"
  PROVE  /\ ids \subseteq DOMAIN x.cfg.ports => Fit(x, P, IOS!generate_port_commands(x.cfg, ids))
         /\ Fit(x, P, IOS!configure_mirror_dest_ports(ids))
<1> DEFINE f == [p \in ids |-> IOS!port_commands(p, x.cfg.ports[p])]
           g == [p \in ids |->
             <<[op |-> "trunk", port |-> p, value |-> FALSE],
               [op |-> "untagged", port |-> p, vlan |-> 1],
               port_set(p, "description", NoText), port_set(p, "enabled", TRUE)>>]
<1>1. IOS!generate_port_commands(x.cfg, ids) = ForEach(f)
  BY SameForEach DEF IOS!generate_port_commands
<1>2. IOS!configure_mirror_dest_ports(ids) = ForEach(g)
  BY SameForEach, SameModels DEF IOS!configure_mirror_dest_ports, IOS!NoText, NoText
<1>3. ids \subseteq DOMAIN x.cfg.ports => \A p \in ids : Fit(x, P, f[p])
  BY CiscoPort
<1>4. ASSUME NEW p \in ids PROVE Fit(x, P, g[p])
  <2>1. 1 \in Kept(x) /\ 1 \in VlanId
    BY OneIsVlan DEF Kept
  <2>2. /\ Fits(x, P, [op |-> "trunk", port |-> p, value |-> FALSE])
        /\ Fits(x, P, [op |-> "untagged", port |-> p, vlan |-> 1])
        /\ Fits(x, P, port_set(p, "description", NoText))
        /\ Fits(x, P, port_set(p, "enabled", TRUE))
    BY <2>1, FitsPortSet, FitsUntagged, FitsFortiOS
  <2> QED
    BY <2>2, FitFour
<1>5. DOMAIN f = ids /\ DOMAIN g = ids
  OBVIOUS
<1> HIDE DEF f, g
<1> QED
  BY <1>1, <1>2, <1>3, <1>4, <1>5, FitForEach

\* SNMP.
LEMMA CiscoSnmp ==
  ASSUME NEW x, NEW P, NEW snmp, NEW d, SnmpDiffIsFinite(x, d), vendor(x.cfg.model) # "Fortiswitch"
  PROVE  Fit(x, P, IOS!apply_snmp_diff(snmp, d))
<1> DEFINE fa == [n \in d.communities_to_remove |-> <<[op |-> "no community", name |-> n]>>]
           fb == [n \in d.communities_to_update |->
                    <<[op |-> "no community", name |-> n], IOS!ios_community(snmp, n)>>]
           fc == [n \in d.communities_to_add |-> <<IOS!ios_community(snmp, n)>>]
           fd == [h \in d.trap_receivers_to_remove |-> <<[op |-> "no receiver", host |-> h]>>]
           fe == [h \in d.trap_receivers_to_add |->
                    <<[op |-> "receiver", host |-> h, community |-> snmp.trap_receivers[h]]>>]
           fg == [t \in d.traps_to_enable |-> <<[op |-> "traps", traps |-> {t}]>>]
           fh == [t \in d.traps_to_disable |-> <<[op |-> "no traps", traps |-> {t}]>>]
<1>1. IOS!apply_snmp_diff(snmp, d)
        = ForEach(fa) \o ForEach(fb) \o ForEach(fc) \o ForEach(fd) \o ForEach(fe) \o ForEach(fg) \o ForEach(fh)
  BY SameForEach DEF IOS!apply_snmp_diff
<1>2. \A n : Fits(x, P, IOS!ios_community(snmp, n))
  BY FitsEntries DEF IOS!ios_community
<1>3. \A n \in DOMAIN fa : Fit(x, P, fa[n])
  BY FitsEntries, FitOne
<1>4. ASSUME NEW n \in DOMAIN fb PROVE Fit(x, P, fb[n])
  <2>1. Fits(x, P, [op |-> "no community", name |-> n])
    BY FitsEntries
  <2> QED
    BY <1>2, <2>1, FitTwo
<1>5. \A n \in DOMAIN fc : Fit(x, P, fc[n])
  BY <1>2, FitOne
<1>6. \A h \in DOMAIN fd : Fit(x, P, fd[h])
  BY FitsEntries, FitOne
<1>7. \A h \in DOMAIN fe : Fit(x, P, fe[h])
  BY FitsEntries, FitOne
<1>8. \A t \in DOMAIN fg : Fit(x, P, fg[t])
  BY FitsEntries, FitOne
<1>9. \A t \in DOMAIN fh : Fit(x, P, fh[t])
  BY FitsEntries, FitOne
<1>10. /\ IsFiniteSet(DOMAIN fa) /\ IsFiniteSet(DOMAIN fb) /\ IsFiniteSet(DOMAIN fc)
       /\ IsFiniteSet(DOMAIN fd) /\ IsFiniteSet(DOMAIN fe) /\ IsFiniteSet(DOMAIN fg)
       /\ IsFiniteSet(DOMAIN fh)
  BY DEF SnmpDiffIsFinite
<1> HIDE DEF fa, fb, fc, fd, fe, fg, fh
<1>11. /\ Fit(x, P, ForEach(fa)) /\ Fit(x, P, ForEach(fb)) /\ Fit(x, P, ForEach(fc))
       /\ Fit(x, P, ForEach(fd))
  BY <1>3, <1>4, <1>5, <1>6, <1>10, FitForEach
<1>12. Fit(x, P, ForEach(fe)) /\ Fit(x, P, ForEach(fg)) /\ Fit(x, P, ForEach(fh))
  BY <1>7, <1>8, <1>9, <1>10, FitForEach
<1>13. Fit(x, P, ForEach(fa) \o ForEach(fb) \o ForEach(fc) \o ForEach(fd))
  BY <1>11, FitJoinedFour
<1>14. Fit(x, P, ForEach(fa) \o ForEach(fb) \o ForEach(fc) \o ForEach(fd) \o ForEach(fe) \o ForEach(fg) \o ForEach(fh))
  BY <1>12, <1>13, FitJoinedFour
<1> QED
  BY <1>1, <1>14

\* Mirror sessions.
LEMMA CiscoMirrors ==
  ASSUME NEW x, NEW P, NEW mirrors, NEW sessions, IsFiniteSet(sessions)
  PROVE  Fit(x, P, IOS!generate_mirror_commands(mirrors, sessions))
<1> DEFINE f == [s \in sessions |-> <<[op |-> "no mirror", session |-> s],
                                      [op |-> "mirror", session |-> s, value |-> mirrors[s]]>>]
<1>1. IOS!generate_mirror_commands(mirrors, sessions) = ForEach(f)
  BY SameForEach DEF IOS!generate_mirror_commands
<1>2. ASSUME NEW s \in sessions PROVE Fit(x, P, f[s])
  <2>1. /\ Fits(x, P, [op |-> "no mirror", session |-> s])
        /\ Fits(x, P, [op |-> "mirror", session |-> s, value |-> mirrors[s]])
    BY FitsEntries
  <2> QED
    BY <2>1, FitTwo
<1>3. DOMAIN f = sessions
  OBVIOUS
<1> HIDE DEF f
<1> QED
  BY <1>1, <1>2, <1>3, FitForEach

\* All of apply_diff.
LEMMA CiscoPlan ==
  ASSUME NEW x \in Scenarios, NEW d, DiffFits(x, d), vendor(x.cfg.model) = "Cisco"
  PROVE  Plan(x, Reached(x), IOS!apply_diff(x.cfg, d))
<1> DEFINE P == Reached(x)
           wanted == IF IOS!effective_snmp(x.cfg.snmp) = {} THEN IOS!EmptySnmp
                     ELSE IOS!the(IOS!effective_snmp(x.cfg.snmp))
           changed == \E s \in d.snmp_diff : IOS!snmp_has_changes(s)
           a == When(d.vlans_to_add # {}, IOS!generate_vlan_commands(x.cfg, d.vlans_to_add))
           b == When(d.ports_to_configure # {}, IOS!generate_port_commands(x.cfg, d.ports_to_configure))
           c == When(d.mirror_dest_ports_to_configure # {},
                     IOS!configure_mirror_dest_ports(d.mirror_dest_ports_to_configure))
           e == When(d.mirrors_to_add # {},
                     IOS!generate_mirror_commands(x.cfg.port_mirrors, d.mirrors_to_add))
           f == When(changed, IOS!apply_snmp_diff(wanted, IOS!the(d.snmp_diff)))
           g == When(d.management_vlan_changed,
                     IF d.management_vlan # 0 THEN IOS!configure_management_vlan(x.cfg, d.management_vlan)
                     ELSE IOS!remove_management_vlan)
<1>1. IOS!apply_diff(x.cfg, d) = a \o b \o c \o e \o f \o g
  BY SameWhen, Zenon DEF IOS!apply_diff
<1>2. /\ IsFiniteSet(d.vlans_to_add) /\ d.vlans_to_add \subseteq DOMAIN x.cfg.vlans
      /\ IsFiniteSet(d.ports_to_configure) /\ d.ports_to_configure \subseteq DOMAIN x.cfg.ports
      /\ IsFiniteSet(d.mirror_dest_ports_to_configure)
      /\ d.mirror_dest_ports_to_configure \subseteq mirror_destinations(x.cfg)
      /\ IsFiniteSet(d.mirrors_to_add)
  BY DEF DiffFits
<1>3. DOMAIN x.cfg.ports \subseteq P /\ mirror_destinations(x.cfg) \subseteq P
  BY DEF Reached, Managed
<1> HIDE DEF P
<1>4. Plan(x, P, a)
  <2>1. Fit(x, P, IOS!generate_vlan_commands(x.cfg, d.vlans_to_add))
    BY <1>2, CiscoVlanCommands
  <2> QED
    BY <2>1, PlanWhen
<1>5. Plan(x, P, b) /\ Plan(x, P, c)
  <2>1. Fit(x, P, IOS!generate_port_commands(x.cfg, d.ports_to_configure))
    BY <1>2, <1>3, CiscoPorts
  <2>2. Fit(x, P, IOS!configure_mirror_dest_ports(d.mirror_dest_ports_to_configure))
    BY <1>2, <1>3, CiscoPorts
  <2> QED
    BY <2>1, <2>2, PlanWhen
<1>6. Plan(x, P, e)
  <2>1. Fit(x, P, IOS!generate_mirror_commands(x.cfg.port_mirrors, d.mirrors_to_add))
    BY <1>2, CiscoMirrors
  <2> QED
    BY <2>1, PlanWhen
<1>7. Plan(x, P, f)
  <2>1. changed => IOS!the(d.snmp_diff) \in d.snmp_diff
    BY DEF IOS!the
  <2>2. \A s \in d.snmp_diff : SnmpDiffIsFinite(x, s)
    BY DEF DiffFits
  <2> HIDE DEF changed, wanted
  <2>3. changed => Fit(x, P, IOS!apply_snmp_diff(wanted, IOS!the(d.snmp_diff)))
    BY <2>1, <2>2, CiscoSnmp
  <2> QED
    BY <2>3, PlanWhen
<1>8. Plan(x, P, g)
  <2> DEFINE batch == IF d.management_vlan # 0
                      THEN IOS!configure_management_vlan(x.cfg, d.management_vlan)
                      ELSE IOS!remove_management_vlan
  <2>1. batch = <<>> \/ batch = <<[op |-> "management vlan", vlan |-> d.management_vlan]>>
    BY DEF IOS!configure_management_vlan, IOS!remove_management_vlan
  <2>2. Fits(x, P, [op |-> "management vlan", vlan |-> d.management_vlan])
    BY FitsEntries
  <2>3. Fit(x, P, <<>>) /\ Fit(x, P, <<[op |-> "management vlan", vlan |-> d.management_vlan]>>)
    BY <2>2, FitNone, FitOne
  <2> HIDE DEF batch
  <2>4. Plan(x, P, When(d.management_vlan_changed, batch))
    BY <2>1, <2>3, PlanWhen
  <2> QED
    BY <2>4 DEF batch
<1> HIDE DEF a, b, c, e, f, g
<1>9. Plan(x, P, a \o b \o c \o e)
  BY <1>4, <1>5, <1>6, PlanJoinedFour
<1>10. Plan(x, P, a \o b \o c \o e \o f)
  BY <1>7, <1>9, PlanJoined
<1>11. Plan(x, P, a \o b \o c \o e \o f \o g)
  BY <1>8, <1>10, PlanJoined
<1> QED
  BY <1>1, <1>11 DEF P

(***************************************************************************)
(* Every vendor.                                                           *)
(***************************************************************************)
LEMMA ParsedIsReadable ==
  ASSUME sw \in Scenarios, NEW dev, IsDevice(dev), DOMAIN dev.port = DOMAIN sw.dev.port,
         NEW state \in ParsedStates(dev)
  PROVE  Readable(sw, state)
<1>1. vendor(sw.cfg.model) \in {"Aruba", "Fortiswitch", "Cisco"}
  BY ConfigTyped DEF SwitchModel, vendor
<1>2. CASE vendor(sw.cfg.model) = "Aruba"
  BY <1>2, ArubaReadable DEF ParsedStates, Brand
<1>3. CASE vendor(sw.cfg.model) = "Fortiswitch"
  BY <1>3, FortiReadable DEF ParsedStates, Brand
<1>4. CASE vendor(sw.cfg.model) = "Cisco"
  BY <1>4, CiscoReadable DEF ParsedStates, Brand
<1> QED
  BY <1>1, <1>2, <1>3, <1>4

\* What an apply is going to send, whatever the vendor and the order.
LEMMA AnswersArePlans ==
  ASSUME sw \in Scenarios, NEW dev, IsDevice(dev), DOMAIN dev.port = DOMAIN sw.dev.port,
         NEW state \in ParsedStates(dev), NEW bs \in Answers(dev, state, Diff(state)),
         Brand = "Aruba" => KnowsItsVlans(dev)
  PROVE  /\ Plan(sw, Reached(sw), bs)
         /\ Brand = "Aruba" => VlansFirst(sw, dev, bs)
<1> DEFINE d == Diff(state)
<1>1. Readable(sw, state)
  BY ParsedIsReadable
<1>2. DiffFits(sw, d)
  BY <1>1, DiffIsFit DEF Diff
<1>3. vendor(sw.cfg.model) \in {"Aruba", "Fortiswitch", "Cisco"}
  BY ConfigTyped DEF SwitchModel, vendor
<1>4. CASE Brand = "Aruba"
  <2>1. DOMAIN sw.cfg.vlans \ DOMAIN dev.vlans \subseteq d.vlans_to_add
    <3>1. DOMAIN state.vlans = DOMAIN dev.vlans
      <4>1. PICK order : state = Aruba!parse_current_state(sw.cfg, dev, order)
        BY <1>4 DEF ParsedStates
      <4> QED
        BY <4>1, ArubaReadable
    <3> QED
      BY <3>1 DEF Diff, compute_diff, vlans_to_add
  <2> HIDE DEF d
  <2>2. PICK order \in SetToSeqs(d.vlans_to_remove) : bs = Aruba!apply_diff(sw.cfg, state, d, order)
    BY <1>4 DEF Answers, d
  <2> QED
    BY <1>1, <1>2, <1>4, <2>1, <2>2, ArubaPlan DEF Brand
<1>5. CASE Brand = "Fortiswitch"
  <2> HIDE DEF d
  <2>1. PICK order \in SetToSeqs(d.vlans_to_remove) : bs = FortiOS!apply_diff(sw.cfg, dev, d, order)
    BY <1>5 DEF Answers, d
  <2> QED
    BY <1>2, <1>5, <2>1, FortiPlan DEF Brand
<1>6. CASE Brand = "Cisco"
  <2> HIDE DEF d
  <2>1. bs = IOS!apply_diff(sw.cfg, d)
    BY <1>6 DEF Answers, d
  <2> QED
    BY <1>2, <1>6, <2>1, CiscoPlan DEF Brand
<1> QED
  BY <1>3, <1>4, <1>5, <1>6 DEF Brand

(***************************************************************************)
(* The inductive invariant: IInv.                                          *)
(***************************************************************************)

\* A switch as an apply of x may find or leave it.
SoundFor(x, d) ==
  /\ IsDevice(d) /\ DOMAIN d.port = DOMAIN x.dev.port
  /\ vendor(x.cfg.model) = "Aruba" => KnowsItsVlans(d)

\* Both configurations of the switch are such.
Devices == sw \in Scenarios /\ SoundFor(sw, running) /\ SoundFor(sw, startup)

\* The steps of an apply after it has connected, ...
ApplySteps == {"parse", "send", "results", "validate", "rollback", "save"}

\* ... and those of a PoE operation.
PoeSteps == {"setting", "disabling", "enabling", "retrying"}

\* Who takes which step: a PoE operation is under way at its own steps alone
\* and has its own command to send, a PoE reset the one that turns power on.
Phases ==
  /\ pc \in {"idle", "connect"} \cup ApplySteps \cup PoeSteps
  /\ pc \in ApplySteps => kind \in Applies
  /\ pc = "connect" /\ kind \notin Applies => poe_op_guard
  /\ pc \in PoeSteps =>
       /\ poe_op_guard
       /\ batches = <<poe_commands_for(TRUE)>> \/ batches = <<poe_commands_for(FALSE)>>
  /\ kind = "poe_reset" =>
       /\ outcome = "none" /\ pc \in {"connect", "disabling", "enabling", "retrying"}
       /\ pc \in {"enabling", "retrying"} => batches = <<poe_commands_for(TRUE)>>

\* What is left to be sent is a plan, and on an Aruba switch the VLANs come
\* first.  It is needed of the rest of the batches and not only of the first
\* list, since the switch changes between them.
Sending ==
  pc = "send" =>
    /\ sent /\ Plan(sw, Reached(sw), batches)
    /\ Brand = "Aruba" => VlansFirst(sw, running, batches)

\* A configuration that failed its tests is not the one that a one-off run
\* is about to save.
Validation ==
  /\ sw.validation = {} => rejected = {}
  /\ pc = "validate" => sw.validation # {}
  /\ pc = "save" /\ kind = "once" => running \notin rejected

\* The inductive invariant.
IInv == Devices /\ Phases /\ Sending /\ Validation

\* Commands of a plan leave such a switch behind.
LEMMA RunIsSound ==
  ASSUME NEW x, NEW P, NEW d, NEW s, SoundFor(x, d), Fit(x, P, s),
         vendor(x.cfg.model) = "Aruba" => \A i \in DOMAIN s : Uses(s[i]) \subseteq DOMAIN d.vlans
  PROVE  SoundFor(x, Run(d, s))
<1>1. Follows(x, P, d, Run(d, s))
  BY RunFollows DEF SoundFor
<1>2. vendor(x.cfg.model) = "Aruba" => KnowsItsVlans(Run(d, s))
  BY RunFollows DEF SoundFor
<1> QED
  BY <1>1, <1>2 DEF SoundFor, Follows

\* What a PoE operation sends.
LEMMA PoeCommandsFit ==
  ASSUME sw \in Scenarios, poe_op_guard, NEW on \in BOOLEAN
  PROVE  /\ poe_commands_for(on) = <<port_set(PoePort, "poe_enabled", on)>>
         /\ Fit(sw, {PoePort}, poe_commands_for(on))
         /\ \A i \in DOMAIN poe_commands_for(on) : Uses(poe_commands_for(on)[i]) = {}
<1>1. poe_commands_for(on) = <<port_set(PoePort, "poe_enabled", on)>>
  BY SameModels DEF poe_op_guard, poe_commands_for, Aruba!poe_enable_commands, Aruba!poe_disable_commands,
         FortiOS!poe_enable_commands, FortiOS!poe_disable_commands
<1>2. Fits(sw, {PoePort}, port_set(PoePort, "poe_enabled", on))
  BY FitsPortSet
<1>3. Fit(sw, {PoePort}, poe_commands_for(on))
  BY <1>1, <1>2, FitOne
<1>4. ASSUME NEW i \in DOMAIN poe_commands_for(on) PROVE Uses(poe_commands_for(on)[i]) = {}
  <2>1. poe_commands_for(on)[i] = port_set(PoePort, "poe_enabled", on)
    BY <1>1
  <2>2. port_set(PoePort, "poe_enabled", on).op = "port set"
    BY DEF port_set
  <2> QED
    BY <2>1, <2>2 DEF Uses
<1> QED
  BY <1>1, <1>3, <1>4

\* What it does.
LEMMA PoeRun ==
  ASSUME sw \in Scenarios, poe_op_guard, NEW on \in BOOLEAN, SoundFor(sw, running)
  PROVE  /\ SoundFor(sw, Run(running, poe_commands_for(on)))
         /\ Run(running, poe_commands_for(on)).port[PoePort].poe_enabled = on
<1>1. SoundFor(sw, Run(running, poe_commands_for(on)))
  BY PoeCommandsFit, RunIsSound
<1> DEFINE c == port_set(PoePort, "poe_enabled", on)
           s == poe_commands_for(on)
<1>2. s = <<c>> /\ Len(s) = 1 /\ s[1] = c /\ IsList(s)
  <2>1. s = <<c>> /\ Fit(sw, {PoePort}, s)
    BY PoeCommandsFit
  <2> HIDE DEF s, c
  <2> QED
    BY <2>1 DEF Fit
<1> HIDE DEF s, c
<1>3. Run(running, s) = Execute(running, c)
  <2>1. PICK run : /\ run[0] = running
                   /\ \A n \in 1..Len(s) : run[n] = Execute(run[n - 1], s[n])
                   /\ Run(running, s) = run[Len(s)]
    BY <1>2, RunUnfolds
  <2>2. run[1] = Execute(run[1 - 1], s[1])
    BY <1>2, <2>1
  <2> QED
    BY <1>2, <2>1, <2>2
<1> USE DEF s, c
<1>4. PoePort \in DOMAIN running.port /\ "poe_enabled" \in DOMAIN running.port[PoePort]
  BY ScenariosAreTyped DEF poe_op_guard, SoundFor, IsDevice
<1>5. Execute(running, c) = [running EXCEPT !.port[PoePort]["poe_enabled"] = on]
  BY DEF Execute, port_set
<1>6. "port" \in DOMAIN running
  BY DEF SoundFor, IsDevice
<1>7. Execute(running, c).port[PoePort].poe_enabled = on
  BY <1>4, <1>5, <1>6
<1> QED
  BY <1>1, <1>3, <1>7

\* The scenario does not change.
LEMMA SwitchStays ==
  ASSUME sw' = sw
  PROVE  /\ Brand' = Brand
         /\ poe_op_guard' <=> poe_op_guard
         /\ poe_commands_for(TRUE)' = poe_commands_for(TRUE)
         /\ poe_commands_for(FALSE)' = poe_commands_for(FALSE)
  BY DEF Brand, poe_op_guard, poe_commands_for

\* IInv holds of the switch as it was found.
LEMMA InvStarts == Init => IInv
<1> SUFFICES ASSUME Init PROVE IInv
  OBVIOUS
<1>1. Devices
  <2>1. sw \in Scenarios
    BY DEF Init
  <2>2. IsDevice(sw.dev) /\ (vendor(sw.cfg.model) = "Aruba" => KnowsItsVlans(sw.dev))
    BY <2>1, ScenariosAreTyped
  <2> QED
    BY <2>1, <2>2 DEF Init, Devices, SoundFor
<1> QED
  BY <1>1 DEF Init, IInv, Phases, Sending, Validation, ApplySteps, PoeSteps

\* IInv is kept by the diff, ...
LEMMA ParseKeeps ==
  ASSUME IInv, ParseAndDiff
  PROVE  IInv'
<1>1. /\ sw' = sw /\ running' = running /\ startup' = startup /\ rejected' = rejected
      /\ pc = "parse" /\ kind \in Applies
  BY DEF ParseAndDiff, IInv, Phases, ApplySteps
<1>2. Devices'
  BY <1>1 DEF IInv, Devices
<1>3. CASE Finish("refused")
  BY <1>1, <1>2, <1>3, SwitchStays DEF IInv, Finish, Phases, Sending, Validation, ApplySteps, PoeSteps
<1>4. CASE \E state \in ParsedStates(running) :
             /\ kind' = kind /\ outcome' = outcome
             /\ IF has_changes(Diff(state))
                THEN pc' = "send" /\ sent' = TRUE /\ batches' \in Answers(running, state, Diff(state))
                ELSE pc' = "results" /\ UNCHANGED <<sent, batches>>
  <2>1. PICK state \in ParsedStates(running) :
             /\ kind' = kind /\ outcome' = outcome
             /\ IF has_changes(Diff(state))
                THEN pc' = "send" /\ sent' = TRUE /\ batches' \in Answers(running, state, Diff(state))
                ELSE pc' = "results" /\ UNCHANGED <<sent, batches>>
    BY <1>4
  <2>2. kind # "poe_reset" /\ pc' \in {"send", "results"}
    BY <1>1, <2>1 DEF Applies
  <2>3. Phases'
    BY <1>1, <2>1, <2>2 DEF Phases, ApplySteps, PoeSteps
  <2>4. Validation'
    BY <1>1, <2>2 DEF IInv, Validation
  <2>5. Sending'
    <3>1. CASE pc' = "send"
      <4>1. sent' /\ batches' \in Answers(running, state, Diff(state))
        BY <2>1, <3>1
      <4>2. /\ sw \in Scenarios /\ IsDevice(running) /\ DOMAIN running.port = DOMAIN sw.dev.port
            /\ Brand = "Aruba" => KnowsItsVlans(running)
        BY DEF IInv, Devices, SoundFor, Brand
      <4>3. /\ Plan(sw, Reached(sw), batches')
            /\ Brand = "Aruba" => VlansFirst(sw, running, batches')
        BY <4>1, <4>2, AnswersArePlans
      <4> QED
        BY <1>1, <4>1, <4>3, SwitchStays DEF Sending
    <3> QED
      BY <3>1 DEF Sending
  <2> QED
    BY <1>2, <2>3, <2>4, <2>5 DEF IInv
<1> QED
  BY <1>3, <1>4 DEF ParseAndDiff

\* ... by a batch that is sent, ...
LEMMA SendKeeps ==
  ASSUME IInv, SendBatch
  PROVE  IInv'
<1>1. /\ sw' = sw /\ startup' = startup /\ rejected' = rejected /\ pc = "send" /\ batches # <<>>
      /\ kind \in Applies /\ sw \in Scenarios /\ SoundFor(sw, running) /\ SoundFor(sw, startup)
  BY DEF SendBatch, IInv, Phases, ApplySteps, Devices
<1>2. CASE Head(batches) = FortiOS!Fails
  <2>1. Finish("failed") /\ running' = running
    BY <1>2 DEF SendBatch
  <2> QED
    BY <1>1, <2>1 DEF IInv, Devices, Finish, Phases, Sending, Validation, ApplySteps, PoeSteps
<1>3. CASE Head(batches) # FortiOS!Fails
  <2>1. /\ running' = Run(running, Head(batches)) /\ batches' = Tail(batches)
        /\ kind' = kind /\ pc' = pc /\ sent' = sent /\ outcome' = outcome
    BY <1>3 DEF SendBatch
  <2>2. /\ sent /\ Plan(sw, Reached(sw), batches)
        /\ Brand = "Aruba" => VlansFirst(sw, running, batches)
    BY <1>1 DEF IInv, Sending
  <2>3. Plan(sw, Reached(sw), Tail(batches)) /\ Fit(sw, Reached(sw), Head(batches))
    <3>1. Plan(sw, Reached(sw), Tail(batches)) /\ Head(batches) = batches[1] /\ 1 \in DOMAIN batches
      BY <1>1, <2>2, PlanRest
    <3>2. Fit(sw, Reached(sw), Head(batches))
      BY <1>3, <2>2, <3>1 DEF Plan
    <3> QED
      BY <3>1, <3>2
  <2>4. Brand = "Aruba" =>
          /\ \A i \in DOMAIN Head(batches) : Uses(Head(batches)[i]) \subseteq DOMAIN running.vlans
          /\ VlansFirst(sw, Run(running, Head(batches)), Tail(batches))
    BY <1>1, <1>3, <2>2, VlansStayFirst DEF SoundFor, Brand
  <2>5. SoundFor(sw, Run(running, Head(batches)))
    BY <1>1, <2>3, <2>4, RunIsSound DEF Brand
  <2>6. Devices'
    BY <1>1, <2>1, <2>5 DEF Devices
  <2>7. Sending'
    BY <1>1, <2>1, <2>2, <2>3, <2>4, SwitchStays DEF Sending
  <2>8. Phases'
    BY <1>1, <2>1 DEF Phases, Applies, ApplySteps, PoeSteps
  <2>9. Validation'
    BY <1>1, <2>1 DEF IInv, Validation
  <2> QED
    BY <2>6, <2>7, <2>8, <2>9 DEF IInv
<1> QED
  BY <1>2, <1>3

\* ... by one that breaks half way, ...
LEMMA BreakKeeps ==
  ASSUME IInv, BatchBreaks
  PROVE  IInv'
<1>1. /\ sw' = sw /\ startup' = startup /\ rejected' = rejected /\ pc = "send" /\ batches # <<>>
      /\ sw \in Scenarios /\ SoundFor(sw, running) /\ SoundFor(sw, startup) /\ Finish("failed")
  BY DEF BatchBreaks, IInv, Devices
<1>2. PICK n \in 0..Len(Head(batches)) :
        running' = IF Head(batches) = FortiOS!Fails THEN running
                   ELSE Run(running, SubSeq(Head(batches), 1, n))
  BY DEF BatchBreaks
<1>3. SoundFor(sw, running')
  <2>1. CASE Head(batches) = FortiOS!Fails
    BY <1>1, <1>2, <2>1
  <2>2. CASE Head(batches) # FortiOS!Fails
    <3> DEFINE b == Head(batches)
               part == SubSeq(b, 1, n)
    <3>1. /\ Plan(sw, Reached(sw), batches)
          /\ Brand = "Aruba" => VlansFirst(sw, running, batches)
      BY <1>1 DEF IInv, Sending
    <3>2. Fit(sw, Reached(sw), b)
      BY <1>1, <2>2, <3>1, PlanRest DEF Plan
    <3>3. Brand = "Aruba" => \A i \in DOMAIN b : Uses(b[i]) \subseteq DOMAIN running.vlans
      BY <1>1, <2>2, <3>1, VlansStayFirst DEF SoundFor, Brand
    <3>4. running' = Run(running, part)
      BY <1>2, <2>2
    <3> HIDE DEF b
    <3>5. Fit(sw, Reached(sw), part)
      BY <1>2, <3>2, FitPart DEF b
    <3>6. \A i \in DOMAIN part : i \in DOMAIN b /\ part[i] = b[i]
      BY <1>2, <3>2 DEF Fit, IsList, b
    <3> HIDE DEF part
    <3>7. Brand = "Aruba" => \A i \in DOMAIN part : Uses(part[i]) \subseteq DOMAIN running.vlans
      BY <3>3, <3>6
    <3> QED
      BY <1>1, <3>4, <3>5, <3>7, RunIsSound DEF Brand
  <2> QED
    BY <2>1, <2>2
<1> QED
  BY <1>1, <1>3 DEF IInv, Devices, Finish, Phases, Sending, Validation, ApplySteps, PoeSteps

\* ... by the steps that leave the switch alone, ...
LEMMA OthersKeep ==
  ASSUME IInv, Connect \/ ReadFails \/ Verify \/ VerifyFails \/ Results \/ RunTest \/ ValidationBreaks
  PROVE  IInv'
<1>1. sw' = sw /\ running' = running /\ startup' = startup /\ rejected' = rejected
  BY DEF Connect, ReadFails, Verify, VerifyFails, Results, RunTest, ValidationBreaks
<1>2. Devices'
  BY <1>1 DEF IInv, Devices
<1>3. CASE Connect
  <2>1. poe_commands_for(kind = "poe_on") \in {poe_commands_for(TRUE), poe_commands_for(FALSE)}
    <3>1. CASE kind = "poe_on"
      BY <3>1
    <3>2. CASE kind # "poe_on"
      <4>1. (kind = "poe_on") = FALSE
        BY <3>2
      <4> QED
        BY <4>1
    <3> QED
      BY <3>1, <3>2
  <2>2. Phases'
    BY <1>1, <1>3, <2>1, SwitchStays DEF IInv, Connect, Phases, Applies, ApplySteps, PoeSteps
  <2>3. Sending' /\ Validation'
    BY <1>1, <1>3 DEF IInv, Connect, Sending, Validation
  <2> QED
    BY <1>2, <2>2, <2>3 DEF IInv
<1>4. CASE Finish("failed") \/ Finish("ok")
  BY <1>1, <1>2, <1>4 DEF IInv, Finish, Phases, Sending, Validation, ApplySteps, PoeSteps
<1>5. CASE Verify \/ VerifyFails
  <2>1. pc = "send" /\ pc' = "results" /\ kind' = kind /\ outcome' = outcome
    BY <1>5 DEF Verify, VerifyFails
  <2>2. Phases' /\ Sending' /\ Validation'
    BY <1>1, <2>1 DEF IInv, Phases, Applies, ApplySteps, PoeSteps, Sending, Validation
  <2> QED
    BY <1>2, <2>2 DEF IInv
<1>6. CASE Results
  <2>1. pc = "results" /\ kind \in Applies
    BY <1>6 DEF Results, IInv, Phases, ApplySteps
  <2>2. CASE ~ (kind = "once" /\ ~ sent)
    <3>1. /\ kind' = kind /\ outcome' = outcome
          /\ \/ pc' = "validate" /\ sw.validation # {}
             \/ pc' = "save" /\ (kind # "once" \/ sw.validation = {})
      <4>1. CASE kind = "once" /\ sent /\ sw.validation # {}
        BY <1>6, <4>1 DEF Results
      <4>2. CASE ~ (kind = "once" /\ sent /\ sw.validation # {})
        BY <1>6, <2>2, <4>2 DEF Results
      <4> QED
        BY <2>2, <4>1, <4>2
    <3>2. Phases' /\ Sending'
      BY <1>1, <2>1, <3>1 DEF IInv, Phases, Applies, ApplySteps, PoeSteps, Sending
    <3>3. Validation'
      BY <1>1, <2>1, <3>1 DEF IInv, Validation, Applies
    <3> QED
      BY <1>2, <3>2, <3>3 DEF IInv
  <2> QED
    BY <1>4, <1>6, <2>2 DEF Results
<1>7. CASE RunTest
  <2>1. pc = "validate" /\ pc' = pc /\ kind' = kind /\ outcome' = outcome /\ sent' = sent
    BY <1>7 DEF RunTest
  <2>2. Phases' /\ Sending' /\ Validation'
    BY <1>1, <2>1 DEF IInv, Phases, Applies, ApplySteps, PoeSteps, Sending, Validation
  <2> QED
    BY <1>2, <2>2 DEF IInv
<1> QED
  BY <1>3, <1>4, <1>5, <1>6, <1>7 DEF ReadFails, ValidationBreaks

\* ... by an operation that starts, ...
LEMMA StartKeeps ==
  ASSUME IInv, NEW k \in Kinds, Start(k)
  PROVE  IInv'
<1>1. /\ sw' = sw /\ running' = running /\ startup' = startup /\ rejected' = rejected
      /\ pc' = "connect" /\ kind' = k /\ outcome' = "none" /\ (k \notin Applies => poe_op_guard)
  BY DEF Start
<1>2. Devices'
  BY <1>1 DEF IInv, Devices
<1>3. Phases' /\ Sending' /\ Validation'
  BY <1>1, SwitchStays DEF IInv, Phases, Applies, ApplySteps, PoeSteps, Sending, Validation
<1> QED
  BY <1>2, <1>3 DEF IInv

\* Where the tests lead: to the save only when they passed or when a failure
\* is to be saved anyway.
LEMMA ValidatedGoes ==
  ASSUME IInv, Validated
  PROVE  \/ Finish("failed")
         \/ pc' = "rollback" /\ kind' = kind /\ outcome' = outcome
         \/ /\ pc' = "save" /\ kind' = kind /\ outcome' = outcome
            /\ passed \/ the(sw.validation).on_failure = "save_anyway"
<1>1. the(sw.validation).on_failure \in {"rollback", "manual", "save_anyway"}
  <2>1. sw \in Scenarios /\ sw.validation # {}
    BY DEF IInv, Devices, Validation, Validated
  <2>2. the(sw.validation) \in sw.validation
    BY <2>1 DEF the
  <2> QED
    BY <2>1, <2>2, ScenariosAreTyped
<1> QED
  BY <1>1 DEF Validated

\* ... by the save, the rollback and the loss of power, ...
LEMMA EndsKeep ==
  ASSUME IInv, \/ rollback_configuration \/ RollbackFails \/ save_configuration \/ SaveFails
               \/ Validated \/ PowerLoss
  PROVE  IInv'
<1>1. CASE rollback_configuration \/ RollbackFails \/ save_configuration \/ SaveFails
  <2>1. /\ sw' = sw /\ running' \in {running, startup} /\ startup' \in {running, startup}
        /\ rejected' = rejected /\ (Finish("failed") \/ Finish("ok"))
    BY <1>1 DEF rollback_configuration, RollbackFails, save_configuration, SaveFails
  <2>2. Devices'
    BY <2>1 DEF IInv, Devices
  <2>3. Phases' /\ Sending' /\ Validation'
    BY <2>1 DEF IInv, Finish, Phases, Sending, Validation, ApplySteps, PoeSteps
  <2> QED
    BY <2>2, <2>3 DEF IInv
<1>2. CASE Validated
  <2>1. sw' = sw /\ running' = running /\ startup' = startup /\ sw.validation # {} /\ kind \in Applies
    BY <1>2 DEF Validated, IInv, Phases, Validation, ApplySteps
  <2>2. Devices'
    BY <2>1 DEF IInv, Devices
  <2> DEFINE failed == ~ passed /\ the(sw.validation).on_failure # "save_anyway"
  <2>3. rejected' = IF failed THEN rejected \cup {running} ELSE rejected \ {running}
    BY <1>2 DEF Validated
  <2>4. \/ Finish("failed")
        \/ pc' = "rollback" /\ kind' = kind /\ outcome' = outcome
        \/ pc' = "save" /\ kind' = kind /\ outcome' = outcome /\ ~ failed
    BY <1>2, ValidatedGoes
  <2> HIDE DEF failed
  <2>5. Phases' /\ Sending'
    BY <2>1, <2>4 DEF IInv, Finish, Phases, Sending, Applies, ApplySteps, PoeSteps
  <2>6. Validation'
    BY <2>1, <2>3, <2>4 DEF Finish, Validation
  <2> QED
    BY <2>2, <2>5, <2>6 DEF IInv
<1>3. CASE PowerLoss
  <2>1. /\ sw' = sw /\ running' = startup /\ startup' = startup /\ rejected' = rejected
        /\ pc = "idle" /\ pc' = pc /\ kind' = kind /\ outcome' = outcome
    BY <1>3 DEF PowerLoss
  <2>2. Devices'
    BY <2>1 DEF IInv, Devices
  <2>3. Phases' /\ Sending' /\ Validation'
    BY <2>1 DEF IInv, Phases, Applies, ApplySteps, PoeSteps, Sending, Validation
  <2> QED
    BY <2>2, <2>3 DEF IInv
<1> QED
  BY <1>1, <1>2, <1>3

\* ... and by the PoE operations.
LEMMA PoeKeeps ==
  ASSUME IInv, PoeStep \/ PoeStepFails
  PROVE  IInv'
<1>1. /\ sw' = sw /\ startup' = startup /\ rejected' = rejected /\ pc \in PoeSteps /\ poe_op_guard
      /\ sw \in Scenarios /\ SoundFor(sw, running) /\ SoundFor(sw, startup)
      /\ running' \in {running, Run(running, Head(batches))}
  BY DEF PoeStep, PoeStepFails, IInv, Devices, Phases, PoeSteps
<1>2. SoundFor(sw, Run(running, Head(batches)))
  <2>1. Head(batches) = poe_commands_for(TRUE) \/ Head(batches) = poe_commands_for(FALSE)
    <3>1. PICK c : batches = <<c>> /\ (c = poe_commands_for(TRUE) \/ c = poe_commands_for(FALSE))
      BY <1>1 DEF IInv, Phases
    <3>2. Head(batches) = c
      BY <3>1
    <3> QED
      BY <3>1, <3>2
  <2> QED
    BY <1>1, <2>1, PoeRun
<1>3. Devices'
  BY <1>1, <1>2 DEF Devices
<1>4. CASE Finish("ok") \/ Finish("failed")
  BY <1>1, <1>3, <1>4 DEF IInv, Finish, Phases, Sending, Validation, ApplySteps, PoeSteps
<1>5. CASE /\ pc' \in {"enabling", "retrying"} /\ kind' = kind /\ outcome' = outcome
           /\ batches' = <<poe_commands_for(TRUE)>>
  <2>1. Phases'
    BY <1>1, <1>5, SwitchStays DEF IInv, Phases, ApplySteps, PoeSteps
  <2>2. Sending' /\ Validation'
    BY <1>1, <1>5 DEF IInv, Sending, Validation
  <2> QED
    BY <1>3, <2>1, <2>2 DEF IInv
<1>6. CASE pc = "enabling" /\ pc' = "retrying" /\ kind' = kind /\ outcome' = outcome /\ batches' = batches
  <2>1. Phases'
    BY <1>1, <1>6, SwitchStays DEF IInv, Phases, ApplySteps, PoeSteps
  <2>2. Sending' /\ Validation'
    BY <1>1, <1>6 DEF IInv, Sending, Validation
  <2> QED
    BY <1>3, <2>1, <2>2 DEF IInv
<1> QED
  BY <1>4, <1>5, <1>6 DEF PoeStep, PoeStepFails

\* Every step keeps IInv.
LEMMA InvStays == IInv /\ [Next]_vars => IInv'
<1> SUFFICES ASSUME IInv, [Next]_vars PROVE IInv'
  OBVIOUS
<1>1. CASE UNCHANGED vars
  BY <1>1, SwitchStays DEF vars, IInv, Devices, Phases, Sending, Validation
<1>2. CASE \E k \in Kinds : Start(k)
  BY <1>2, StartKeeps
<1>3. CASE Step
  BY <1>3, ParseKeeps, SendKeeps, OthersKeep, EndsKeep, PoeKeeps DEF Step
<1>4. CASE Failure
  BY <1>4, BreakKeeps, OthersKeep, EndsKeep, PoeKeeps DEF Failure
<1> QED
  BY <1>1, <1>2, <1>3, <1>4 DEF Next

(***************************************************************************)
(* IInv holds in every state: of every switch and configuration, whatever  *)
(* breaks and however often (apply_configuration, poe_set_impl,            *)
(* poe_reset_impl, rollback_configuration and save_configuration).         *)
(***************************************************************************)
THEOREM Invariance == Spec => []IInv
<1> QED
  BY InvStarts, InvStays, PTL DEF Spec

(***************************************************************************)
(* The theorems.                                                           *)
(***************************************************************************)

\* What is sent of a batch touches the ports that may be touched.
LEMMA BatchesFollow ==
  ASSUME IInv, SendBatch \/ BatchBreaks
  PROVE  Follows(sw, Reached(sw), running, running')
<1>1. /\ pc = "send" /\ batches # <<>> /\ IsDevice(running) /\ Plan(sw, Reached(sw), batches)
  BY DEF SendBatch, BatchBreaks, IInv, Devices, SoundFor, Sending
<1> DEFINE b == Head(batches)
<1>2. CASE b # FortiOS!Fails
  <2>1. Fit(sw, Reached(sw), b)
    <3>1. b = batches[1] /\ 1 \in DOMAIN batches
      BY <1>1, PlanRest
    <3> QED
      BY <1>1, <1>2, <3>1 DEF Plan
  <2>2. \/ running' = Run(running, b)
        \/ \E n \in 0..Len(b) : running' = Run(running, SubSeq(b, 1, n))
    BY <1>2 DEF SendBatch, BatchBreaks
  <2> HIDE DEF b
  <2>3. CASE running' = Run(running, b)
    BY <1>1, <2>1, <2>3, RunFollows
  <2>4. CASE \E n \in 0..Len(b) : running' = Run(running, SubSeq(b, 1, n))
    <3>1. PICK n \in 0..Len(b) : running' = Run(running, SubSeq(b, 1, n))
      BY <2>4
    <3>2. Fit(sw, Reached(sw), SubSeq(b, 1, n))
      BY <2>1, FitPart
    <3> QED
      BY <1>1, <3>1, <3>2, RunFollows
  <2> QED
    BY <2>2, <2>3, <2>4
<1>3. CASE b = FortiOS!Fails
  <2>1. running' = running
    BY <1>3 DEF SendBatch, BatchBreaks
  <2> QED
    BY <1>1, <2>1, FollowsItself
<1> QED
  BY <1>2, <1>3

(***************************************************************************)
(* On an Aruba switch no port is ever in a VLAN that does not exist, in the *)
(* middle of an apply, after one that broke and after a loss of power:     *)
(* apply_diff migrates ports before a VLAN goes and adds VLANs before it   *)
(* configures ports.                                                       *)
(***************************************************************************)
THEOREM PortsAlwaysInKnownVlans == Spec => []PortsStayInKnownVlans
<1>1. IInv => PortsStayInKnownVlans
  BY DEF IInv, Devices, SoundFor, Brand, KnowsItsVlans, PortsStayInKnownVlans
<1> QED
  BY <1>1, Invariance, PTL

(***************************************************************************)
(* Without enforce_port_config no apply changes a port that the            *)
(* configuration does not name and that is in no VLAN that goes, whatever  *)
(* the vendor's apply_diff sends and wherever it breaks.                   *)
(***************************************************************************)
THEOREM UnmanagedPortsAreAlwaysKept == Spec => UnmanagedPortsAreKept
<1> DEFINE Keeps ==
      pc = "send" /\ kind \in Applies /\ ~ sw.enforce =>
        \A p \in DOMAIN running.port :
          Unmanaged(p) => /\ running'.port[p] = running.port[p]
                          /\ running'.untagged[p] = running.untagged[p]
                          /\ running'.tagged[p] = running.tagged[p]
<1>1. IInv /\ [Next]_vars => [Keeps]_vars
  <2> SUFFICES ASSUME IInv, Next, pc = "send", ~ sw.enforce, NEW p \in DOMAIN running.port, Unmanaged(p)
               PROVE  /\ running'.port[p] = running.port[p]
                      /\ running'.untagged[p] = running.untagged[p]
                      /\ running'.tagged[p] = running.tagged[p]
    OBVIOUS
  <2>1. CASE SendBatch \/ BatchBreaks
    <3>1. p \notin Reached(sw) /\ {running.untagged[p]} \cup running.tagged[p] \subseteq Kept(sw)
      BY DEF Unmanaged, Reached, Managed, Kept
    <3> QED
      BY <2>1, <3>1, BatchesFollow DEF Follows
  <2>2. CASE ~ (SendBatch \/ BatchBreaks)
    <3>1. running' = running
      BY <2>2 DEF Next, Step, Failure, Start, Connect, ReadFails, ParseAndDiff, Verify, VerifyFails, Results,
             RunTest, Validated, ValidationBreaks, rollback_configuration, RollbackFails, save_configuration,
             SaveFails, PoeStep, PoeStepFails, PowerLoss
    <3> QED
      BY <3>1
  <2> QED
    BY <2>1, <2>2
<1> HIDE DEF Keeps
<1>2. Spec => [][Keeps]_vars
  BY <1>1, Invariance, PTL DEF Spec
<1> QED
  BY <1>2 DEF UnmanagedPortsAreKept, Keeps

(***************************************************************************)
(* configure_switch_once saves no configuration that failed its validation *)
(* tests, in this run or in an earlier one.                                *)
(***************************************************************************)
THEOREM FailedValidationIsNeverSaved == Spec => FailedValidationIsNotSaved
<1> DEFINE Keeps == kind = "once" /\ startup' # startup => startup' \notin rejected
<1>1. IInv /\ [Next]_vars => [Keeps]_vars
  <2> SUFFICES ASSUME IInv, Next, kind = "once", startup' # startup
               PROVE  startup' \notin rejected
    OBVIOUS
  <2>1. save_configuration
    BY DEF Next, Step, Failure, Start, Connect, ReadFails, ParseAndDiff, SendBatch, BatchBreaks, Verify,
           VerifyFails, Results, RunTest, Validated, ValidationBreaks, rollback_configuration,
           RollbackFails, SaveFails, PoeStep, PoeStepFails, PowerLoss
  <2> QED
    BY <2>1 DEF save_configuration, IInv, Validation
<1> HIDE DEF Keeps
<1>2. Spec => [][Keeps]_vars
  BY <1>1, Invariance, PTL DEF Spec
<1> QED
  BY <1>2 DEF FailedValidationIsNotSaved, Keeps

(***************************************************************************)
(* poe_reset_impl reports success only when the port has power again, with *)
(* its second try to enable and whatever the first one did.                *)
(***************************************************************************)
THEOREM DonePortAlwaysHasPower == Spec => DonePortHasPower
<1> DEFINE Has == kind = "poe_reset" /\ outcome' = "ok" => running'.port[PoePort].poe_enabled
<1>1. IInv /\ [Next]_vars => [Has]_vars
  <2> SUFFICES ASSUME IInv, Next, kind = "poe_reset", outcome' = "ok"
               PROVE  running'.port[PoePort].poe_enabled
    OBVIOUS
  <2>1. /\ outcome = "none" /\ pc \in {"connect", "disabling", "enabling", "retrying"}
        /\ pc \in {"enabling", "retrying"} => batches = <<poe_commands_for(TRUE)>> /\ poe_op_guard
        /\ sw \in Scenarios /\ SoundFor(sw, running)
    BY DEF IInv, Phases, PoeSteps, Devices
  <2>2. PoeStep /\ pc \in {"enabling", "retrying"}
    <3>1. ~ (ReadFails \/ PoeStepFails)
      BY <2>1 DEF ReadFails, PoeStepFails, Finish
    <3>2. PoeStep
      BY <2>1, <3>1 DEF Next, Step, Failure, Start, Connect, ParseAndDiff, SendBatch, BatchBreaks, Verify,
             VerifyFails, Results, RunTest, Validated, ValidationBreaks, rollback_configuration,
             RollbackFails, save_configuration, SaveFails, PowerLoss
    <3> QED
      BY <2>1, <3>2 DEF PoeStep
  <2>3. running' = Run(running, poe_commands_for(TRUE))
    <3>1. PICK c : c = poe_commands_for(TRUE)
      OBVIOUS
    <3>2. batches = <<c>>
      BY <2>1, <2>2, <3>1
    <3>3. Head(batches) = c
      BY <3>2
    <3> QED
      BY <2>2, <3>1, <3>3 DEF PoeStep
  <2>4. Run(running, poe_commands_for(TRUE)).port[PoePort].poe_enabled = TRUE
    BY <2>1, <2>2, PoeRun
  <2>5. running'.port[PoePort].poe_enabled = TRUE
    BY <2>3, <2>4
  <2> QED
    BY <2>5
<1> HIDE DEF Has
<1>2. Spec => [][Has]_vars
  BY <1>1, Invariance, PTL DEF Spec
<1> QED
  BY <1>2 DEF DonePortHasPower, Has

\* A diff without changes asks for nothing.
LEMMA NothingChanges ==
  ASSUME NEW x, NEW state, ~ has_changes(compute_diff(state, x.cfg, x.enforce))
  PROVE  /\ vlans_to_add(state, x.cfg) = {} /\ vlans_to_remove(state, x.cfg) = {}
         /\ vlans_to_update(state, x.cfg) = {} /\ ports_to_configure(state, x.cfg) = {}
         /\ \A s \in diff_snmp(state, x.cfg) : s.communities_to_add = {} /\ s.communities_to_remove = {}
<1> DEFINE d == compute_diff(state, x.cfg, x.enforce)
           Lists == {"vlans_to_add", "vlans_to_remove", "vlans_to_update", "ports_to_configure"}
<1>1. /\ d.vlans_to_add = vlans_to_add(state, x.cfg) /\ d.vlans_to_remove = vlans_to_remove(state, x.cfg)
      /\ d.vlans_to_update = vlans_to_update(state, x.cfg)
      /\ d.ports_to_configure = ports_to_configure(state, x.cfg)
      /\ d.snmp_diff = diff_snmp(state, x.cfg)
      /\ Lists \subseteq DOMAIN d \ {"snmp_diff", "management_vlan_changed", "management_vlan"}
  BY DEF compute_diff
<1> HIDE DEF d
<1>2. \A f \in Lists : d[f] = {}
  BY <1>1 DEF has_changes, d
<1>3. \A s \in d.snmp_diff : ~ snmp_has_changes(s)
  BY DEF has_changes, d
<1>4. ASSUME NEW s \in diff_snmp(state, x.cfg)
      PROVE  s.communities_to_add = {} /\ s.communities_to_remove = {}
  <2>1. {"communities_to_add", "communities_to_remove"} \subseteq DOMAIN s
    BY DEF diff_snmp, compute_snmp_diff
  <2>2. ~ snmp_has_changes(s)
    BY <1>1, <1>3
  <2> QED
    BY <2>1, <2>2 DEF snmp_has_changes
<1> QED
  BY <1>1, <1>2, <1>4

\* Then the VLANs that the parser found are those that are wanted, ...
LEMMA SameVlans ==
  ASSUME NEW x, NEW state, ~ has_changes(compute_diff(state, x.cfg, x.enforce))
  PROVE  /\ DOMAIN state.vlans \ {1} = DOMAIN x.cfg.vlans \ {1}
         /\ \A v \in DOMAIN x.cfg.vlans : /\ v \in DOMAIN state.vlans
                                          /\ state.vlans[v].name = x.cfg.vlans[v].name
                                          /\ state.vlans[v].ip_config = x.cfg.vlans[v].ip_config
<1>1. DOMAIN x.cfg.vlans \subseteq DOMAIN state.vlans /\ DOMAIN state.vlans \ {1} \subseteq DOMAIN x.cfg.vlans
  BY NothingChanges DEF vlans_to_add, vlans_to_remove
<1>2. ASSUME NEW v \in DOMAIN x.cfg.vlans
      PROVE  state.vlans[v].name = x.cfg.vlans[v].name /\ state.vlans[v].ip_config = x.cfg.vlans[v].ip_config
  <2>1. vlans_to_update(state, x.cfg) = {}
    BY NothingChanges
  <2> QED
    BY <1>1, <2>1 DEF vlans_to_update, vlans_equivalent_for_model
<1> QED
  BY <1>1, <1>2

\* ... the ports are equivalent to them, ...
LEMMA SamePorts ==
  ASSUME NEW x, NEW state, ~ has_changes(compute_diff(state, x.cfg, x.enforce)), NEW p \in DOMAIN x.cfg.ports
  PROVE  /\ p \in DOMAIN state.ports
         /\ ports_equivalent_for_model(state.ports[p], x.cfg.ports[p], supports_poe(x.cfg.model))
<1>1. ports_to_configure(state, x.cfg) = {}
  BY NothingChanges
<1> QED
  BY <1>1 DEF ports_to_configure

\* The communities that are wanted, with the service's own.
WantedCommunities(x) == UNION {DOMAIN s.communities : s \in effective_snmp(x.cfg.snmp)}

\* ... and the communities C that it found are those that are wanted.
LEMMA SameCommunities ==
  ASSUME NEW x \in Scenarios, NEW state, ~ has_changes(compute_diff(state, x.cfg, x.enforce)),
         NEW C, \A s \in state.snmp : DOMAIN s.communities = C, state.snmp = {} => C = {}
  PROVE  C = WantedCommunities(x)
<1> DEFINE wanted == effective_snmp(x.cfg.snmp)
           or_empty(o) == IF o = {} THEN EmptySnmp ELSE CHOOSE y \in o : TRUE
           a == or_empty(state.snmp)
           b == or_empty(wanted)
<1>1. AtMostOne(wanted)
  BY EffectiveIsFinite
<1>2. \A s \in diff_snmp(state, x.cfg) : s.communities_to_add = {} /\ s.communities_to_remove = {}
  BY NothingChanges
<1>3. diff_snmp(state, x.cfg) = IF state.snmp = {} /\ wanted = {} THEN {} ELSE {compute_snmp_diff(a, b)}
  BY DEF diff_snmp
<1>4. DOMAIN EmptySnmp.communities = {}
  BY DEF EmptySnmp
<1> HIDE DEF wanted
<1>5. DOMAIN a.communities = C
  BY <1>4
<1>6. DOMAIN b.communities = UNION {DOMAIN s.communities : s \in wanted}
  <2>1. CASE wanted = {}
    BY <1>4, <2>1
  <2>2. CASE wanted # {}
    <3>1. b \in wanted
      BY <2>2
    <3> HIDE DEF b
    <3>2. \A s \in wanted : s = b
      BY <1>1, <3>1 DEF AtMostOne
    <3> QED
      BY <3>1, <3>2
  <2> QED
    BY <2>1, <2>2
<1> HIDE DEF a, b
<1>7. CASE state.snmp = {} /\ wanted = {}
  BY <1>7 DEF wanted, WantedCommunities
<1>8. CASE ~ (state.snmp = {} /\ wanted = {})
  <2>1. /\ compute_snmp_diff(a, b).communities_to_add = {}
        /\ compute_snmp_diff(a, b).communities_to_remove = {}
    BY <1>2, <1>3, <1>8
  <2>2. DOMAIN a.communities = DOMAIN b.communities
    BY <2>1 DEF compute_snmp_diff
  <2> QED
    BY <1>5, <1>6, <2>2 DEF wanted, WantedCommunities
<1> QED
  BY <1>7, <1>8

\* The VLANs a port is tagged in, as the diff compares them.
LEMMA SameMembers ==
  ASSUME NEW a, NEW b, IsList(a.tagged_vlans), IsList(b.tagged_vlans), a.vlan = b.vlan,
         tagged_without_native(a) = tagged_without_native(b)
  PROVE  ToSet(a.tagged_vlans) \ {a.vlan} = ToSet(b.tagged_vlans) \ {b.vlan}
<1>1. ToSet(tagged_without_native(a)) = ToSet(a.tagged_vlans) \ {a.vlan}
  BY DroppingKeeps DEF tagged_without_native
<1>2. ToSet(tagged_without_native(b)) = ToSet(b.tagged_vlans) \ {b.vlan}
  BY DroppingKeeps DEF tagged_without_native
<1> QED
  BY <1>1, <1>2

\* The values of a wanted port.
LEMMA ListOfVlans ==
  ASSUME NEW x \in Scenarios, NEW p \in DOMAIN x.cfg.ports
  PROVE  /\ IsList(x.cfg.ports[p].tagged_vlans)
         /\ x.cfg.ports[p].poe_enabled \in BOOLEAN /\ x.cfg.ports[p].mac_notify \in BOOLEAN
<1>1. x.cfg.ports[p] \in Port(Kept(x), STRING)
  BY ConfigTyped
<1> DEFINE q == x.cfg.ports[p]
<1> HIDE DEF q
<1>2. q \in Port(Kept(x), STRING) => /\ q.tagged_vlans \in Seq(Kept(x))
                                     /\ q.poe_enabled \in BOOLEAN /\ q.mac_notify \in BOOLEAN
  BY DEF Port
<1>3. \A s \in Seq(Kept(x)) : IsList(s)
  BY DEF IsList
<1> QED
  BY <1>1, <1>2, <1>3 DEF q

\* The empty list has no members.
LEMMA NoMembers == IsList(<<>>) /\ ToSet(<<>>) = {}
<1>1. DOMAIN <<>> = {} /\ 1..0 = {}
  OBVIOUS
<1>2. IsList(<<>>)
  BY FitNone DEF Fit
<1> QED
  BY <1>1, <1>2 DEF ToSet

\* The parser has read the port as it is.
ReadRight(x, dev, p, q) ==
  /\ q.vlan = dev.untagged[p] /\ IsList(q.tagged_vlans)
  /\ ToSet(q.tagged_vlans) \ {q.vlan} = dev.tagged[p] \ {q.vlan}
  /\ q.description = dev.port[p].description /\ q.enabled = dev.port[p].enabled
  /\ supports_poe(x.cfg.model) => q.poe_enabled = dev.port[p].poe_enabled
  /\ vendor(x.cfg.model) = "Aruba" => q.mac_notify = (dev.port[p].mac_traps # {})

\* Aruba: a trunk's list has its native VLAN and is sorted.
LEMMA ArubaPortRead ==
  ASSUME NEW x \in Scenarios, NEW dev, NEW order, IsDevice(dev), NEW p \in DOMAIN dev.port
  PROVE  ReadRight(x, dev, p, Aruba!parse_current_state(x.cfg, dev, order).ports[p])
<1> DEFINE q == Aruba!parse_current_state(x.cfg, dev, order).ports[p]
           S == dev.tagged[p] \cup {dev.untagged[p]}
<1>1. IsFiniteSet(dev.tagged[p]) /\ dev.tagged[p] \subseteq VlanId /\ dev.untagged[p] \in VlanId
      /\ dev.port[p].poe_enabled \in BOOLEAN
  BY DEF IsDevice
<1>2. /\ q.vlan = dev.untagged[p]
      /\ q.tagged_vlans = IF dev.tagged[p] = {} THEN <<>> ELSE Sorted(S)
      /\ q.description = dev.port[p].description /\ q.enabled = dev.port[p].enabled
      /\ q.mac_notify = (dev.port[p].mac_traps # {})
  BY <1>1, SameSorted DEF Aruba!parse_current_state, Aruba!parse_interface_name, Aruba!PortVlanInfo, VlanId
<1>3. supports_poe(x.cfg.model) => q.poe_enabled = dev.port[p].poe_enabled
  <2>1. q.poe_enabled = (Aruba!supports_poe(x.cfg.model) /\ dev.port[p].poe_enabled)
    BY DEF Aruba!parse_current_state, Aruba!parse_interface_name
  <2>2. Aruba!supports_poe(x.cfg.model) <=> supports_poe(x.cfg.model)
    BY DEF Aruba!supports_poe, supports_poe, Aruba!Cisco, Cisco, Aruba!Forti, Forti
  <2> HIDE DEF q
  <2> QED
    BY <1>1, <2>1, <2>2
<1>4. IsFiniteSet(S) /\ S \subseteq Nat
  BY <1>1, FS_AddElement DEF VlanId
<1> HIDE DEF S, q
<1>5. IsList(q.tagged_vlans) /\ ToSet(q.tagged_vlans) = IF dev.tagged[p] = {} THEN {} ELSE S
  <2>1. CASE dev.tagged[p] = {}
    BY <1>2, <2>1, NoMembers
  <2>2. CASE dev.tagged[p] # {}
    BY <1>2, <1>4, <2>2, SortedHasAll
  <2> QED
    BY <2>1, <2>2
<1>6. ToSet(q.tagged_vlans) \ {q.vlan} = dev.tagged[p] \ {q.vlan}
  BY <1>2, <1>5 DEF S
<1>7. ReadRight(x, dev, p, q)
  BY <1>2, <1>3, <1>5, <1>6 DEF ReadRight
<1> QED
  BY <1>7 DEF q

\* FortiOS: a setting that is not printed is the factory's.
LEMMA FortiPortRead ==
  ASSUME NEW x \in Scenarios, NEW dev, IsDevice(dev), NEW p \in DOMAIN dev.port,
         vendor(x.cfg.model) = "Fortiswitch"
  PROVE  ReadRight(x, dev, p, FortiOS!parse_current_state(x.cfg, dev).ports[p])
<1> DEFINE q == FortiOS!parse_current_state(x.cfg, dev).ports[p]
           l == Sorted(dev.tagged[p])
<1>1. IsFiniteSet(dev.tagged[p]) /\ dev.tagged[p] \subseteq Nat
  BY DEF IsDevice, VlanId
<1>2. /\ q.vlan = dev.untagged[p]
      /\ q.tagged_vlans = Dropping(l, {dev.untagged[p]})
      /\ q.description = dev.port[p].description
  BY SameSorted, SameModels
     DEF FortiOS!parse_current_state, FortiOS!build_ports, FortiOS!parse_switch_interface_ports
<1>3. IsList(l) /\ ToSet(l) = dev.tagged[p]
  BY <1>1, SortedHasAll
<1>4. \A a, b : a = IF {a} \ {b} = {} THEN b ELSE FortiOS!the({a} \ {b})
  <2> SUFFICES ASSUME NEW a, NEW b PROVE a = IF {a} \ {b} = {} THEN b ELSE FortiOS!the({a} \ {b})
    OBVIOUS
  <2>1. CASE a = b
    <3>1. {a} \ {b} = {}
      BY <2>1
    <3> QED
      BY <2>1, <3>1
  <2>2. CASE a # b
    <3>1. {a} \ {b} = {a}
      BY <2>2
    <3> QED
      BY <3>1 DEF FortiOS!the
  <2> QED
    BY <2>1, <2>2
<1>5. q.enabled = dev.port[p].enabled
  <2>1. q.enabled = IF {dev.port[p].enabled} \ {TRUE} = {} THEN TRUE
                    ELSE FortiOS!the({dev.port[p].enabled} \ {TRUE})
    BY DEF FortiOS!parse_current_state, FortiOS!build_ports, FortiOS!parse_physical_ports, FortiOS!FactoryPort
  <2> HIDE DEF q
  <2> QED
    BY <1>4, <2>1
<1>6. q.poe_enabled = dev.port[p].poe_enabled
  <2> DEFINE usual == FortiOS!port_supports_poe(x.cfg.model, p)
  <2>1. q.poe_enabled = IF {dev.port[p].poe_enabled} \ {usual} = {} THEN usual
                        ELSE FortiOS!the({dev.port[p].poe_enabled} \ {usual})
    BY DEF FortiOS!parse_current_state, FortiOS!build_ports, FortiOS!parse_physical_ports, FortiOS!FactoryPort
  <2> HIDE DEF q, usual
  <2> QED
    BY <1>4, <2>1
<1> HIDE DEF l, q
<1>7. IsList(q.tagged_vlans) /\ ToSet(q.tagged_vlans) = dev.tagged[p] \ {q.vlan}
  BY <1>2, <1>3, DroppingKeeps
<1>8. ReadRight(x, dev, p, q)
  BY <1>2, <1>5, <1>6, <1>7 DEF ReadRight
<1> QED
  BY <1>8 DEF q

\* A port that is read right and is as it should be.
LEMMA PortIsConfigured ==
  ASSUME sw \in Scenarios, NEW dev, NEW p \in DOMAIN sw.cfg.ports, NEW q,
         ReadRight(sw, dev, p, q),
         ports_equivalent_for_model(q, sw.cfg.ports[p], supports_poe(sw.cfg.model))
  PROVE  HasPort(dev, p, sw.cfg.ports[p])
<1> DEFINE port == sw.cfg.ports[p]
<1>1. IsList(port.tagged_vlans) /\ port.mac_notify \in BOOLEAN
  BY ListOfVlans
<1>2. /\ q.vlan = port.vlan /\ q.description = port.description /\ q.enabled = port.enabled
      /\ q.mac_notify = port.mac_notify /\ tagged_without_native(q) = tagged_without_native(port)
      /\ supports_poe(sw.cfg.model) => q.poe_enabled = port.poe_enabled
  BY DEF ports_equivalent_for_model
<1> HIDE DEF port
<1>3. ToSet(q.tagged_vlans) \ {q.vlan} = ToSet(port.tagged_vlans) \ {port.vlan}
  BY <1>1, <1>2, SameMembers DEF ReadRight
<1>4. HasPort(dev, p, port)
  BY <1>1, <1>2, <1>3 DEF HasPort, ReadRight, Brand
<1> QED
  BY <1>4 DEF port

\* VLANs that are read right and are as they should be.
LEMMA VlansAreConfigured ==
  ASSUME NEW state, NEW dev, ~ has_changes(compute_diff(state, sw.cfg, sw.enforce)),
         DOMAIN state.vlans = DOMAIN dev.vlans,
         \A v \in DOMAIN dev.vlans :
           IF Brand = "Aruba"
           THEN state.vlans[v].name = dev.vlans[v].name /\ state.vlans[v].ip_config = dev.vlans[v].ip_config
           ELSE state.vlans[v].ip_config = Or(dev.svi, v, NewSvi).ip_config
  PROVE  HasVlans(dev, sw.cfg)
<1>1. /\ DOMAIN state.vlans \ {1} = DOMAIN sw.cfg.vlans \ {1}
      /\ \A v \in DOMAIN sw.cfg.vlans : /\ v \in DOMAIN state.vlans
                                        /\ state.vlans[v].name = sw.cfg.vlans[v].name
                                        /\ state.vlans[v].ip_config = sw.cfg.vlans[v].ip_config
  BY SameVlans
<1>2. CASE Brand = "Aruba"
  BY <1>1, <1>2 DEF HasVlans
<1>3. CASE Brand # "Aruba"
  BY <1>1, <1>3 DEF HasVlans
<1> QED
  BY <1>2, <1>3

\* A parsed Aruba switch with nothing to change is configured, ...
LEMMA ArubaIsConfigured ==
  ASSUME sw \in Scenarios, NEW dev, IsDevice(dev), DOMAIN dev.port = DOMAIN sw.dev.port, Brand = "Aruba",
         NEW order, ~ has_changes(Diff(Aruba!parse_current_state(sw.cfg, dev, order)))
  PROVE  Configured(dev, sw.cfg)
<1> DEFINE state == Aruba!parse_current_state(sw.cfg, dev, order)
<1>1. ~ has_changes(compute_diff(state, sw.cfg, sw.enforce))
  BY DEF Diff
<1>2. DOMAIN state.vlans = DOMAIN dev.vlans /\ DOMAIN state.ports = DOMAIN dev.port
  BY DEF Aruba!parse_current_state
<1>3. \A v \in DOMAIN dev.vlans : /\ state.vlans[v].name = dev.vlans[v].name
                                  /\ state.vlans[v].ip_config = dev.vlans[v].ip_config
  BY DEF Aruba!parse_current_state, Aruba!parse_vlan_with_ports
<1>4. /\ \A s \in state.snmp : DOMAIN s.communities = DOMAIN dev.communities
      /\ state.snmp = {} => DOMAIN dev.communities = {}
  <2>1. state.snmp = Aruba!parse_snmp_config(dev)
    BY DEF Aruba!parse_current_state
  <2> DEFINE one == [communities |-> [n \in DOMAIN dev.communities |->
                                        [access |-> dev.communities[n].access, allowed_hosts |-> {}]],
                     trap_receivers |-> dev.receivers,
                     enabled_traps |-> Aruba!parse_snmp_trap_status(dev)]
  <2>2. DOMAIN one.communities = DOMAIN dev.communities
    OBVIOUS
  <2>3. Aruba!parse_snmp_config(dev) = {one} \/ (Aruba!parse_snmp_config(dev) = {} /\ DOMAIN dev.communities = {})
    BY DEF Aruba!parse_snmp_config
  <2> HIDE DEF state, one
  <2> QED
    BY <2>1, <2>2, <2>3
<1>5. ASSUME NEW p \in DOMAIN dev.port PROVE ReadRight(sw, dev, p, state.ports[p])
  BY ArubaPortRead
<1> HIDE DEF state
<1>6. HasVlans(dev, sw.cfg)
  BY <1>1, <1>2, <1>3, VlansAreConfigured
<1>7. HasCommunities(dev, sw.cfg)
  <2>1. DOMAIN dev.communities = WantedCommunities(sw)
    <3>1. PICK C : C = DOMAIN dev.communities
      OBVIOUS
    <3>2. C = WantedCommunities(sw)
      BY <1>1, <1>4, <3>1, SameCommunities
    <3> QED
      BY <3>1, <3>2
  <2> QED
    BY <2>1 DEF HasCommunities, WantedCommunities
<1>8. ASSUME NEW p \in DOMAIN sw.cfg.ports PROVE HasPort(dev, p, sw.cfg.ports[p])
  <2>1. p \in DOMAIN dev.port
        /\ ports_equivalent_for_model(state.ports[p], sw.cfg.ports[p], supports_poe(sw.cfg.model))
    BY <1>1, <1>2, SamePorts
  <2> QED
    BY <1>5, <2>1, PortIsConfigured
<1> QED
  BY <1>6, <1>7, <1>8 DEF Configured

\* ... and so is a FortiSwitch, though its parser fills in what is not printed
\* with the factory's settings and with what is wanted.
LEMMA FortiIsConfigured ==
  ASSUME sw \in Scenarios, NEW dev, IsDevice(dev), DOMAIN dev.port = DOMAIN sw.dev.port,
         Brand = "Fortiswitch", ~ has_changes(Diff(FortiOS!parse_current_state(sw.cfg, dev)))
  PROVE  Configured(dev, sw.cfg)
<1> DEFINE state == FortiOS!parse_current_state(sw.cfg, dev)
           names == {dev.communities[i].name : i \in FortiOS!named(dev)}
<1>1. ~ has_changes(compute_diff(state, sw.cfg, sw.enforce))
  BY DEF Diff
<1>2. DOMAIN state.vlans = DOMAIN dev.vlans /\ DOMAIN state.ports = DOMAIN dev.port
  BY DEF FortiOS!parse_current_state, FortiOS!parse_switch_vlan_ids, FortiOS!build_ports
<1>3. ASSUME NEW v \in DOMAIN dev.vlans
      PROVE  state.vlans[v].ip_config = Or(dev.svi, v, NewSvi).ip_config
  <2> DEFINE svi == FortiOS!parse_svi_details(dev, v)
  <2>1. state.vlans[v].ip_config = IF svi # {} THEN FortiOS!the(svi).ip_config ELSE "none"
    BY DEF FortiOS!parse_current_state, FortiOS!parse_switch_vlan_ids, FortiOS!parsed_vlan
  <2> HIDE DEF state
  <2>2. CASE v \in DOMAIN dev.svi
    <3> DEFINE one == [description |-> dev.svi[v].description, ip_config |-> dev.svi[v].ip_config]
    <3>1. svi = {one}
      BY <2>2 DEF FortiOS!parse_svi_details
    <3> HIDE DEF svi
    <3>2. svi # {} /\ FortiOS!the(svi) = one
      <4> HIDE DEF one
      <4> QED
        BY <3>1 DEF FortiOS!the
    <3>3. one.ip_config = dev.svi[v].ip_config
      OBVIOUS
    <3> HIDE DEF one
    <3> QED
      BY <2>1, <2>2, <3>2, <3>3 DEF Or
  <2>3. CASE v \notin DOMAIN dev.svi
    <3>1. svi = {}
      BY <2>3 DEF FortiOS!parse_svi_details
    <3>2. Or(dev.svi, v, NewSvi).ip_config = "none"
      BY <2>3 DEF Or, NewSvi
    <3> HIDE DEF svi
    <3> QED
      BY <2>1, <3>1, <3>2
  <2> QED
    BY <2>2, <2>3
<1>4. /\ \A s \in state.snmp : DOMAIN s.communities = names
      /\ state.snmp = {} => names = {}
  <2> DEFINE parsed == FortiOS!parse_snmp_community(dev)
             w == FortiOS!effective_snmp(sw.cfg.snmp)
  <2>1. parsed = {} => names = {}
    BY DEF FortiOS!parse_snmp_community
  <2>2. ASSUME NEW t \in parsed PROVE "communities" \in DOMAIN t /\ DOMAIN t.communities = names
    BY <2>2 DEF FortiOS!parse_snmp_community
  <2>3. state.snmp = FortiOS!adopt_desired_access(parsed, w)
    BY DEF FortiOS!parse_current_state
  <2> HIDE DEF parsed, w, names, state
  <2>4. state.snmp = {} => parsed = {}
    <3> SUFFICES ASSUME NEW t \in parsed PROVE state.snmp # {}
      OBVIOUS
    <3> DEFINE adopted(s) == [s EXCEPT !.communities =
                 [n \in DOMAIN @ |->
                    IF \E y \in w : n \in DOMAIN y.communities
                    THEN [@[n] EXCEPT !.access = FortiOS!the(w).communities[n].access] ELSE @[n]]]
    <3>1. state.snmp = {adopted(s) : s \in parsed}
      BY <2>3 DEF FortiOS!adopt_desired_access
    <3> HIDE DEF adopted
    <3> QED
      BY <3>1
  <2>5. ASSUME NEW s \in state.snmp PROVE DOMAIN s.communities = names
    <3> DEFINE h(t) == [n \in DOMAIN t.communities |->
                          IF \E y \in w : n \in DOMAIN y.communities
                          THEN [t.communities[n] EXCEPT !.access = FortiOS!the(w).communities[n].access]
                          ELSE t.communities[n]]
    <3>1. PICK t \in parsed : s = [t EXCEPT !.communities = h(t)]
      BY <2>3 DEF FortiOS!adopt_desired_access
    <3>2. DOMAIN h(t) = DOMAIN t.communities
      OBVIOUS
    <3> HIDE DEF h
    <3> QED
      BY <2>2, <3>1, <3>2
  <2> QED
    BY <2>1, <2>4, <2>5
<1>5. ASSUME NEW p \in DOMAIN dev.port PROVE ReadRight(sw, dev, p, state.ports[p])
  BY FortiPortRead DEF Brand
<1> HIDE DEF state
<1>6. HasVlans(dev, sw.cfg)
  BY <1>1, <1>2, <1>3, VlansAreConfigured
<1>7. HasCommunities(dev, sw.cfg)
  <2>1. names = WantedCommunities(sw)
    <3> HIDE DEF names
    <3> QED
      BY <1>1, <1>4, SameCommunities
  <2> QED
    BY <2>1 DEF HasCommunities, WantedCommunities
<1>8. ASSUME NEW p \in DOMAIN sw.cfg.ports PROVE HasPort(dev, p, sw.cfg.ports[p])
  <2>1. p \in DOMAIN dev.port
        /\ ports_equivalent_for_model(state.ports[p], sw.cfg.ports[p], supports_poe(sw.cfg.model))
    BY <1>1, <1>2, SamePorts
  <2> QED
    BY <1>5, <2>1, PortIsConfigured
<1> QED
  BY <1>6, <1>7, <1>8 DEF Configured

(***************************************************************************)
(* 'No changes needed': an apply that sends nothing has found an Aruba     *)
(* switch or a FortiSwitch that has the VLANs, ports and communities that  *)
(* are wanted.  It is about compute_diff and the two parsers, for every    *)
(* configuration and every state of the switch.                            *)
(***************************************************************************)
THEOREM NothingToDoIsAlwaysTrue == Spec => []NothingToDoIsTrue
<1>1. Init => NothingToDoIsTrue
  BY DEF Init, NothingToDoIsTrue
<1>2. IInv /\ NothingToDoIsTrue /\ [Next]_vars => NothingToDoIsTrue'
  <2> SUFFICES ASSUME IInv, NothingToDoIsTrue, [Next]_vars, pc' = "results", ~ sent', Expressible'
               PROVE  Configured(running, sw.cfg)'
    BY DEF NothingToDoIsTrue
  <2>1. sw' = sw /\ sw \in Scenarios /\ IsDevice(running) /\ DOMAIN running.port = DOMAIN sw.dev.port
    BY DEF Next, Step, Failure, Start, Connect, ReadFails, ParseAndDiff, SendBatch, BatchBreaks, Verify,
           VerifyFails, Results, RunTest, Validated, ValidationBreaks, rollback_configuration,
           RollbackFails, save_configuration, SaveFails, PoeStep, PoeStepFails, PowerLoss, vars,
           IInv, Devices, SoundFor
  <2>2. Expressible
    BY <2>1 DEF Expressible, ArubaCan, FortiCan, Brand
  <2>3. running' = running /\ Configured(running, sw.cfg) => Configured(running, sw.cfg)'
    <3> SUFFICES ASSUME running' = running, Configured(running, sw.cfg) PROVE Configured(running, sw.cfg)'
      OBVIOUS
    <3>1. Brand' = Brand
      BY <2>1 DEF Brand
    <3>2. HasVlans(running, sw.cfg)' /\ HasCommunities(running, sw.cfg)'
      BY <2>1, <3>1 DEF Configured, HasVlans, HasCommunities
    <3>3. ASSUME NEW p \in DOMAIN sw.cfg.ports PROVE HasPort(running, p, sw.cfg.ports[p])'
      BY <2>1, <3>1 DEF Configured, HasPort
    <3> QED
      BY <2>1, <3>2, <3>3 DEF Configured
  <2>4. CASE UNCHANGED vars
    BY <2>2, <2>3, <2>4 DEF vars, NothingToDoIsTrue
  <2>5. CASE Next
    <3>1. ParseAndDiff /\ running' = running
      <4>1. ~ Validated
        BY ValidatedGoes DEF Finish
      <4>2. ~ (SendBatch \/ Verify \/ VerifyFails)
        BY DEF SendBatch, Verify, VerifyFails, Finish, IInv, Sending
      <4>3. ParseAndDiff
        BY <2>5, <4>1, <4>2 DEF Next, Step, Failure, Start, Connect, ReadFails, BatchBreaks, Results,
               RunTest, ValidationBreaks, rollback_configuration, Finish,
               RollbackFails, save_configuration, SaveFails, PoeStep, PoeStepFails, PowerLoss
      <4> QED
        BY <4>3 DEF ParseAndDiff
    <3>2. PICK state \in ParsedStates(running) : ~ has_changes(Diff(state))
      BY <3>1 DEF ParseAndDiff, Finish
    <3>3. Configured(running, sw.cfg)
      <4>1. CASE Brand = "Aruba"
        <5>1. PICK order : state = Aruba!parse_current_state(sw.cfg, running, order)
          BY <4>1 DEF ParsedStates
        <5> QED
          BY <2>1, <3>2, <4>1, <5>1, ArubaIsConfigured
      <4>2. CASE Brand = "Fortiswitch"
        <5>1. state = FortiOS!parse_current_state(sw.cfg, running)
          BY <4>2 DEF ParsedStates
        <5> QED
          BY <2>1, <3>2, <4>2, <5>1, FortiIsConfigured
      <4> QED
        BY <2>2, <4>1, <4>2 DEF Expressible
    <3> QED
      BY <2>3, <3>1, <3>3
  <2> QED
    BY <2>4, <2>5
<1> QED
  BY <1>1, <1>2, Invariance, PTL DEF Spec
=============================================================================
