--------------------------- MODULE ServicesProofs ---------------------------
(***************************************************************************)
(* Firewall and snapper, for any subvolumes, documents, rules and zones,   *)
(* and any number of applies, failures, deaths and acts by hand: a daemon  *)
(* enforces what its files say, snapshots are owned by a config, those the *)
(* document wants are not deleted, and a rule or a zone it no longer wants *)
(* is closed.                                                              *)
(*                                                                         *)
(* An apply is a list of steps, some of which put others in their place.   *)
(* What has to be known of it is the order of its steps: a reload behind   *)
(* every zone (Reloaded), a command behind the one it relies on (Linked),  *)
(* a mount that comes back (Closed), deletions before anything else        *)
(* (DeletesFirst), the packages behind the firewall (InTurn).              *)
(***************************************************************************)
EXTENDS Services, TLAPS, FiniteSetTheorems, SequenceTheorems

-----------------------------------------------------------------------------
(***************************************************************************)
(* Sequences of steps                                                      *)
(***************************************************************************)

IsSteps(t) == \E S : t \in Seq(S)

\* What SMT needs to know of a sequence.
LEMMA StepsAre ==
  ASSUME NEW t, IsSteps(t)
  PROVE  Len(t) \in Nat /\ DOMAIN t = 1 .. Len(t) /\ (t = <<>> <=> Len(t) = 0)
<1>1. PICK S : t \in Seq(S)
  BY DEF IsSteps
<1> QED
  BY <1>1, EmptySeq, LenProperties

LEMMA SeqGrows ==
  ASSUME NEW S, NEW T, NEW t \in Seq(S), S \subseteq T
  PROVE  t \in Seq(T)
<1>1. Len(t) \in Nat /\ t \in [1 .. Len(t) -> S]
  BY LenProperties
<1> QED
  BY <1>1, SeqDef

LEMMA TailIs ==
  ASSUME NEW t, IsSteps(t), t # <<>>
  PROVE  /\ IsSteps(Tail(t)) /\ Len(Tail(t)) = Len(t) - 1 /\ Len(t) >= 1
         /\ Head(t) = t[1] /\ DOMAIN Tail(t) = 1 .. Len(t) - 1
         /\ \A k \in 1 .. Len(t) - 1 : Tail(t)[k] = t[k + 1]
<1>1. PICK S : t \in Seq(S)
  BY DEF IsSteps
<1>2. Tail(t) \in Seq(S) /\ Len(Tail(t)) = Len(t) - 1 /\ \A i \in 1 .. Len(Tail(t)) : Tail(t)[i] = t[i + 1]
  BY <1>1, HeadTailProperties
<1>3. IsSteps(Tail(t))
  BY <1>2 DEF IsSteps
<1>4. Head(t) = t[1]
  BY <1>1
<1> QED
  BY <1>2, <1>3, <1>4, StepsAre

LEMMA JoinIs ==
  ASSUME NEW s, NEW t, IsSteps(s), IsSteps(t)
  PROVE  /\ IsSteps(s \o t) /\ Len(s \o t) = Len(s) + Len(t)
         /\ DOMAIN (s \o t) = 1 .. Len(s) + Len(t)
         /\ \A k \in 1 .. Len(s) : (s \o t)[k] = s[k]
         /\ \A k \in 1 .. Len(t) : (s \o t)[Len(s) + k] = t[k]
         /\ \A k \in 1 .. Len(s) + Len(t) : k > Len(s) => (s \o t)[k] = t[k - Len(s)]
<1>1. PICK S : s \in Seq(S)
  BY DEF IsSteps
<1>2. PICK T : t \in Seq(T)
  BY DEF IsSteps
<1> DEFINE U == S \cup T
<1>3. s \in Seq(U) /\ t \in Seq(U)
  BY <1>1, <1>2, SeqGrows
<1> HIDE DEF U
<1>4. /\ s \o t \in Seq(U) /\ Len(s \o t) = Len(s) + Len(t)
      /\ \A i \in 1 .. Len(s) + Len(t) : (s \o t)[i] = IF i <= Len(s) THEN s[i] ELSE t[i - Len(s)]
  BY <1>3, ConcatProperties
<1>5. Len(s) \in Nat /\ Len(t) \in Nat
  BY <1>3, LenProperties
<1>6. IsSteps(s \o t)
  BY <1>4 DEF IsSteps
<1> QED
  BY <1>4, <1>5, <1>6, StepsAre

\* What is joined begins with its first part.
LEMMA JoinBegins ==
  ASSUME NEW s, NEW t, IsSteps(s), IsSteps(t)
  PROVE  \A k \in 1 .. Len(s) : (s \o t)[k] = s[k]
BY JoinIs

\* A finite set in some order.
LEMMA InOrder ==
  ASSUME NEW S, IsFiniteSet(S)
  PROVE  /\ Cardinality(S) \in Nat /\ (Cardinality(S) = 0 <=> S = {})
         /\ SetToSeq(S) \in [1 .. Cardinality(S) -> S]
         /\ \A i, j \in 1 .. Cardinality(S) : SetToSeq(S)[i] = SetToSeq(S)[j] => i = j
         /\ \A x \in S : \E i \in 1 .. Cardinality(S) : SetToSeq(S)[i] = x
<1> DEFINE n == Cardinality(S)
<1>1. n \in Nat /\ ExistsBijection(1 .. n, S) /\ (n = 0 <=> S = {})
  BY FS_CardinalityType, FS_EmptySet
<1>2. \E f \in [1 .. n -> S] : IsInjective(f)
  BY <1>1 DEF ExistsBijection, Bijection, Injection
<1>3. SetToSeq(S) \in [1 .. n -> S] /\ IsInjective(SetToSeq(S))
  BY <1>2 DEF SetToSeq
<1>4. SetToSeq(S) \in Injection(1 .. n, S)
  BY <1>3 DEF Injection
<1>5. Cardinality(1 .. n) = n
  BY <1>1, FS_Interval
<1>6. SetToSeq(S) \in Surjection(1 .. n, S)
  BY <1>4, <1>5, FS_Injection
<1> QED
  BY <1>1, <1>3, <1>6 DEF Surjection, IsInjective

LEMMA DoEachIs ==
  ASSUME NEW action, NEW do, NEW args, IsFiniteSet(args)
  PROVE  /\ IsSteps(DoEach(action, do, args)) /\ Len(DoEach(action, do, args)) = Cardinality(args)
         /\ \A k \in DOMAIN DoEach(action, do, args) :
              /\ DoEach(action, do, args)[k].do = do /\ DoEach(action, do, args)[k].arg \in args
              /\ \A j \in DOMAIN DoEach(action, do, args) :
                   DoEach(action, do, args)[j].arg = DoEach(action, do, args)[k].arg => j = k
         /\ args = {} => DoEach(action, do, args) = <<>>
<1> DEFINE n == Cardinality(args)
           order == SetToSeq(args)
           all == [i \in 1 .. n |-> Step(action, do, order[i])]
           S == {Step(action, do, x) : x \in args}
<1>1. /\ n \in Nat /\ (n = 0 <=> args = {}) /\ order \in [1 .. n -> args]
      /\ \A i, j \in 1 .. n : order[i] = order[j] => i = j
  BY InOrder
<1>2. DoEach(action, do, args) = all
  BY DEF DoEach
<1> HIDE DEF n, order
<1>3. all \in [1 .. n -> S]
  BY <1>1
<1>4. all \in Seq(S) /\ Len(all) = n
  BY <1>1, <1>3, SeqDef, LenProperties
<1>5. \A k \in 1 .. n : all[k].do = do /\ all[k].arg = order[k]
  BY DEF Step
<1>6. IsSteps(all)
  BY <1>4 DEF IsSteps
<1>7. DOMAIN all = 1 .. n /\ (n = 0 => all = <<>>)
  BY <1>4, <1>6, StepsAre
<1> HIDE DEF all
<1>8. Len(DoEach(action, do, args)) = Cardinality(args)
  BY <1>2, <1>4 DEF n
<1> QED
  BY <1>1, <1>2, <1>5, <1>6, <1>7, <1>8

LEMMA WhenIs ==
  ASSUME NEW condition \in BOOLEAN, NEW s
  PROVE  /\ IsSteps(When(condition, <<s>>)) /\ Len(When(condition, <<s>>)) <= 1
         /\ \A k \in DOMAIN When(condition, <<s>>) : When(condition, <<s>>)[k] = s
         /\ condition => When(condition, <<s>>) = <<s>>
         /\ ~condition => When(condition, <<s>>) = <<>>
<1>1. IsSteps(<<s>>) /\ IsSteps(<<>>)
  <2>1. <<s>> \in Seq({s}) /\ <<>> \in Seq({s})
    BY EmptySeq
  <2> QED
    BY <2>1 DEF IsSteps
<1>2. /\ Len(<<s>>) = 1 /\ DOMAIN <<s>> = 1 .. 1 /\ <<s>>[1] = s
      /\ Len(<<>>) = 0 /\ DOMAIN <<>> = {}
  OBVIOUS
<1>3. CASE condition
  BY <1>1, <1>2, <1>3 DEF When
<1>4. CASE ~condition
  BY <1>1, <1>2, <1>4 DEF When
<1> QED
  BY <1>3, <1>4

-----------------------------------------------------------------------------
(***************************************************************************)
(* The plan: what may come in it and in which order.                       *)
(***************************************************************************)

Creating == {"rmdir", "create-config", "delete-nested", "mkdir", "mount"}
Deleting == {"delete-snapshot", "rmtree", "delete-container"}
Inner == {"umount", "remove-config", "unlist"} \cup Creating \cup Deleting
Zoning == {"write-zone", "remove-zone"}

Reloaded(t) ==
  \A k \in DOMAIN t : t[k].do \in Zoning => \E j \in DOMAIN t : k < j /\ t[j].do = "reload"

\* A plan creates what is in one set, removes what is in another, each once, and reloads
\* the firewall behind every zone it touches.
IsPlan(t, adds, drops) ==
  /\ IsSteps(t) /\ Reloaded(t)
  /\ \A k \in DOMAIN t : /\ t[k].do \notin Inner
                         /\ t[k].do = "create" => t[k].arg \in adds
                         /\ t[k].do = "remove" => t[k].arg \in drops
  /\ \A j, k \in DOMAIN t :
       t[j].do = "remove" /\ t[k].do = "remove" /\ t[j].arg = t[k].arg => j = k

LEMMA PlansJoin ==
  ASSUME NEW s, NEW t, NEW A, NEW B, NEW D, NEW E, IsPlan(s, A, D), IsPlan(t, B, E), D \cap E = {}
  PROVE  IsPlan(s \o t, A \cup B, D \cup E)
<1> DEFINE r == s \o t
           m == Len(s)
           n == Len(t)
<1>1. /\ IsSteps(r) /\ DOMAIN r = 1 .. m + n
      /\ \A k \in 1 .. m : r[k] = s[k]
      /\ \A k \in 1 .. n : r[m + k] = t[k]
      /\ \A k \in 1 .. m + n : k > m => r[k] = t[k - m]
  BY JoinIs DEF IsPlan
<1>2. m \in Nat /\ n \in Nat /\ DOMAIN s = 1 .. m /\ DOMAIN t = 1 .. n
  BY StepsAre DEF IsPlan
<1> HIDE DEF r, m, n
<1>3. \A k \in 1 .. m + n : \/ k \in 1 .. m /\ r[k] = s[k]
                            \/ k - m \in 1 .. n /\ k = m + (k - m) /\ r[k] = t[k - m]
  BY <1>1, <1>2
<1>4. Reloaded(r)
  <2> SUFFICES ASSUME NEW k \in 1 .. m + n, r[k].do \in Zoning
               PROVE  \E j \in 1 .. m + n : k < j /\ r[j].do = "reload"
    BY <1>1 DEF Reloaded
  <2>1. CASE k \in 1 .. m /\ r[k] = s[k]
    <3>1. PICK j \in 1 .. m : k < j /\ s[j].do = "reload"
      BY <1>2, <2>1 DEF IsPlan, Reloaded
    <3> QED
      BY <1>1, <1>2, <3>1
  <2>2. CASE k - m \in 1 .. n /\ r[k] = t[k - m]
    <3>1. PICK j \in 1 .. n : k - m < j /\ t[j].do = "reload"
      BY <1>2, <2>2 DEF IsPlan, Reloaded
    <3>2. m + j \in 1 .. m + n /\ k < m + j /\ r[m + j].do = "reload"
      BY <1>1, <1>2, <3>1
    <3> QED
      BY <3>2
  <2> QED
    BY <1>3, <2>1, <2>2
<1>5. \A k \in 1 .. m + n : /\ r[k].do \notin Inner
                            /\ r[k].do = "create" => r[k].arg \in A \cup B
                            /\ r[k].do = "remove" => r[k].arg \in D \cup E
  BY <1>2, <1>3 DEF IsPlan
<1>6. ASSUME NEW j \in 1 .. m + n, NEW k \in 1 .. m + n,
             r[j].do = "remove", r[k].do = "remove", r[j].arg = r[k].arg
      PROVE  j = k
  <2>1. CASE j \in 1 .. m /\ r[j] = s[j] /\ k \in 1 .. m /\ r[k] = s[k]
    BY <1>2, <1>6, <2>1 DEF IsPlan
  <2>2. CASE j - m \in 1 .. n /\ r[j] = t[j - m] /\ k - m \in 1 .. n /\ r[k] = t[k - m]
    <3>1. j - m = k - m
      BY <1>2, <1>6, <2>2 DEF IsPlan
    <3> QED
      BY <1>2, <3>1
  <2>3. CASE j \in 1 .. m /\ r[j] = s[j] /\ k - m \in 1 .. n /\ r[k] = t[k - m]
    <3>1. r[j].arg \in D /\ r[k].arg \in E
      BY <1>2, <1>6, <2>3 DEF IsPlan
    <3> QED
      BY <1>6, <3>1
  <2>4. CASE k \in 1 .. m /\ r[k] = s[k] /\ j - m \in 1 .. n /\ r[j] = t[j - m]
    <3>1. r[k].arg \in D /\ r[j].arg \in E
      BY <1>2, <1>6, <2>4 DEF IsPlan
    <3> QED
      BY <1>6, <3>1
  <2> QED
    BY <1>3, <2>1, <2>2, <2>3, <2>4
<1>7. IsPlan(r, A \cup B, D \cup E)
  BY <1>1, <1>4, <1>5, <1>6 DEF IsPlan
<1> QED
  BY <1>7 DEF r

Elsewhere == {"install-ufw", "allow", "delete", "ufw-enable", "reload", "install-snapper",
              "packages", "units"}

LEMMA PlanWhen ==
  ASSUME NEW condition \in BOOLEAN, NEW s, s.do \in Elsewhere
  PROVE  IsPlan(When(condition, <<s>>), {}, {})
<1> DEFINE t == When(condition, <<s>>)
<1>1. IsSteps(t) /\ Len(t) <= 1 /\ \A k \in DOMAIN t : t[k] = s
  BY WhenIs
<1>2. DOMAIN t = 1 .. Len(t) /\ Len(t) \in Nat
  BY <1>1, StepsAre
<1> HIDE DEF t
<1>3. \A j, k \in DOMAIN t : j = k
  BY <1>1, <1>2
<1>4. IsPlan(t, {}, {})
  BY <1>1, <1>3 DEF IsPlan, Reloaded, Zoning, Inner, Creating, Deleting, Elsewhere
<1> QED
  BY <1>4 DEF t

LEMMA PlanEach ==
  ASSUME NEW action, NEW do, NEW args, IsFiniteSet(args)
  PROVE  /\ do \in Elsewhere => IsPlan(DoEach(action, do, args), {}, {})
         /\ do = "create" => IsPlan(DoEach(action, do, args), args, {})
         /\ do = "remove" => IsPlan(DoEach(action, do, args), {}, args)
<1> DEFINE t == DoEach(action, do, args)
<1>1. /\ IsSteps(t)
      /\ \A k \in DOMAIN t : /\ t[k].do = do /\ t[k].arg \in args
                             /\ \A j \in DOMAIN t : t[j].arg = t[k].arg => j = k
  BY DoEachIs
<1> HIDE DEF t
<1>2. CASE do \in Elsewhere
  BY <1>1, <1>2 DEF IsPlan, Reloaded, Zoning, Inner, Creating, Deleting, Elsewhere, t
<1>3. CASE do = "create"
  BY <1>1, <1>3 DEF IsPlan, Reloaded, Zoning, Inner, Creating, Deleting, Elsewhere, t
<1>4. CASE do = "remove"
  BY <1>1, <1>4 DEF IsPlan, Reloaded, Zoning, Inner, Creating, Deleting, Elsewhere, t
<1> QED
  BY <1>2, <1>3, <1>4

LEMMA PlanZones ==
  ASSUME NEW p, IsFiniteSet(p.add), IsFiniteSet(p.drop)
  PROVE  IsPlan(DoEach("firewall", "write-zone", p.add) \o DoEach("firewall", "remove-zone", p.drop)
                  \o When(~Empty(p), <<Step("firewall", "reload", "")>>), {}, {})
<1> DEFINE a == DoEach("firewall", "write-zone", p.add)
           b == DoEach("firewall", "remove-zone", p.drop)
           r == Step("firewall", "reload", "")
           c == When(~Empty(p), <<r>>)
           t == a \o b
           m == Len(t)
<1>1. /\ IsSteps(a) /\ \A k \in DOMAIN a : a[k].do = "write-zone"
      /\ IsSteps(b) /\ \A k \in DOMAIN b : b[k].do = "remove-zone"
  BY DoEachIs
<1>2. Len(a) \in Nat /\ DOMAIN a = 1 .. Len(a) /\ Len(b) \in Nat /\ DOMAIN b = 1 .. Len(b)
  BY <1>1, StepsAre
<1>3. /\ IsSteps(c) /\ \A k \in DOMAIN c : c[k] = r
      /\ Len(c) <= 1
      /\ ~Empty(p) => c = <<r>>
  BY WhenIs DEF Empty
<1>4. r.do = "reload"
  BY DEF Step
<1>41. Empty(p) => Len(a) = 0 /\ Len(b) = 0
  <2> SUFFICES ASSUME Empty(p)
               PROVE  a = <<>> /\ b = <<>>
    BY <1>1, StepsAre
  <2>1. p.add = {} /\ p.drop = {}
    BY DEF Empty
  <2> QED
    BY <2>1, DoEachIs
<1> HIDE DEF a, b, c, r
<1>5. /\ IsSteps(t) /\ m = Len(a) + Len(b)
      /\ \A k \in 1 .. Len(a) : t[k] = a[k]
      /\ \A k \in 1 .. Len(a) + Len(b) : k > Len(a) => t[k] = b[k - Len(a)]
  <2>1. /\ IsSteps(a \o b) /\ Len(a \o b) = Len(a) + Len(b)
        /\ \A k \in 1 .. Len(a) : (a \o b)[k] = a[k]
        /\ \A k \in 1 .. Len(a) + Len(b) : k > Len(a) => (a \o b)[k] = b[k - Len(a)]
    <3>1. IsSteps(a) /\ IsSteps(b)
      BY <1>1
    <3> QED
      BY <3>1, JoinIs, Zenon
  <2> QED
    BY <2>1
<1> HIDE DEF t
<1>21. DOMAIN t = 1 .. m
  BY <1>5, StepsAre
<1> HIDE DEF m
<1>6. \A k \in 1 .. m : t[k].do \in Zoning
  <2> SUFFICES ASSUME NEW k \in 1 .. m
               PROVE  t[k].do \in Zoning
    OBVIOUS
  <2>1. CASE k <= Len(a)
    <3>1. k \in 1 .. Len(a)
      BY <1>2, <1>5, <2>1
    <3> QED
      BY <1>1, <1>2, <1>5, <3>1 DEF Zoning
  <2>2. CASE k > Len(a)
    <3>1. k - Len(a) \in 1 .. Len(b) /\ k \in 1 .. Len(a) + Len(b)
      BY <1>2, <1>5, <2>2
    <3>2. t[k] = b[k - Len(a)]
      BY <1>5, <2>2, <3>1
    <3>3. t[k].do = "remove-zone"
      BY <1>1, <1>2, <3>1, <3>2
    <3> QED
      BY <3>3 DEF Zoning
  <2> QED
    BY <1>2, <1>5, <2>1, <2>2
<1>7. Empty(p) => m = 0
  BY <1>5, <1>41
<1>8. /\ IsSteps(t \o c) /\ DOMAIN (t \o c) = 1 .. m + Len(c)
      /\ \A k \in 1 .. m : (t \o c)[k] = t[k]
      /\ \A k \in 1 .. Len(c) : (t \o c)[m + k] = c[k]
      /\ \A k \in 1 .. m + Len(c) : k > m => (t \o c)[k] = c[k - m]
  BY <1>3, <1>5, JoinIs DEF m
<1>9. Len(c) \in Nat /\ DOMAIN c = 1 .. Len(c) /\ m \in Nat
  BY <1>2, <1>3, <1>5, StepsAre
<1> DEFINE q == t \o c
<1>10. \A k \in 1 .. m + Len(c) : \/ k <= m /\ q[k].do \in Zoning
                                  \/ k > m /\ q[k] = r
  BY <1>3, <1>6, <1>8, <1>9
<1>11. Reloaded(q)
  <2> SUFFICES ASSUME NEW k \in 1 .. m + Len(c), q[k].do \in Zoning
               PROVE  \E j \in 1 .. m + Len(c) : k < j /\ q[j].do = "reload"
    BY <1>8 DEF Reloaded
  <2>1. k <= m
    BY <1>4, <1>10 DEF Zoning
  <2>2. c = <<r>> /\ Len(c) = 1
    BY <1>3, <1>7, <1>9, <2>1
  <2>3. q[m + 1] = r /\ m + 1 \in 1 .. m + Len(c)
    BY <1>8, <1>9, <2>2
  <2>4. k < m + 1
    BY <1>9, <2>1
  <2> QED
    BY <1>4, <2>3, <2>4
<1>12. \A k \in DOMAIN q : q[k].do \in Zoning \cup {"reload"}
  BY <1>4, <1>8, <1>10
<1> HIDE DEF q
<1>13. IsPlan(q, {}, {})
  BY <1>8, <1>11, <1>12 DEF IsPlan, Zoning, Inner, Creating, Deleting, q
<1> QED
  BY <1>13 DEF q, t, a, b, c, r

LEMMA FirewallPlan ==
  ASSUME NEW p, IsFiniteSet(p.add), IsFiniteSet(p.drop)
  PROVE  IsPlan(FirewallSteps(p), {}, {})
<1>1. CASE p.backend = "ufw"
  <2> DEFINE a == When(p.add # {}, <<Step("firewall", "install-ufw", "")>>)
             b == DoEach("firewall", "allow", p.add)
             c == DoEach("firewall", "delete", p.drop)
             d == When(p.add # {}, <<Step("firewall", "ufw-enable", "")>>)
  <2>1. IsPlan(a, {}, {}) /\ IsPlan(d, {}, {})
    <3>1. /\ Step("firewall", "install-ufw", "").do \in Elsewhere
          /\ Step("firewall", "ufw-enable", "").do \in Elsewhere
      BY DEF Step, Elsewhere
    <3>2. (p.add # {}) \in BOOLEAN
      OBVIOUS
    <3> QED
      BY <3>1, <3>2, PlanWhen
  <2>2. IsPlan(b, {}, {}) /\ IsPlan(c, {}, {})
    BY PlanEach DEF Elsewhere
  <2> HIDE DEF a, b, c, d
  <2>3. {} \cap {} = {} /\ {} \cup {} = {}
    OBVIOUS
  <2>4. IsPlan(a \o b, {}, {})
    BY <2>1, <2>2, <2>3, PlansJoin
  <2>5. IsPlan((a \o b) \o c, {}, {})
    BY <2>2, <2>3, <2>4, PlansJoin
  <2>6. IsPlan(((a \o b) \o c) \o d, {}, {})
    BY <2>1, <2>3, <2>5, PlansJoin
  <2>7. FirewallSteps(p) = ((a \o b) \o c) \o d
    BY <1>1 DEF FirewallSteps, a, b, c, d
  <2> QED
    BY <2>6, <2>7
<1>2. CASE p.backend # "ufw"
  BY <1>2, PlanZones DEF FirewallSteps
<1> QED
  BY <1>1, <1>2

LEMMA WholePlan ==
  ASSUME NEW p, IsFiniteSet(p.snapper.add), IsFiniteSet(p.snapper.drop),
         IsFiniteSet(p.firewall.add), IsFiniteSet(p.firewall.drop)
  PROVE  IsPlan(StepsOf(p), p.snapper.add, p.snapper.drop)
<1> DEFINE a == When(~Empty(p.snapper), <<Step("snapper", "install-snapper", "")>>)
           b == DoEach("snapper", "create", p.snapper.add)
           c == DoEach("snapper", "remove", p.snapper.drop)
           d == FirewallSteps(p.firewall)
           e == When(~Empty(p.packages), <<Step("packages", "packages", "")>>)
           f == When(~Empty(p.units), <<Step("units", "units", "")>>)
           A == p.snapper.add
           D == p.snapper.drop
<1>1. IsPlan(a, {}, {}) /\ IsPlan(e, {}, {}) /\ IsPlan(f, {}, {})
  <2>1. /\ Step("snapper", "install-snapper", "").do \in Elsewhere
        /\ Step("packages", "packages", "").do \in Elsewhere
        /\ Step("units", "units", "").do \in Elsewhere
    BY DEF Step, Elsewhere
  <2>2. \A part : (~Empty(part)) \in BOOLEAN
    BY DEF Empty
  <2> QED
    BY <2>1, <2>2, PlanWhen
<1>2. IsPlan(b, A, {}) /\ IsPlan(c, {}, D)
  BY PlanEach
<1>3. IsPlan(d, {}, {})
  BY FirewallPlan
<1>4. StepsOf(p) = (((((a \o b) \o c) \o d) \o e) \o f)
  BY DEF StepsOf
<1> HIDE DEF a, b, c, d, e, f, A, D
<1>5. /\ {} \cup A = A /\ A \cup {} = A /\ {} \cup D = D /\ D \cup {} = D
      /\ {} \cap {} = {} /\ {} \cap D = {} /\ D \cap {} = {} /\ {} \cup {} = {}
  OBVIOUS
<1>6. IsPlan(a \o b, A, {})
  BY <1>1, <1>2, <1>5, PlansJoin
<1>7. IsPlan((a \o b) \o c, A, D)
  BY <1>2, <1>5, <1>6, PlansJoin
<1>8. IsPlan(((a \o b) \o c) \o d, A, D)
  BY <1>3, <1>5, <1>7, PlansJoin
<1>9. IsPlan((((a \o b) \o c) \o d) \o e, A, D)
  BY <1>1, <1>5, <1>8, PlansJoin
<1>10. IsPlan(((((a \o b) \o c) \o d) \o e) \o f, A, D)
  BY <1>1, <1>5, <1>9, PlansJoin
<1> QED
  BY <1>4, <1>10 DEF A, D

-----------------------------------------------------------------------------
(***************************************************************************)
(* Types                                                                   *)
(***************************************************************************)

DiskTypes ==
  /\ snapshots \in [Subvolumes -> [Where -> SUBSET Numbers]]
  /\ records \in [Subvolumes -> [Where -> SUBSET Numbers]]
  /\ \A v \in Subvolumes, w \in Where : IsFiniteSet(records[v][w])
  /\ under \in [Subvolumes -> {"none", "dir", "subvolume"}]
  /\ ownMounted \subseteq OwnSnapshots
  /\ \A n \in DOMAIN configs : configs[n] \in Subvolumes \cup {Unreadable}
  /\ IsFiniteSet(DOMAIN configs) /\ IsFiniteSet(ownedSnapper)

FirewallTypes ==
  /\ IsFiniteSet(ownedFirewall) /\ IsFiniteSet(userRules) /\ IsFiniteSet(DOMAIN zones)
  /\ recorded \in {"none", "ufw", "firewalld"} /\ backend \in {"ufw", "firewalld"}

\* What a step names is there when its turn comes: no config is removed twice.
StepsSound ==
  /\ \A k \in DOMAIN todo :
       /\ todo[k].do \in Inner => todo[k].subvolume \in Subvolumes
       /\ todo[k].do = "create" => todo[k].arg \in DOMAIN doc.snapper
       /\ todo[k].do = "remove" => todo[k].arg \in DOMAIN configs \ DOMAIN doc.snapper
  /\ \A j, k \in DOMAIN todo :
       /\ j < k /\ todo[k].do = "remove"
       /\ todo[j].do \in Deleting \cup {"remove", "remove-config"}
       => todo[j].arg # todo[k].arg

Base ==
  /\ IsSteps(todo) /\ pc \in {"idle", "running"}
  /\ pc = "idle" => todo = <<>>
  /\ settled => pc = "idle"
  /\ DocumentOK(doc) /\ \A d \in docs : DocumentOK(d)
  /\ DiskTypes /\ FirewallTypes /\ StepsSound

LEMMA BaseInit == Init => Base
<1> SUFFICES ASSUME Init
             PROVE  Base
  OBVIOUS
<1>1. PICK s \in Scenarios :
        /\ docs = s.docs /\ doc \in s.docs /\ zones = s.zones /\ userRules = s.rules
        /\ ownedFirewall = s.owned /\ recorded = "none" /\ backend = "firewalld"
        /\ todo = <<>> /\ pc = "idle" /\ settled = FALSE
        /\ configs = <<>> /\ ownedSnapper = {} /\ ownMounted = OwnSnapshots
        /\ snapshots = [v \in Subvolumes |-> [w \in Where |-> {}]] /\ records = snapshots
        /\ under = [v \in Subvolumes |-> IF v \in OwnSnapshots THEN "dir" ELSE "none"]
  BY DEF Init
<1>2. IsSteps(<<>>) /\ DOMAIN <<>> = {}
  <2>1. <<>> \in Seq({})
    BY EmptySeq
  <2> QED
    BY <2>1 DEF IsSteps
<1>3. IsFiniteSet({})
  BY FS_EmptySet
<1>4. DiskTypes
  <2>1. records \in [Subvolumes -> [Where -> SUBSET Numbers]]
    BY <1>1
  <2>2. \A v \in Subvolumes, w \in Where : records[v][w] = {}
    BY <1>1
  <2>3. DOMAIN configs = {} /\ ownedSnapper = {}
    BY <1>1, <1>2
  <2> QED
    BY <1>1, <1>3, <2>1, <2>2, <2>3 DEF DiskTypes
<1>5. FirewallTypes
  BY <1>1, ScenarioAssumption DEF FirewallTypes
<1>6. StepsSound
  BY <1>1, <1>2 DEF StepsSound
<1> QED
  BY <1>1, <1>2, <1>4, <1>5, <1>6, ScenarioAssumption DEF Base

LEMMA SideType ==
  ASSUME NEW v
  PROVE  Side(v) \in Where
BY DEF Side, Where

\* The commands of snapper's action.
Command(h) ==
  \/ h.do = "umount" /\ Umount(h.subvolume)
  \/ h.do = "rmdir" /\ Rmdir(h.subvolume)
  \/ h.do = "create-config" /\ CreateConfig(h.arg, h.subvolume)
  \/ h.do = "delete-nested" /\ DeleteNested(h.subvolume)
  \/ h.do = "mkdir" /\ Mkdir(h.subvolume)
  \/ h.do = "mount" /\ Mount(h.subvolume)
  \/ h.do = "delete-snapshot" /\ DeleteSnapshot(h.subvolume, h.number)
  \/ h.do = "rmtree" /\ Rmtree(h.subvolume, h.number)
  \/ h.do = "delete-container" /\ DeleteContainer(h.subvolume)
  \/ h.do = "remove-config" /\ RemoveConfig(h.arg)
  \/ h.do = "unlist" /\ Unlist(h.arg)

\* Only two of them touch the configs.
LEMMA CommandConfigs ==
  ASSUME NEW h, Command(h)
  PROVE  /\ h.do \in Inner
         /\ h.do = "create-config" =>
              configs' = [n \in DOMAIN configs \cup {h.arg} |->
                            IF n = h.arg THEN h.subvolume ELSE configs[n]]
         /\ h.do = "remove-config" => configs' = Restrict(configs, DOMAIN configs \ {h.arg})
         /\ h.do \notin {"create-config", "remove-config"} => configs' = configs
BY DEF Command, Umount, Rmdir, CreateConfig, DeleteNested, Mkdir, Mount, DeleteSnapshot, Rmtree,
       DeleteContainer, RemoveConfig, Unlist, snapperDisk, btrfs, Inner, Creating, Deleting

LEMMA CommandTypes ==
  ASSUME DiskTypes, NEW h, h.subvolume \in Subvolumes, Command(h), UNCHANGED ownedSnapper
  PROVE  DiskTypes'
<1> DEFINE v == h.subvolume
<1>1. Side(v) \in Where /\ Where = {"own", "nested"}
  BY SideType DEF Where
<1>2. /\ \A n \in DOMAIN configs' : configs'[n] \in Subvolumes \cup {Unreadable}
      /\ IsFiniteSet(DOMAIN configs')
  <2>1. CASE h.do = "create-config"
    <3>1. configs' = [n \in DOMAIN configs \cup {h.arg} |-> IF n = h.arg THEN v ELSE configs[n]]
      BY <2>1, CommandConfigs
    <3>2. IsFiniteSet(DOMAIN configs \cup {h.arg})
      BY FS_AddElement DEF DiskTypes
    <3> QED
      BY <3>1, <3>2 DEF DiskTypes
  <2>2. CASE h.do = "remove-config"
    <3>1. configs' = [n \in DOMAIN configs \ {h.arg} |-> configs[n]]
      BY <2>2, CommandConfigs DEF Restrict
    <3>2. IsFiniteSet(DOMAIN configs \ {h.arg})
      BY FS_RemoveElement DEF DiskTypes
    <3> QED
      BY <3>1, <3>2 DEF DiskTypes
  <2>3. CASE h.do \notin {"create-config", "remove-config"}
    BY <2>3, CommandConfigs DEF DiskTypes
  <2> QED
    BY <2>1, <2>2, <2>3
<1>3. ownMounted' \subseteq OwnSnapshots
  BY DEF Command, Umount, Rmdir, CreateConfig, DeleteNested, Mkdir, Mount, DeleteSnapshot, Rmtree,
         DeleteContainer, RemoveConfig, Unlist, snapperDisk, btrfs, DiskTypes
<1>4. under' \in [Subvolumes -> {"none", "dir", "subvolume"}]
  BY DEF Command, Umount, Rmdir, CreateConfig, DeleteNested, Mkdir, Mount, DeleteSnapshot, Rmtree,
         DeleteContainer, RemoveConfig, Unlist, snapperDisk, btrfs, DiskTypes, SetUnder
<1>5. \/ snapshots' = snapshots
      \/ snapshots' = [snapshots EXCEPT ![v]["nested"] = {}]
      \/ snapshots' = [snapshots EXCEPT ![v][Side(v)] = @ \ {h.number}]
  BY DEF Command, Umount, Rmdir, CreateConfig, DeleteNested, Mkdir, Mount, DeleteSnapshot, Rmtree,
         DeleteContainer, RemoveConfig, Unlist, snapperDisk, btrfs
<1>6. \/ records' = records
      \/ records' = [records EXCEPT ![v]["nested"] = {}]
      \/ records' = [records EXCEPT ![v][Side(v)] = @ \ {h.number}]
  BY DEF Command, Umount, Rmdir, CreateConfig, DeleteNested, Mkdir, Mount, DeleteSnapshot, Rmtree,
         DeleteContainer, RemoveConfig, Unlist, snapperDisk, btrfs
<1>7. snapshots' \in [Subvolumes -> [Where -> SUBSET Numbers]]
  BY <1>1, <1>5 DEF DiskTypes
<1>8. records' \in [Subvolumes -> [Where -> SUBSET Numbers]]
  BY <1>1, <1>6 DEF DiskTypes
<1>9. \A u \in Subvolumes, w \in Where :
         records'[u][w] \in {records[u][w], {}, records[u][w] \ {h.number}}
  <2> SUFFICES ASSUME NEW u \in Subvolumes, NEW w \in Where
               PROVE  records'[u][w] \in {records[u][w], {}, records[u][w] \ {h.number}}
    OBVIOUS
  <2>1. records \in [Subvolumes -> [Where -> SUBSET Numbers]]
    BY DEF DiskTypes
  <2>2. CASE records' = records
    BY <2>2
  <2>3. CASE records' = [records EXCEPT ![v]["nested"] = {}]
    BY <1>1, <2>1, <2>3
  <2>4. CASE records' = [records EXCEPT ![v][Side(v)] = @ \ {h.number}]
    BY <1>1, <2>1, <2>4
  <2> QED
    BY <1>6, <2>2, <2>3, <2>4
<1>10. \A u \in Subvolumes, w \in Where : IsFiniteSet(records'[u][w])
  <2> SUFFICES ASSUME NEW u \in Subvolumes, NEW w \in Where
               PROVE  IsFiniteSet(records'[u][w])
    OBVIOUS
  <2>1. IsFiniteSet(records[u][w]) /\ IsFiniteSet({}) /\ IsFiniteSet(records[u][w] \ {h.number})
    BY FS_EmptySet, FS_RemoveElement DEF DiskTypes
  <2> QED
    BY <1>9, <2>1
<1> QED
  BY <1>2, <1>3, <1>4, <1>7, <1>8, <1>10 DEF DiskTypes

-----------------------------------------------------------------------------
(***************************************************************************)
(* What a step puts in its own place: the commands that make a config, or  *)
(* those that remove one, of one name and one subvolume and in one order.  *)
(***************************************************************************)

Follows(s, t) ==
  /\ s.arg = t.arg /\ s.subvolume = t.subvolume
  /\ \/ s.do = "umount" /\ t.do = "rmdir"
     \/ s.do = "rmdir" /\ t.do = "create-config"
     \/ s.do = "create-config" /\ t.do = "delete-nested" /\ t.subvolume \in OwnSnapshots
     \/ s.do = "delete-nested" /\ t.do = "mkdir"
     \/ s.do = "mkdir" /\ t.do = "mount"
     \/ s.do = "delete-snapshot" /\ t.do = "rmtree" /\ s.number = t.number
     \/ s.do = "rmtree" /\ t.do \in {"delete-snapshot", "delete-container"}
     \/ s.do = "delete-container" /\ t.do = "remove-config"
     \/ s.do = "remove-config" /\ t.do = "unlist"

IsBatch(x, name, v) ==
  /\ IsSteps(x) /\ Len(x) > 0
  /\ \A k \in DOMAIN x : x[k].do \in Inner /\ x[k].arg = name /\ x[k].subvolume = v
  /\ \A k \in DOMAIN x : k > 1 => Follows(x[k - 1], x[k])
  /\ \A j, k \in DOMAIN x :
       j < k /\ x[k].do = "delete-snapshot" => x[j].do \in {"delete-snapshot", "rmtree"}

\* A step that has unmounted `.snapshots', or works where the mount was, is not the last: the
\* mount comes back.
Opens(s) ==
  \/ s.do \in {"umount", "rmdir", "delete-nested", "mkdir"}
  \/ s.do = "create-config" /\ s.subvolume \in OwnSnapshots

Closed(t) ==
  \A k \in DOMAIN t : Opens(t[k]) => k + 1 \in DOMAIN t /\ Follows(t[k], t[k + 1])

LEMMA CreateBatch ==
  ASSUME NEW name, NEW v, ownMounted \subseteq OwnSnapshots
  PROVE  LET x == CreateSteps(name, v)
         IN /\ IsBatch(x, name, v)
            /\ v \in ownMounted \/ v \notin OwnSnapshots => Closed(x)
            /\ \A k \in DOMAIN x : x[k].do \in {"umount"} \cup Creating
            /\ v \in ownMounted => x[1].do = "umount"
            /\ v \notin ownMounted => x[1].do = "create-config"
<1> DEFINE a == SnapperStep("umount", name, v, 0)
           b == SnapperStep("rmdir", name, v, 0)
           c == SnapperStep("create-config", name, v, 0)
           d == SnapperStep("delete-nested", name, v, 0)
           e == SnapperStep("mkdir", name, v, 0)
           f == SnapperStep("mount", name, v, 0)
           x == CreateSteps(name, v)
<1>1. /\ a.do = "umount" /\ b.do = "rmdir" /\ c.do = "create-config"
      /\ d.do = "delete-nested" /\ e.do = "mkdir" /\ f.do = "mount"
      /\ \A s \in {a, b, c, d, e, f} : s.arg = name /\ s.subvolume = v
  BY DEF SnapperStep
<1>4. x = IF v \notin ownMounted THEN <<c>> ELSE <<a, b, c, d, e, f>>
  BY DEF CreateSteps
<1> HIDE DEF a, b, c, d, e, f, x
<1>2. CASE v \notin ownMounted
  <2>1. x = <<c>>
    BY <1>2, <1>4
  <2>2. x \in Seq({c}) /\ Len(x) = 1 /\ x[1] = c
    BY <2>1
  <2>3. IsSteps(x) /\ DOMAIN x = 1 .. 1
    BY <2>2, StepsAre DEF IsSteps
  <2>4. \A k \in DOMAIN x : x[k] = c /\ k = 1
    BY <2>2, <2>3
  <2>5. IsBatch(x, name, v)
    <3>1. \A k \in DOMAIN x : x[k].do = "create-config" /\ x[k].arg = name /\ x[k].subvolume = v
      BY <1>1, <2>4
    <3>2. \A k \in DOMAIN x : ~(k > 1) /\ x[k].do # "delete-snapshot"
      BY <2>4, <3>1
    <3> QED
      BY <2>2, <2>3, <3>1, <3>2 DEF IsBatch, Inner, Creating
  <2>6. v \notin OwnSnapshots => Closed(x)
    BY <1>1, <2>4 DEF Closed, Opens
  <2> QED
    BY <1>1, <1>2, <2>2, <2>4, <2>5, <2>6 DEF x, Creating
<1>3. CASE v \in ownMounted
  <2>1. x = <<a, b, c, d, e, f>>
    BY <1>3, <1>4
  <2>3. x \in Seq({a, b, c, d, e, f})
    BY <2>1
  <2>4. /\ Len(x) = 6 /\ x[1] = a /\ x[2] = b /\ x[3] = c /\ x[4] = d /\ x[5] = e /\ x[6] = f
    BY <2>1
  <2>5. IsSteps(x) /\ DOMAIN x = 1 .. 6
    BY <2>3, <2>4, StepsAre DEF IsSteps
  <2>6. \A k \in DOMAIN x : x[k].do \in {"umount"} \cup Creating /\ x[k].arg = name /\ x[k].subvolume = v
    <3> SUFFICES ASSUME NEW k \in 1 .. 6
                 PROVE  x[k].do \in {"umount"} \cup Creating /\ x[k].arg = name /\ x[k].subvolume = v
      BY <2>5
    <3>1. k = 1 \/ k = 2 \/ k = 3 \/ k = 4 \/ k = 5 \/ k = 6
      OBVIOUS
    <3>2. x[k] \in {a, b, c, d, e, f}
      BY <2>4, <3>1
    <3> QED
      BY <1>1, <3>2 DEF Creating
  <2>7. \A k \in DOMAIN x : k > 1 => Follows(x[k - 1], x[k])
    <3> SUFFICES ASSUME NEW k \in 2 .. 6
                 PROVE  Follows(x[k - 1], x[k])
      BY <2>5
    <3>1. k = 2 \/ k = 3 \/ k = 4 \/ k = 5 \/ k = 6
      OBVIOUS
    <3> QED
      <4>1. CASE k = 2
        BY <1>1, <2>4, <4>1 DEF Follows
      <4>2. CASE k = 3
        BY <1>1, <2>4, <4>2 DEF Follows
      <4>3. CASE k = 4
        BY <1>1, <1>3, <2>4, <4>3 DEF Follows
      <4>4. CASE k = 5
        BY <1>1, <2>4, <4>4 DEF Follows
      <4>5. CASE k = 6
        BY <1>1, <2>4, <4>5 DEF Follows
      <4> QED
        BY <3>1, <4>1, <4>2, <4>3, <4>4, <4>5
  <2>8. IsBatch(x, name, v)
    <3>1. \A k \in DOMAIN x : x[k].do \in Inner /\ x[k].do # "delete-snapshot"
      BY <2>6 DEF Inner, Creating
    <3> QED
      BY <2>4, <2>5, <2>6, <2>7, <3>1 DEF IsBatch
  <2>9. ASSUME NEW k \in 1 .. 6, Opens(x[k])
        PROVE  k + 1 \in 1 .. 6 /\ Follows(x[k], x[k + 1])
    <3>1. k # 6
      BY <1>1, <2>4, <2>9 DEF Opens
    <3>2. k + 1 \in 1 .. 6 /\ k + 1 > 1 /\ (k + 1) - 1 = k
      BY <3>1
    <3>3. Follows(x[(k + 1) - 1], x[k + 1])
      BY <2>5, <2>7, <3>2
    <3> QED
      BY <3>2, <3>3
  <2>10. Closed(x)
    BY <2>5, <2>9 DEF Closed
  <2> QED
    BY <1>1, <1>3, <2>4, <2>6, <2>8, <2>10 DEF x
<1> QED
  BY <1>2, <1>3

LEMMA HalfOf ==
  ASSUME NEW n \in Nat, NEW k \in 1 .. 2 * n
  PROVE  /\ (k + 1) \div 2 \in 1 .. n
         /\ k % 2 = 1 => k < 2 * n /\ (k + 1) % 2 # 1 /\ (k + 2) \div 2 = (k + 1) \div 2
         /\ k % 2 # 1 => (k + 1) % 2 = 1
OBVIOUS

LEMMA OddOf ==
  ASSUME NEW n \in Nat, NEW j \in 1 .. n
  PROVE  2 * j - 1 \in 1 .. 2 * n /\ (2 * j - 1) % 2 = 1 /\ ((2 * j - 1) + 1) \div 2 = j
OBVIOUS

LEMMA NumberedAre ==
  ASSUME NEW name, NEW v, IsFiniteSet(NumberedSnapshotDirs(v))
  PROVE  LET x == DeleteNumbered(name, v)
             n == Cardinality(NumberedSnapshotDirs(v))
         IN /\ IsSteps(x) /\ n \in Nat /\ Len(x) = 2 * n
            /\ \A k \in 1 .. 2 * n :
                 /\ k % 2 = 1 => x[k].do = "delete-snapshot"
                 /\ k % 2 # 1 => x[k].do = "rmtree"
                 /\ x[k].arg = name /\ x[k].subvolume = v
            /\ \A k \in 1 .. 2 * n : k > 1 => Follows(x[k - 1], x[k])
            /\ \A number \in NumberedSnapshotDirs(v) : \E k \in 1 .. 2 * n :
                 x[k].do = "delete-snapshot" /\ x[k].number = number
<1> DEFINE dirs == NumberedSnapshotDirs(v)
           n == Cardinality(dirs)
           numbers == SetToSeq(dirs)
           do(k) == IF k % 2 = 1 THEN "delete-snapshot" ELSE "rmtree"
           step(k) == SnapperStep(do(k), name, v, numbers[(k + 1) \div 2])
           x == [k \in 1 .. 2 * n |-> step(k)]
           S == {step(k) : k \in 1 .. 2 * n}
<1>1. /\ n \in Nat /\ numbers \in [1 .. n -> dirs]
      /\ \A d \in dirs : \E i \in 1 .. n : numbers[i] = d
  BY InOrder
<1>2. DeleteNumbered(name, v) = x
  BY DEF DeleteNumbered
<1>3. \A k : /\ step(k).do = do(k) /\ step(k).arg = name /\ step(k).subvolume = v
             /\ step(k).number = numbers[(k + 1) \div 2]
  BY DEF SnapperStep
<1> HIDE DEF n, numbers, dirs, step
<1>4. x \in [1 .. 2 * n -> S] /\ 2 * n \in Nat
  BY <1>1
<1>5. x \in Seq(S) /\ Len(x) = 2 * n
  <2>1. PICK last \in Nat : last = 2 * n
    BY <1>4
  <2>2. x \in [1 .. last -> S]
    BY <1>4, <2>1
  <2> HIDE DEF x, S
  <2>3. x \in Seq(S)
    BY <2>1, <2>2, SeqDef
  <2>4. DOMAIN x = 1 .. last
    BY <2>2
  <2>5. Len(x) = last
    BY <2>1, <2>3, <2>4, LenProperties
  <2> QED
    BY <2>1, <2>3, <2>5
<1>6. IsSteps(x)
  BY <1>5 DEF IsSteps
<1>7. \A k \in 1 .. 2 * n : x[k] = step(k)
  OBVIOUS
<1> HIDE DEF x, S
<1>8. ASSUME NEW k \in 1 .. 2 * n, k > 1
      PROVE  Follows(x[k - 1], x[k])
  <2>1. k - 1 \in 1 .. 2 * n /\ (k - 1) + 1 = k /\ (k - 1) + 2 = k + 1
    BY <1>1, <1>8
  <2>2. x[k] = step(k) /\ x[k - 1] = step(k - 1)
    BY <1>7, <2>1
  <2>3. CASE k % 2 = 1
    <3>1. (k - 1) % 2 # 1
      BY <1>1, <1>8, <2>3
    <3> QED
      BY <1>3, <2>2, <2>3, <3>1 DEF Follows
  <2>4. CASE k % 2 # 1
    <3>1. (k - 1) % 2 = 1 /\ k \div 2 = (k + 1) \div 2
      BY <1>1, <1>8, <2>4
    <3>2. step(k - 1).number = numbers[k \div 2] /\ step(k).number = numbers[k \div 2]
      BY <1>3, <2>1, <3>1
    <3> QED
      BY <1>3, <2>2, <2>4, <3>1, <3>2 DEF Follows
  <2> QED
    BY <2>3, <2>4
<1>9. ASSUME NEW number \in dirs
      PROVE  \E k \in 1 .. 2 * n : x[k].do = "delete-snapshot" /\ x[k].number = number
  <2>1. PICK i \in 1 .. n : numbers[i] = number
    BY <1>1
  <2>2. 2 * i - 1 \in 1 .. 2 * n /\ (2 * i - 1) % 2 = 1 /\ ((2 * i - 1) + 1) \div 2 = i
    BY <1>1, OddOf
  <2>3. x[2 * i - 1].do = "delete-snapshot" /\ x[2 * i - 1].number = number
    BY <1>3, <1>7, <2>1, <2>2
  <2> QED
    BY <2>2, <2>3
<1>10. \A k \in 1 .. 2 * n : /\ k % 2 = 1 => x[k].do = "delete-snapshot"
                             /\ k % 2 # 1 => x[k].do = "rmtree"
                             /\ x[k].arg = name /\ x[k].subvolume = v
  BY <1>3, <1>7
<1>11. DeleteNumbered(name, v) = x
  BY <1>2 DEF x, step, n, numbers, dirs
<1> QED
  BY <1>1, <1>5, <1>6, <1>8, <1>9, <1>10, <1>11 DEF n, dirs

LEMMA DeleteBatch ==
  ASSUME NEW name, NEW v, IsFiniteSet(NumberedSnapshotDirs(v))
  PROVE  LET x == DeleteSteps(name, v)
         IN /\ IsBatch(x, name, v)
            /\ x[1].do \in {"delete-snapshot", "delete-container"}
            /\ \A k \in DOMAIN x : x[k].do \in Deleting \cup {"remove-config", "unlist"}
            /\ \A number \in NumberedSnapshotDirs(v) : \E k \in DOMAIN x :
                 x[k].do = "delete-snapshot" /\ x[k].number = number
<1> DEFINE a == SnapperStep("delete-container", name, v, 0)
           b == SnapperStep("remove-config", name, v, 0)
           c == SnapperStep("unlist", name, v, 0)
           last == <<a, b, c>>
           all == DeleteNumbered(name, v)
           m == 2 * Cardinality(NumberedSnapshotDirs(v))
           x == all \o last
<1>1. /\ IsSteps(all) /\ m \in Nat /\ Len(all) = m
      /\ \A k \in 1 .. m : /\ k % 2 = 1 => all[k].do = "delete-snapshot"
                           /\ k % 2 # 1 => all[k].do = "rmtree"
                           /\ all[k].arg = name /\ all[k].subvolume = v
      /\ \A k \in 1 .. m : k > 1 => Follows(all[k - 1], all[k])
      /\ \A number \in NumberedSnapshotDirs(v) : \E k \in 1 .. m :
           all[k].do = "delete-snapshot" /\ all[k].number = number
  BY NumberedAre
<1>2. m % 2 = 0
  <2>1. Cardinality(NumberedSnapshotDirs(v)) \in Nat
    BY FS_CardinalityType
  <2> QED
    BY <2>1
<1>3. /\ a.do = "delete-container" /\ b.do = "remove-config" /\ c.do = "unlist"
      /\ \A s \in {a, b, c} : s.arg = name /\ s.subvolume = v
  BY DEF SnapperStep
<1>4. DeleteSteps(name, v) = x
  BY DEF DeleteSteps
<1> HIDE DEF a, b, c, m, all
<1>5. /\ last \in Seq({a, b, c}) /\ Len(last) = 3 /\ last[1] = a /\ last[2] = b /\ last[3] = c
  OBVIOUS
<1>6. IsSteps(last)
  BY <1>5 DEF IsSteps
<1> HIDE DEF last
<1>7. /\ IsSteps(x) /\ Len(x) = m + 3 /\ DOMAIN x = 1 .. m + 3
      /\ \A k \in 1 .. m : x[k] = all[k]
      /\ \A k \in 1 .. 3 : x[m + k] = last[k]
  <2>1. IsSteps(all) /\ IsSteps(last)
    BY <1>1, <1>6
  <2>2. /\ IsSteps(all \o last) /\ Len(all \o last) = Len(all) + Len(last)
        /\ DOMAIN (all \o last) = 1 .. Len(all) + Len(last)
        /\ \A k \in 1 .. Len(all) : (all \o last)[k] = all[k]
        /\ \A k \in 1 .. Len(last) : (all \o last)[Len(all) + k] = last[k]
    BY <2>1, JoinIs, SMTT(30)
  <2>3. Len(all) = m /\ Len(last) = 3
    BY <1>1, <1>5
  <2> QED
    BY <2>2, <2>3
<1> HIDE DEF x
<1>8. x[m + 1] = a /\ x[m + 2] = b /\ x[m + 3] = c
  BY <1>5, <1>7
<1>9. \A k \in 1 .. m + 3 : k \in 1 .. m \/ k = m + 1 \/ k = m + 2 \/ k = m + 3
  BY <1>1
<1>10. ASSUME NEW k \in 1 .. m + 3
       PROVE  /\ x[k].do \in Deleting \cup {"remove-config", "unlist"}
              /\ x[k].arg = name /\ x[k].subvolume = v
  <2>1. CASE k \in 1 .. m
    BY <1>1, <1>7, <2>1 DEF Deleting
  <2>2. CASE k = m + 1 \/ k = m + 2 \/ k = m + 3
    BY <1>3, <1>8, <2>2 DEF Deleting
  <2> QED
    BY <1>9, <2>1, <2>2
<1>11. ASSUME NEW k \in 1 .. m + 3, k > 1
       PROVE  Follows(x[k - 1], x[k])
  <2>1. CASE k \in 1 .. m
    <3>1. k - 1 \in 1 .. m
      BY <1>1, <1>11, <2>1
    <3> QED
      BY <1>1, <1>7, <1>11, <2>1, <3>1
  <2>2. CASE k = m + 1
    <3>1. m \in 1 .. m /\ k - 1 = m /\ m % 2 # 1
      BY <1>1, <1>2, <1>11, <2>2
    <3>2. x[k - 1].do = "rmtree" /\ x[k - 1].arg = name /\ x[k - 1].subvolume = v
      BY <1>1, <1>7, <3>1
    <3>3. x[k] = a
      BY <1>8, <2>2
    <3> QED
      BY <1>3, <3>2, <3>3 DEF Follows
  <2>3. CASE k = m + 2
    <3>1. x[k - 1] = a /\ x[k] = b
      BY <1>1, <1>8, <2>3
    <3> QED
      BY <1>3, <3>1 DEF Follows
  <2>4. CASE k = m + 3
    <3>1. x[k - 1] = b /\ x[k] = c
      BY <1>1, <1>8, <2>4
    <3> QED
      BY <1>3, <3>1 DEF Follows
  <2> QED
    BY <1>9, <2>1, <2>2, <2>3, <2>4
<1>12. ASSUME NEW j \in 1 .. m + 3, NEW k \in 1 .. m + 3, j < k, x[k].do = "delete-snapshot"
       PROVE  x[j].do \in {"delete-snapshot", "rmtree"}
  <2>1. k \in 1 .. m
    BY <1>3, <1>8, <1>9, <1>12
  <2>2. j \in 1 .. m
    BY <1>1, <1>12, <2>1
  <2> QED
    BY <1>1, <1>7, <2>2
<1>13. IsBatch(x, name, v)
  <2>1. Len(x) > 0
    BY <1>1, <1>7
  <2> QED
    BY <1>7, <1>10, <1>11, <1>12, <2>1 DEF IsBatch, Inner
<1>14. x[1].do \in {"delete-snapshot", "delete-container"}
  <2>1. CASE m = 0
    BY <1>3, <1>8, <2>1
  <2>2. CASE m > 0
    <3>1. 1 \in 1 .. m /\ 1 % 2 = 1
      BY <1>1, <2>2
    <3> QED
      BY <1>1, <1>7, <3>1
  <2> QED
    BY <1>1, <2>1, <2>2
<1>15. ASSUME NEW number \in NumberedSnapshotDirs(v)
       PROVE  \E k \in DOMAIN x : x[k].do = "delete-snapshot" /\ x[k].number = number
  <2>1. PICK k \in 1 .. m : all[k].do = "delete-snapshot" /\ all[k].number = number
    BY <1>1
  <2>2. k \in DOMAIN x /\ x[k] = all[k]
    BY <1>1, <1>7, <2>1
  <2> QED
    BY <2>1, <2>2
<1> QED
  BY <1>4, <1>7, <1>10, <1>13, <1>14, <1>15

-----------------------------------------------------------------------------
(***************************************************************************)
(* Types are kept                                                          *)
(***************************************************************************)

\* Every step but those that put others in their place.
LEMMA TailSteps ==
  ASSUME IsSteps(todo), StepsSound, todo # <<>>, todo' = Tail(todo), doc' = doc,
         \A n \in DOMAIN configs :
           \/ n \in DOMAIN configs'
           \/ Head(todo).do = "remove-config" /\ Head(todo).arg = n
  PROVE  IsSteps(todo') /\ StepsSound'
<1> DEFINE t == Tail(todo)
           m == Len(todo)
<1>1. /\ IsSteps(t) /\ m \in Nat /\ DOMAIN todo = 1 .. m /\ DOMAIN t = 1 .. m - 1 /\ m >= 1
      /\ Head(todo) = todo[1]
      /\ \A k \in 1 .. m - 1 : t[k] = todo[k + 1]
  BY TailIs, StepsAre
<1> HIDE DEF t, m
<1>2. \A k \in 1 .. m - 1 : k + 1 \in 1 .. m /\ 1 < k + 1 /\ 1 \in 1 .. m
  BY <1>1
<1>3. todo' = t
  BY DEF t
<1>4. ASSUME NEW k \in 1 .. m - 1
      PROVE  /\ t[k].do \in Inner => t[k].subvolume \in Subvolumes
             /\ t[k].do = "create" => t[k].arg \in DOMAIN doc.snapper
             /\ t[k].do = "remove" => t[k].arg \in DOMAIN configs' \ DOMAIN doc.snapper
  <2>1. t[k] = todo[k + 1] /\ k + 1 \in DOMAIN todo /\ 1 \in DOMAIN todo /\ 1 < k + 1
    BY <1>1, <1>2
  <2>2. t[k].do = "remove" => todo[1].do # "remove-config" \/ todo[1].arg # t[k].arg
    BY <2>1 DEF StepsSound
  <2>3. t[k].do = "remove" => t[k].arg \in DOMAIN configs \ DOMAIN doc.snapper
    BY <2>1 DEF StepsSound
  <2> QED
    BY <1>1, <2>1, <2>2, <2>3 DEF StepsSound
<1>5. ASSUME NEW j \in 1 .. m - 1, NEW k \in 1 .. m - 1, j < k, t[k].do = "remove",
             t[j].do \in Deleting \cup {"remove", "remove-config"}
      PROVE  t[j].arg # t[k].arg
  <2>1. t[j] = todo[j + 1] /\ t[k] = todo[k + 1] /\ j + 1 < k + 1
    BY <1>1, <1>5
  <2>2. j + 1 \in DOMAIN todo /\ k + 1 \in DOMAIN todo
    BY <1>1, <1>2
  <2> QED
    BY <1>5, <2>1, <2>2 DEF StepsSound
<1>6. DOMAIN (todo') = 1 .. m - 1
  BY <1>1, <1>3
<1>7. \A k \in DOMAIN (todo') : k \in 1 .. m - 1 /\ (todo')[k] = t[k]
  BY <1>3, <1>6
<1>8. StepsSound'
  <2>1. \A k \in DOMAIN (todo') :
          /\ (todo')[k].do \in Inner => (todo')[k].subvolume \in Subvolumes
          /\ (todo')[k].do = "create" => (todo')[k].arg \in DOMAIN (doc').snapper
          /\ (todo')[k].do = "remove" => (todo')[k].arg \in DOMAIN (configs') \ DOMAIN (doc').snapper
    BY <1>4, <1>7
  <2>2. \A j, k \in DOMAIN (todo') :
          /\ j < k /\ (todo')[k].do = "remove"
          /\ (todo')[j].do \in Deleting \cup {"remove", "remove-config"}
          => (todo')[j].arg # (todo')[k].arg
    BY <1>5, <1>7
  <2> QED
    BY <2>1, <2>2 DEF StepsSound
<1> QED
  BY <1>1, <1>3, <1>8

\* Those that do: the batch is of the name that the step was of.
LEMMA BatchSteps ==
  ASSUME IsSteps(todo), StepsSound, todo # <<>>, NEW x, NEW v \in Subvolumes,
         IsBatch(x, Head(todo).arg, v), todo' = x \o Tail(todo), doc' = doc, configs' = configs,
         \/ Head(todo).do = "remove"
         \/ \A k \in DOMAIN x : x[k].do \notin Deleting \cup {"remove-config"}
  PROVE  IsSteps(todo') /\ StepsSound'
<1> DEFINE t == Tail(todo)
           m == Len(todo)
           n == Len(x)
           y == x \o t
<1>1. /\ IsSteps(t) /\ m \in Nat /\ DOMAIN todo = 1 .. m /\ DOMAIN t = 1 .. m - 1 /\ m >= 1
      /\ Len(t) = m - 1
      /\ Head(todo) = todo[1]
      /\ \A k \in 1 .. m - 1 : t[k] = todo[k + 1]
  BY TailIs, StepsAre
<1>2. n \in Nat /\ DOMAIN x = 1 .. n /\ IsSteps(x)
  BY StepsAre DEF IsBatch
<1>3. todo' = y
  OBVIOUS
<1> HIDE DEF t
<1>4. /\ IsSteps(y) /\ DOMAIN y = 1 .. n + (m - 1)
      /\ \A k \in 1 .. n : y[k] = x[k]
      /\ \A k \in 1 .. n + (m - 1) : k > n => y[k] = t[k - n]
  <2>1. /\ IsSteps(y) /\ DOMAIN y = 1 .. n + Len(t)
        /\ \A k \in 1 .. n : y[k] = x[k]
        /\ \A k \in 1 .. n + Len(t) : k > n => y[k] = t[k - n]
    <3>1. IsSteps(x) /\ IsSteps(t)
      BY <1>1, <1>2
    <3>2. IsSteps(x \o t) /\ DOMAIN (x \o t) = 1 .. Len(x) + Len(t)
      BY <3>1, JoinIs, Zenon
    <3>3. \A k \in 1 .. Len(x) : (x \o t)[k] = x[k]
      BY <3>1, JoinBegins, Zenon
    <3>4. \A k \in 1 .. Len(x) + Len(t) : k > Len(x) => (x \o t)[k] = t[k - Len(x)]
      BY <3>1, JoinIs, Zenon
    <3> QED
      BY <3>2, <3>3, <3>4
  <2>2. Len(t) = m - 1
    BY <1>1
  <2> QED
    BY <2>1, <2>2
<1> HIDE DEF y, m, n
<1>5. ASSUME NEW k \in 1 .. n + (m - 1), k > n
      PROVE  (k - n) + 1 \in 1 .. m /\ 1 < (k - n) + 1 /\ y[k] = todo[(k - n) + 1]
  BY <1>1, <1>2, <1>4, <1>5
<1>6. ASSUME NEW k \in 1 .. n + (m - 1), k <= n
      PROVE  /\ y[k].do \in Inner /\ y[k].arg = todo[1].arg /\ y[k].subvolume = v
             /\ y[k].do \in Deleting \cup {"remove-config"} => todo[1].do = "remove"
  <2>1. k \in DOMAIN x /\ y[k] = x[k]
    BY <1>2, <1>4, <1>6
  <2> QED
    BY <1>1, <2>1 DEF IsBatch
<1>7. "create" \notin Inner /\ "remove" \notin Inner
  BY DEF Inner, Creating, Deleting
<1>8. ASSUME NEW k \in 1 .. n + (m - 1)
      PROVE  /\ y[k].do \in Inner => y[k].subvolume \in Subvolumes
             /\ y[k].do = "create" => y[k].arg \in DOMAIN doc.snapper
             /\ y[k].do = "remove" => y[k].arg \in DOMAIN configs \ DOMAIN doc.snapper
  <2>1. CASE k <= n
    BY <1>6, <1>7, <2>1
  <2>2. CASE k > n
    BY <1>1, <1>5, <2>2 DEF StepsSound
  <2> QED
    BY <1>2, <2>1, <2>2
<1>9. ASSUME NEW j \in 1 .. n + (m - 1), NEW k \in 1 .. n + (m - 1), j < k, y[k].do = "remove",
             y[j].do \in Deleting \cup {"remove", "remove-config"}
      PROVE  y[j].arg # y[k].arg
  <2>1. k > n
    <3>1. k <= n => y[k].do \in Inner
      BY <1>6
    <3> QED
      BY <1>2, <1>7, <1>9, <3>1
  <2>2. (k - n) + 1 \in DOMAIN todo /\ 1 \in DOMAIN todo /\ 1 < (k - n) + 1 /\ y[k] = todo[(k - n) + 1]
    <3>1. (k - n) + 1 \in 1 .. m /\ 1 < (k - n) + 1 /\ y[k] = todo[(k - n) + 1]
      BY <1>5, <2>1
    <3>2. 1 \in 1 .. m
      BY <1>1
    <3> QED
      BY <1>1, <3>1, <3>2
  <2>3. CASE j <= n
    <3>1. y[j].do \in Inner
      BY <1>6, <2>3
    <3>2. y[j].arg = todo[1].arg /\ todo[1].do = "remove"
      BY <1>6, <1>7, <1>9, <2>3, <3>1
    <3> QED
      BY <1>9, <2>2, <3>2 DEF StepsSound
  <2>4. CASE j > n
    <3>1. (j - n) + 1 \in DOMAIN todo /\ y[j] = todo[(j - n) + 1]
      BY <1>1, <1>5, <2>4
    <3>2. (j - n) + 1 < (k - n) + 1
      BY <1>2, <1>9
    <3> QED
      BY <1>9, <2>2, <3>1, <3>2 DEF StepsSound
  <2> QED
    BY <1>2, <2>3, <2>4
<1>10. /\ IsSteps(todo') /\ DOMAIN todo' = 1 .. n + (m - 1)
       /\ \A k \in 1 .. n + (m - 1) : (todo')[k] = y[k]
  BY <1>3, <1>4
<1>11. \A k \in DOMAIN todo' :
         /\ (todo')[k].do \in Inner => (todo')[k].subvolume \in Subvolumes
         /\ (todo')[k].do = "create" => (todo')[k].arg \in DOMAIN doc'.snapper
         /\ (todo')[k].do = "remove" => (todo')[k].arg \in DOMAIN configs' \ DOMAIN doc'.snapper
  BY <1>8, <1>10
<1>12. \A j, k \in DOMAIN todo' :
         /\ j < k /\ (todo')[k].do = "remove"
         /\ (todo')[j].do \in Deleting \cup {"remove", "remove-config"}
         => (todo')[j].arg # (todo')[k].arg
  <2> SUFFICES ASSUME NEW j \in DOMAIN todo', NEW k \in DOMAIN todo', j < k, (todo')[k].do = "remove",
                      (todo')[j].do \in Deleting \cup {"remove", "remove-config"}
               PROVE  (todo')[j].arg # (todo')[k].arg
    OBVIOUS
  <2>1. j \in 1 .. n + (m - 1) /\ k \in 1 .. n + (m - 1) /\ (todo')[j] = y[j] /\ (todo')[k] = y[k]
    BY <1>10
  <2> QED
    BY <1>9, <2>1
<1>13. StepsSound'
  BY <1>11, <1>12 DEF StepsSound
<1> QED
  BY <1>10, <1>13

LEMMA FinitePlan ==
  ASSUME Base
  PROVE  LET p == Planned(doc)
         IN /\ IsFiniteSet(p.snapper.add) /\ p.snapper.add \subseteq DOMAIN doc.snapper
            /\ IsFiniteSet(p.snapper.drop) /\ p.snapper.drop \subseteq DOMAIN configs \ DOMAIN doc.snapper
            /\ IsFiniteSet(p.firewall.add) /\ IsFiniteSet(p.firewall.drop)
            /\ p.firewall.backend \in {"ufw", "firewalld"}
<1> DEFINE f == doc.firewall
           s == PlanSnapper(doc.snapper)
           w == PlanFirewall(f)
<1>1. /\ IsFiniteSet(ManagedFirewall(f)) /\ IsFiniteSet(DOMAIN doc.snapper)
      /\ f.backend \in {"ufw", "firewalld"} /\ f.enable \in BOOLEAN
      /\ IsFiniteSet(ownedSnapper) /\ IsFiniteSet(ownedFirewall)
      /\ recorded \in {"none", "ufw", "firewalld"}
  BY DEF Base, DocumentOK, DiskTypes, FirewallTypes
<1>2. /\ s.add \subseteq DOMAIN doc.snapper
      /\ s.drop \subseteq ownedSnapper /\ s.drop \subseteq DOMAIN configs \ DOMAIN doc.snapper
  BY DEF PlanSnapper
<1>3. IsFiniteSet(s.add) /\ IsFiniteSet(s.drop)
  BY <1>1, <1>2, FS_Subset
<1>4. ResolvedBackend(f, ownedFirewall) \in {"ufw", "firewalld"}
  BY <1>1 DEF ResolvedBackend
<1>5. f.enable => ResolvedBackend(f, ownedFirewall) = f.backend
  BY <1>1 DEF ResolvedBackend
<1>6. /\ w.add \subseteq ManagedFirewall(f) /\ w.drop \subseteq ownedFirewall
      /\ w.backend \in {"ufw", "firewalld"}
  <2>1. CASE ResolvedBackend(f, ownedFirewall) = "ufw"
    <3>1. w = PlanUfw(f, ownedFirewall)
      BY <2>1 DEF PlanFirewall
    <3>2. f.enable => ManagedFirewall(f) = DesiredUfwRules(f)
      BY <1>1, <1>5, <2>1 DEF ManagedFirewall
    <3> QED
      BY <1>1, <3>1, <3>2 DEF PlanUfw
  <2>2. CASE ResolvedBackend(f, ownedFirewall) = "firewalld" /\ ~f.enable
    <3>1. w = PlanFirewalldDisabled(ownedFirewall)
      BY <2>2 DEF PlanFirewall
    <3> QED
      BY <3>1 DEF PlanFirewalldDisabled
  <2>3. CASE ResolvedBackend(f, ownedFirewall) = "firewalld" /\ f.enable
    <3>1. w = [backend |-> "firewalld", add |-> {z \in DeclaredZones(f) : ~SameZone(f, z)},
               drop |-> (ownedFirewall \ DeclaredZones(f)) \cap CustomisedZones]
      BY <2>3 DEF PlanFirewall
    <3>2. ManagedFirewall(f) = DeclaredZones(f)
      BY <1>5, <2>3 DEF ManagedFirewall
    <3> QED
      BY <3>1, <3>2
  <2> QED
    BY <1>4, <2>1, <2>2, <2>3
<1>7. IsFiniteSet(w.add) /\ IsFiniteSet(w.drop)
  BY <1>1, <1>6, FS_Subset
<1>8. Planned(doc).snapper = s /\ Planned(doc).firewall = w
  BY DEF Planned
<1> QED
  BY <1>2, <1>3, <1>6, <1>7, <1>8

\* What the actions have in common: seven take the step they have done off the list, two put
\* others in its place.
Took ==
  /\ pc = "running" /\ pc' = pc /\ todo # <<>> /\ todo' = Tail(todo)
  /\ doc' = doc /\ docs' = docs /\ settled' = settled

Working == InstallSnapper \/ SnapperCommand \/ Zone \/ Reload \/ Ufw \/ Packages \/ Units
Unfolding == Create \/ RemoveUndeclared
Resting == EditDoc \/ Sync \/ Hand \/ Snapshot \/ Reboot

LEMMA Actions ==
  ASSUME [Next]_vars
  PROVE  StartApply \/ Finish \/ Fail \/ Die \/ Working \/ Unfolding \/ Resting \/ UNCHANGED vars
BY DEF Next, Working, Unfolding, Resting

LEMMA WorkingTakes ==
  ASSUME Working
  PROVE  Took
BY DEF Working, Took, InstallSnapper, SnapperCommand, Zone, Reload, Ufw, Packages, Units, Now, Proceed,
       SnapperOnly, FirewallOnly, Same

LEMMA WorkingConfigs ==
  ASSUME Working
  PROVE  \/ Command(Head(todo)) /\ SnapperCommand
         \/ UNCHANGED snapperDisk
<1>1. CASE SnapperCommand
  BY <1>1 DEF SnapperCommand, Command
<1>2. CASE ~SnapperCommand
  BY <1>2 DEF Working, InstallSnapper, Zone, Reload, Ufw, Packages, Units, FirewallOnly, snapperVars
<1> QED
  BY <1>1, <1>2

LEMMA UnfoldingPuts ==
  ASSUME Base, Unfolding
  PROVE  /\ pc = "running" /\ pc' = pc /\ todo # <<>> /\ doc' = doc /\ docs' = docs /\ settled' = settled
         /\ UNCHANGED snapperVars /\ UNCHANGED firewallVars /\ backend' = backend /\ UNCHANGED ghosts
         /\ \E x, v : /\ v \in Subvolumes /\ IsBatch(x, Head(todo).arg, v) /\ todo' = x \o Tail(todo)
                      /\ \/ /\ Head(todo).do = "create" /\ v = doc.snapper[Head(todo).arg]
                            /\ x = CreateSteps(Head(todo).arg, v)
                            /\ \A k \in DOMAIN x : x[k].do \in {"umount"} \cup Creating
                         \/ /\ Head(todo).do = "remove" /\ v = configs[Head(todo).arg]
                            /\ x = DeleteSteps(Head(todo).arg, v)
                            /\ \A k \in DOMAIN x : x[k].do \in Inner
<1> DEFINE h == Head(todo)
<1>1. /\ pc = "running" /\ pc' = pc /\ todo # <<>> /\ doc' = doc /\ docs' = docs /\ settled' = settled
      /\ UNCHANGED snapperVars /\ UNCHANGED firewallVars /\ backend' = backend /\ UNCHANGED ghosts
  BY DEF Unfolding, Create, RemoveUndeclared, Now, SnapperOnly, Same, snapperVars, firewallVars
<1>2. h = todo[1] /\ 1 \in DOMAIN todo
  <2>1. IsSteps(todo)
    BY DEF Base
  <2>2. h = todo[1] /\ Len(todo) >= 1 /\ DOMAIN todo = 1 .. Len(todo) /\ Len(todo) \in Nat
    BY <1>1, <2>1, TailIs, StepsAre
  <2> QED
    BY <2>2
<1>3. CASE Create
  <2> DEFINE v == doc.snapper[h.arg]
             x == CreateSteps(h.arg, v)
  <2>1. h.do = "create" /\ todo' = x \o Tail(todo)
    BY <1>3 DEF Create, Now
  <2>2. v \in Subvolumes
    <3>1. h.arg \in DOMAIN doc.snapper
      BY <1>2, <2>1 DEF Base, StepsSound
    <3>2. Range(doc.snapper) \subseteq Subvolumes
      BY DEF Base, DocumentOK
    <3> QED
      BY <3>1, <3>2 DEF Range
  <2>3. IsBatch(x, h.arg, v) /\ \A k \in DOMAIN x : x[k].do \in {"umount"} \cup Creating
    BY CreateBatch DEF Base, DiskTypes
  <2> QED
    BY <1>1, <2>1, <2>2, <2>3
<1>4. CASE RemoveUndeclared
  <2> DEFINE v == configs[h.arg]
             x == DeleteSteps(h.arg, v)
  <2>1. h.do = "remove" /\ todo' = x \o Tail(todo) /\ v # Unreadable
    BY <1>4 DEF RemoveUndeclared, Now, ReadSubvolume
  <2>2. v \in Subvolumes
    BY <1>2, <2>1 DEF Base, StepsSound, DiskTypes
  <2>3. IsFiniteSet(NumberedSnapshotDirs(v))
    BY <2>2, SideType, FS_EmptySet DEF NumberedSnapshotDirs, Base, DiskTypes
  <2>4. IsBatch(x, h.arg, v)
    BY <2>3, DeleteBatch
  <2>5. \A k \in DOMAIN x : x[k].do \in Inner
    BY <2>4 DEF IsBatch
  <2> QED
    BY <1>1, <2>1, <2>2, <2>4, <2>5
<1> QED
  BY <1>3, <1>4 DEF Unfolding

LEMMA RestingRests ==
  ASSUME Resting
  PROVE  /\ pc = "idle" /\ pc' = pc /\ todo' = todo /\ docs' = docs /\ backend' = backend /\ pending' = pending
         /\ settled' \in {FALSE, settled}
BY DEF Resting, EditDoc, Sync, Hand, Snapshot, Reboot, Idle

LEMMA ControlKept ==
  ASSUME Base, [Next]_vars
  PROVE  /\ IsSteps(todo') /\ pc' \in {"idle", "running"}
         /\ (pc' = "idle" => todo' = <<>>) /\ (settled' => pc' = "idle")
         /\ StepsSound'
<1>1. /\ IsSteps(todo) /\ pc \in {"idle", "running"} /\ (pc = "idle" => todo = <<>>)
      /\ (settled => pc = "idle") /\ StepsSound
  BY DEF Base
<1>2. IsSteps(<<>>) /\ DOMAIN <<>> = {}
  <2>1. <<>> \in Seq({})
    BY EmptySeq
  <2> QED
    BY <2>1 DEF IsSteps
<1>3. ASSUME todo' = <<>>
      PROVE  StepsSound'
  <2>1. DOMAIN (todo') = {}
    BY <1>2, <1>3
  <2> QED
    BY <2>1 DEF StepsSound
<1>4. CASE StartApply
  <2> DEFINE p == Planned(doc)
  <2>1. /\ todo' = StepsOf(p) /\ pc' = "running" /\ settled' = FALSE /\ doc' = doc /\ configs' = configs
    BY <1>4 DEF StartApply, snapperVars, snapperDisk
  <2>2. /\ IsFiniteSet(p.snapper.add) /\ p.snapper.add \subseteq DOMAIN doc.snapper
        /\ IsFiniteSet(p.snapper.drop) /\ p.snapper.drop \subseteq DOMAIN configs \ DOMAIN doc.snapper
        /\ IsFiniteSet(p.firewall.add) /\ IsFiniteSet(p.firewall.drop)
    BY FinitePlan
  <2>3. IsPlan(StepsOf(p), p.snapper.add, p.snapper.drop)
    BY <2>2, WholePlan
  <2> DEFINE t == StepsOf(p)
             A == p.snapper.add
             D == p.snapper.drop
  <2>4. IsPlan(t, A, D) /\ A \subseteq DOMAIN doc.snapper /\ D \subseteq DOMAIN configs \ DOMAIN doc.snapper
        /\ todo' = t
    BY <2>1, <2>2, <2>3
  <2> HIDE DEF t, A, D, p
  <2>5. \A k \in DOMAIN t : /\ t[k].do \notin Inner
                            /\ t[k].do = "create" => t[k].arg \in DOMAIN doc.snapper
                            /\ t[k].do = "remove" => t[k].arg \in DOMAIN configs \ DOMAIN doc.snapper
    BY <2>4 DEF IsPlan
  <2>6. DOMAIN t = 1 .. Len(t) /\ Len(t) \in Nat
    BY <2>4, StepsAre DEF IsPlan
  <2>7. ASSUME NEW j \in DOMAIN t, NEW k \in DOMAIN t, j < k, t[k].do = "remove",
               t[j].do \in Deleting \cup {"remove", "remove-config"}
        PROVE  t[j].arg # t[k].arg
    <3>1. t[j].do = "remove"
      BY <2>5, <2>7 DEF Inner
    <3>2. t[j].arg = t[k].arg => j = k
      BY <2>4, <2>7, <3>1 DEF IsPlan
    <3> QED
      BY <2>6, <2>7, <3>2
  <2>8. StepsSound'
    BY <2>1, <2>4, <2>5, <2>7 DEF StepsSound
  <2> QED
    BY <2>1, <2>4, <2>8 DEF IsPlan
<1>5. CASE Finish
  <2>1. todo = <<>> /\ todo' = todo /\ pc' = "idle"
    BY <1>5 DEF Finish
  <2> QED
    BY <1>1, <1>3, <2>1
<1>6. CASE Fail \/ Die
  <2>1. todo' = <<>> /\ pc' = "idle"
    BY <1>6 DEF Fail, Die, Stop
  <2> QED
    BY <1>2, <1>3, <2>1
<1>7. CASE Working
  <2>1. Took
    BY <1>7, WorkingTakes
  <2>2. \A n \in DOMAIN configs :
           \/ n \in DOMAIN configs'
           \/ Head(todo).do = "remove-config" /\ Head(todo).arg = n
    <3>1. CASE UNCHANGED snapperDisk
      BY <3>1 DEF snapperDisk
    <3>2. CASE Command(Head(todo))
      <4>1. CASE Head(todo).do = "create-config"
        BY <3>2, <4>1, CommandConfigs
      <4>2. CASE Head(todo).do = "remove-config"
        <5>1. configs' = Restrict(configs, DOMAIN configs \ {Head(todo).arg})
          BY <3>2, <4>2, CommandConfigs
        <5>2. DOMAIN configs' = DOMAIN configs \ {Head(todo).arg}
          BY <5>1 DEF Restrict
        <5> QED
          BY <4>2, <5>2
      <4>3. CASE Head(todo).do \notin {"create-config", "remove-config"}
        BY <3>2, <4>3, CommandConfigs
      <4> QED
        BY <4>1, <4>2, <4>3
    <3> QED
      BY <1>7, <3>1, <3>2, WorkingConfigs
  <2>3. IsSteps(todo') /\ StepsSound'
    BY <1>1, <2>1, <2>2, TailSteps DEF Took
  <2> QED
    BY <1>1, <2>1, <2>3 DEF Took
<1>8. CASE Unfolding
  <2>1. /\ pc = "running" /\ pc' = pc /\ todo # <<>> /\ doc' = doc /\ settled' = settled
        /\ UNCHANGED snapperVars
    BY <1>8, UnfoldingPuts
  <2>2. PICK x, v : /\ v \in Subvolumes /\ IsBatch(x, Head(todo).arg, v) /\ todo' = x \o Tail(todo)
                    /\ \/ Head(todo).do = "create" /\ \A k \in DOMAIN x : x[k].do \in {"umount"} \cup Creating
                       \/ Head(todo).do = "remove"
    BY <1>8, UnfoldingPuts
  <2>3. \/ Head(todo).do = "remove"
        \/ \A k \in DOMAIN x : x[k].do \notin Deleting \cup {"remove-config"}
    BY <2>2 DEF Creating, Deleting
  <2>4. configs' = configs
    BY <2>1 DEF snapperVars, snapperDisk
  <2>5. IsSteps(todo') /\ StepsSound'
    BY <1>1, <2>1, <2>2, <2>3, <2>4, BatchSteps
  <2> QED
    BY <1>1, <2>1, <2>5
<1>9. CASE Resting
  <2>1. pc = "idle" /\ pc' = pc /\ todo' = todo
    BY <1>9, RestingRests
  <2> QED
    BY <1>1, <1>3, <2>1
<1>10. CASE UNCHANGED vars
  BY <1>1, <1>10 DEF vars, snapperVars, snapperDisk, StepsSound
<1> QED
  BY <1>4, <1>5, <1>6, <1>7, <1>8, <1>9, <1>10, Actions

LEMMA DocsKept ==
  ASSUME Base, [Next]_vars
  PROVE  docs' = docs /\ DocumentOK(doc')
<1>1. DocumentOK(doc) /\ \A d \in docs : DocumentOK(d)
  BY DEF Base
<1>2. CASE Sync
  <2>1. docs' = docs
    BY <1>2 DEF Sync, Idle
  <2>2. PICK answers \in {FALSE, "firewalld" \in installed} :
          doc' = [firewall |-> ImportFirewall(doc.firewall, answers),
                  snapper  |-> IF ReadableConfigs = <<>> THEN doc.snapper ELSE ReadableConfigs]
    BY <1>2 DEF Sync
  <2>3. /\ IsFiniteSet(DOMAIN ReadableConfigs) /\ Range(ReadableConfigs) \subseteq Subvolumes
    <3>1. DOMAIN ReadableConfigs \subseteq DOMAIN configs
          /\ \A n \in DOMAIN ReadableConfigs : ReadableConfigs[n] = configs[n] /\ configs[n] # Unreadable
      BY DEF ReadableConfigs, Restrict
    <3>2. \A n \in DOMAIN configs : configs[n] \in Subvolumes \cup {Unreadable}
      BY DEF Base, DiskTypes
    <3>3. IsFiniteSet(DOMAIN ReadableConfigs)
      BY <3>1, FS_Subset DEF Base, DiskTypes
    <3> QED
      BY <3>1, <3>2, <3>3 DEF Range
  <2>4. /\ IsFiniteSet(DOMAIN (doc').snapper) /\ Range((doc').snapper) \subseteq Subvolumes
    BY <1>1, <2>2, <2>3 DEF DocumentOK
  <2> DEFINE f == ImportFirewall(doc.firewall, answers)
  <2>5. f.enable \in BOOLEAN /\ f.backend \in {"ufw", "firewalld"} /\ IsFiniteSet(ManagedFirewall(f))
    <3>1. CASE LiveUfwRules # {}
      <4>1. f.enable = TRUE /\ f.backend = "ufw" /\ f.rules = LiveUfwRules /\ f.allowed = {}
        BY <3>1 DEF ImportFirewall, Absent
      <4>2. ManagedFirewall(f) = LiveUfwRules
        BY <4>1 DEF ManagedFirewall, DesiredUfwRules
      <4>3. IsFiniteSet(LiveUfwRules)
        BY FS_EmptySet DEF LiveUfwRules, Base, FirewallTypes
      <4> QED
        BY <4>1, <4>2, <4>3
    <3>2. CASE LiveUfwRules = {} /\ answers
      <4>1. f = ImportFirewalld
        BY <3>2 DEF ImportFirewall
      <4>2. /\ f.enable = TRUE /\ f.backend = "firewalld"
            /\ f.zones = Restrict(zones, DOMAIN zones \ {"public"})
        BY <4>1 DEF ImportFirewalld, Absent
      <4>3. ManagedFirewall(f) = {"public"} \cup (DOMAIN zones \ {"public"})
        BY <4>2 DEF ManagedFirewall, DeclaredZones, Restrict
      <4>4. IsFiniteSet({"public"} \cup (DOMAIN zones \ {"public"}))
        <5>1. IsFiniteSet(DOMAIN zones)
          BY DEF Base, FirewallTypes
        <5>2. IsFiniteSet(DOMAIN zones \ {"public"})
          BY <5>1, FS_RemoveElement
        <5> QED
          BY <5>2, FS_AddElement
      <4> QED
        BY <4>2, <4>3, <4>4
    <3>3. CASE LiveUfwRules = {} /\ ~answers
      BY <1>1, <3>3 DEF ImportFirewall, DocumentOK
    <3> QED
      BY <3>1, <3>2, <3>3
  <2>6. (doc').firewall = f
    BY <2>2
  <2> QED
    BY <2>1, <2>4, <2>5, <2>6 DEF DocumentOK
<1>3. CASE EditDoc
  BY <1>1, <1>3 DEF EditDoc, Idle
<1>4. CASE Hand \/ Snapshot \/ Reboot
  BY <1>1, <1>4 DEF Hand, Snapshot, Reboot, Idle
<1>5. CASE StartApply \/ Finish \/ Fail \/ Die
  BY <1>1, <1>5 DEF StartApply, Finish, Fail, Die, Stop
<1>6. CASE Working
  BY <1>1, <1>6, WorkingTakes DEF Took
<1>7. CASE Unfolding
  BY <1>1, <1>7, UnfoldingPuts
<1>8. CASE UNCHANGED vars
  BY <1>1, <1>8 DEF vars
<1> QED
  BY <1>2, <1>3, <1>4, <1>5, <1>6, <1>7, <1>8, Actions DEF Resting

LEMMA FirewallTypesKept ==
  ASSUME Base, [Next]_vars
  PROVE  FirewallTypes'
<1>1. FirewallTypes /\ DocumentOK(doc) /\ IsSteps(todo)
  BY DEF Base
<1>2. /\ IsFiniteSet(ownedFirewall) /\ IsFiniteSet(userRules) /\ IsFiniteSet(DOMAIN zones)
      /\ recorded \in {"none", "ufw", "firewalld"} /\ backend \in {"ufw", "firewalld"}
  BY <1>1 DEF FirewallTypes
<1>3. CASE StartApply
  <2>1. /\ backend' = Planned(doc).firewall.backend /\ ownedFirewall' = ownedFirewall
        /\ userRules' = userRules /\ zones' = zones /\ recorded' = recorded
    BY <1>3 DEF StartApply, firewallDisk
  <2>2. Planned(doc).firewall.backend \in {"ufw", "firewalld"}
    BY FinitePlan
  <2> QED
    BY <1>2, <2>1, <2>2 DEF FirewallTypes
<1>4. CASE Finish \/ Fail
  <2>1. PICK done, partial : Record(done, partial)
    BY <1>4 DEF Finish, Fail
  <2>2. backend' = backend /\ userRules' = userRules /\ zones' = zones
    BY <1>4 DEF Finish, Fail, Stop, firewallDisk
  <2>3. IsFiniteSet(ownedFirewall')
    BY <1>1, <1>2, <2>1 DEF Record, DocumentOK
  <2>4. recorded' \in {backend, recorded, "none"}
    BY <2>1 DEF Record
  <2> QED
    BY <1>2, <2>2, <2>3, <2>4 DEF FirewallTypes
<1>5. CASE Die
  BY <1>2, <1>5 DEF Die, Stop, firewallDisk, FirewallTypes
<1>6. CASE Working
  <2>1. UNCHANGED <<ownedFirewall, recorded, backend>>
    BY <1>6 DEF Working, InstallSnapper, SnapperCommand, Zone, Reload, Ufw, Packages, Units,
                SnapperOnly, FirewallOnly, Same, firewallVars
  <2>2. IsFiniteSet(DOMAIN (zones'))
    <3>1. CASE Zone
      <4>1. PICK z : \/ DOMAIN (zones') = DOMAIN zones \cup {z}
                     \/ DOMAIN (zones') = DOMAIN zones \ {z}
        BY <3>1 DEF Zone, WriteZone, RemoveZone, Restrict
      <4> QED
        BY <1>2, <4>1, FS_AddElement, FS_RemoveElement
    <3>2. CASE ~Zone
      <4>1. zones' = zones
        BY <1>6, <3>2 DEF Working, InstallSnapper, SnapperCommand, Reload, Ufw, Packages, Units,
                          SnapperOnly, firewallVars, firewallDisk
      <4> QED
        BY <1>2, <4>1
    <3> QED
      BY <3>1, <3>2
  <2>3. IsFiniteSet(userRules')
    <3>1. \/ userRules' \in {userRules, {}}
          \/ \E r : userRules' \in {userRules \cup {r}, userRules \ {r}}
      <4>1. CASE Ufw
        BY <4>1 DEF Ufw, SetUfwRule
      <4>2. CASE Packages
        BY <4>2 DEF Packages
      <4>3. CASE InstallSnapper \/ SnapperCommand \/ Zone \/ Reload \/ Units
        BY <4>3 DEF InstallSnapper, SnapperCommand, Zone, Reload, Units, SnapperOnly, firewallVars, firewallDisk
      <4> QED
        BY <1>6, <4>1, <4>2, <4>3 DEF Working
    <3>2. \A r : IsFiniteSet(userRules \cup {r}) /\ IsFiniteSet(userRules \ {r})
      BY <1>2, FS_AddElement, FS_RemoveElement
    <3> QED
      BY <1>2, <3>1, <3>2, FS_EmptySet
  <2> QED
    BY <1>2, <2>1, <2>2, <2>3 DEF FirewallTypes
<1>7. CASE Unfolding
  <2>1. UNCHANGED firewallVars /\ backend' = backend
    BY <1>7, UnfoldingPuts
  <2> QED
    BY <1>2, <2>1 DEF firewallVars, firewallDisk, FirewallTypes
<1>8. CASE Hand
  <2>1. ownedFirewall' = ownedFirewall /\ recorded' = recorded /\ backend' = backend
    BY <1>8 DEF Hand, ManifestStays, Idle
  <2>2. PICK r : userRules' = userRules \/ userRules' = userRules \cup {r}
    BY <1>8, Zenon DEF Hand
  <2>3. zones' = zones \/ DOMAIN (zones') = DOMAIN zones \cup {"theirs"}
    BY <1>8 DEF Hand
  <2>4. IsFiniteSet(userRules') /\ IsFiniteSet(DOMAIN (zones'))
    BY <1>2, <2>2, <2>3, FS_AddElement
  <2> QED
    BY <1>2, <2>1, <2>4 DEF FirewallTypes
<1>9. CASE Sync
  <2>1. /\ ownedFirewall' \subseteq ActualFirewall(doc.firewall) /\ recorded' = recorded /\ backend' = backend
        /\ userRules' = userRules /\ zones' = zones
    BY <1>9 DEF Sync, Idle, OwnedAfterSync, firewallDisk
  <2>2. ActualFirewall(doc.firewall) \subseteq userRules \cup DOMAIN zones
    BY DEF ActualFirewall, LiveUfwRules, CustomisedZones
  <2>3. IsFiniteSet(userRules \cup DOMAIN zones)
    BY <1>2, FS_Union
  <2>4. IsFiniteSet(ownedFirewall')
    BY <2>1, <2>2, <2>3, FS_Subset
  <2> QED
    BY <1>2, <2>1, <2>4 DEF FirewallTypes
<1>10. CASE EditDoc \/ Snapshot \/ Reboot
  <2>1. /\ ownedFirewall' = ownedFirewall /\ recorded' = recorded /\ backend' = backend
        /\ userRules' = userRules /\ zones' = zones
    BY <1>10 DEF EditDoc, Snapshot, Reboot, Idle, ManifestStays, firewallDisk
  <2> QED
    BY <1>2, <2>1 DEF FirewallTypes
<1>11. CASE UNCHANGED vars
  BY <1>2, <1>11 DEF vars, firewallVars, firewallDisk, FirewallTypes
<1> QED
  BY <1>3, <1>4, <1>5, <1>6, <1>7, <1>8, <1>9, <1>10, <1>11, Actions DEF Resting

LEMMA DiskTypesKept ==
  ASSUME Base, [Next]_vars
  PROVE  DiskTypes'
<1>1. DiskTypes /\ DocumentOK(doc)
  BY DEF Base
<1>2. CASE UNCHANGED snapperDisk
  <2>1. IsFiniteSet(ownedSnapper')
    <3>1. ownedSnapper' \in {ownedSnapper, DOMAIN doc.snapper} \/ ownedSnapper' \subseteq DOMAIN configs
      <4>1. CASE StartApply \/ Die \/ UNCHANGED vars
        BY <4>1 DEF StartApply, Die, Stop, vars, snapperVars
      <4>2. CASE Finish \/ Fail
        BY <4>2 DEF Finish, Fail, Record
      <4>3. CASE Working
        BY <4>3 DEF Working, InstallSnapper, SnapperCommand, Zone, Reload, Ufw, Packages, Units,
                    SnapperOnly, FirewallOnly, Same, snapperVars
      <4>4. CASE Unfolding
        BY <4>4, UnfoldingPuts DEF snapperVars
      <4>5. CASE Resting
        BY <4>5 DEF Resting, EditDoc, Sync, Hand, Snapshot, Reboot, ManifestStays, OwnedAfterSync, TakeSnapshot
      <4> QED
        BY <4>1, <4>2, <4>3, <4>4, <4>5, Actions
    <3>2. IsFiniteSet(ownedSnapper) /\ IsFiniteSet(DOMAIN doc.snapper) /\ IsFiniteSet(DOMAIN configs)
      BY <1>1 DEF DiskTypes, DocumentOK
    <3> QED
      BY <3>1, <3>2, FS_Subset
  <2> QED
    BY <1>1, <1>2, <2>1 DEF DiskTypes, snapperDisk, btrfs
<1>3. CASE SnapperCommand
  <2> DEFINE h == Head(todo)
  <2>1. Command(h) /\ todo # <<>> /\ UNCHANGED ownedSnapper
    BY <1>3 DEF SnapperCommand, Command, SnapperOnly, Same
  <2>2. h.do \in Inner
    BY <2>1, CommandConfigs
  <2>3. h = todo[1] /\ 1 \in DOMAIN todo
    <3>1. IsSteps(todo)
      BY DEF Base
    <3>2. h = todo[1] /\ Len(todo) >= 1 /\ DOMAIN todo = 1 .. Len(todo) /\ Len(todo) \in Nat
      BY <2>1, <3>1, TailIs, StepsAre
    <3> QED
      BY <3>2
  <2>4. h.subvolume \in Subvolumes
    BY <2>2, <2>3 DEF Base, StepsSound
  <2> HIDE DEF h
  <2> QED
    BY <1>1, <2>1, <2>4, CommandTypes
<1>4. CASE Hand
  <2>1. UNCHANGED <<listed, snapshots, records, under, ownMounted, ownedSnapper>>
    BY <1>4 DEF Hand, snapperDisk, btrfs, ManifestStays
  <2>2. configs' = configs \/ \E name \in DOMAIN configs : configs' = [configs EXCEPT ![name] = Unreadable]
    BY <1>4 DEF Hand, snapperDisk
  <2>3. DOMAIN configs' = DOMAIN configs /\ \A n \in DOMAIN configs : configs'[n] \in {configs[n], Unreadable}
    BY <2>2
  <2> QED
    BY <1>1, <2>1, <2>3 DEF DiskTypes
<1>5. CASE Snapshot
  <2>1. PICK name \in DOMAIN configs, number \in Numbers :
          LET v == configs[name]
          IN /\ v # Unreadable
             /\ snapshots' = [snapshots EXCEPT ![v][Side(v)] = @ \cup {number}]
             /\ records' = [records EXCEPT ![v][Side(v)] = @ \cup {number}]
             /\ UNCHANGED <<configs, listed, under, ownMounted, ownedSnapper>>
    BY <1>5 DEF Snapshot, TakeSnapshot
  <2> DEFINE v == configs[name]
  <2>2. v \in Subvolumes /\ Side(v) \in Where
    BY <1>1, <2>1, SideType DEF DiskTypes
  <2>3. /\ snapshots' = [snapshots EXCEPT ![v][Side(v)] = @ \cup {number}]
        /\ records' = [records EXCEPT ![v][Side(v)] = @ \cup {number}]
        /\ UNCHANGED <<configs, under, ownMounted, ownedSnapper>>
    BY <2>1
  <2> HIDE DEF v
  <2>4. snapshots' \in [Subvolumes -> [Where -> SUBSET Numbers]]
    BY <1>1, <2>2, <2>3 DEF DiskTypes
  <2>5. records' \in [Subvolumes -> [Where -> SUBSET Numbers]]
    BY <1>1, <2>2, <2>3 DEF DiskTypes
  <2>6. \A u \in Subvolumes, w \in Where : records'[u][w] \in {records[u][w], records[u][w] \cup {number}}
    BY <1>1, <2>2, <2>3 DEF DiskTypes
  <2>7. \A u \in Subvolumes, w \in Where : IsFiniteSet(records'[u][w])
    <3> SUFFICES ASSUME NEW u \in Subvolumes, NEW w \in Where
                 PROVE  IsFiniteSet(records'[u][w])
      OBVIOUS
    <3>1. IsFiniteSet(records[u][w]) /\ IsFiniteSet(records[u][w] \cup {number})
      BY <1>1, FS_AddElement DEF DiskTypes
    <3> QED
      BY <2>6, <3>1
  <2> QED
    BY <1>1, <2>3, <2>4, <2>5, <2>7 DEF DiskTypes
<1>6. CASE Reboot
  <2>1. /\ ownMounted' = OwnSnapshots /\ UNCHANGED <<configs, snapshots, records, ownedSnapper>>
        /\ under' = [v \in Subvolumes |-> IF v \in OwnSnapshots /\ under[v] = "none" THEN "dir" ELSE under[v]]
    BY <1>6 DEF Reboot, MountFstab, ManifestStays
  <2> QED
    BY <1>1, <2>1 DEF DiskTypes
<1>7. CASE StartApply \/ Finish \/ Fail \/ Die \/ EditDoc \/ Sync
  <2>1. UNCHANGED snapperDisk
    BY <1>7 DEF StartApply, Finish, Fail, Die, Stop, EditDoc, Sync, snapperVars
  <2> QED
    BY <1>2, <2>1
<1>8. CASE Working \/ Unfolding \/ UNCHANGED vars
  <2>1. SnapperCommand \/ UNCHANGED snapperDisk
    BY <1>8, WorkingConfigs, UnfoldingPuts DEF vars, snapperVars
  <2> QED
    BY <1>2, <1>3, <2>1
<1> QED
  BY <1>3, <1>4, <1>5, <1>6, <1>7, <1>8, Actions DEF Resting

LEMMA BaseNext == Base /\ [Next]_vars => Base'
<1> SUFFICES ASSUME Base, [Next]_vars
             PROVE  Base'
  OBVIOUS
<1>1. docs' = docs /\ DocumentOK(doc')
  BY DocsKept
<1>2. \A d \in docs' : DocumentOK(d)
  BY <1>1 DEF Base
<1>3. DocumentOK(doc)'
  BY <1>1 DEF DocumentOK, ManagedFirewall, DeclaredZones, DesiredUfwRules
<1>4. (\A d \in docs : DocumentOK(d))'
  BY <1>2 DEF DocumentOK, ManagedFirewall, DeclaredZones, DesiredUfwRules
<1> QED
  BY <1>3, <1>4, ControlKept, DiskTypesKept, FirewallTypesKept DEF Base

THEOREM TypesAreKept == Spec => []Base
BY BaseInit, BaseNext, PTL DEF Spec

-----------------------------------------------------------------------------
(***************************************************************************)
(* The daemon and its files                                                *)
(***************************************************************************)

ReloadToCome == pending \/ \E k \in DOMAIN todo : todo[k].do = "reload"

\* Between the file of a zone and the reload behind it the daemon enforces what was there
\* before; outside of an apply it does not.
Enforcing ==
  /\ Reloaded(todo)
  /\ daemon /\ ~refused /\ ~interrupted => runtime = Enforced \/ (pc = "running" /\ ReloadToCome)

LEMMA ReloadedTail ==
  ASSUME NEW t, IsSteps(t), t # <<>>, Reloaded(t)
  PROVE  /\ Reloaded(Tail(t))
         /\ Head(t).do \in Zoning => \E k \in DOMAIN Tail(t) : Tail(t)[k].do = "reload"
         /\ (\E k \in DOMAIN t : t[k].do = "reload") =>
              Head(t).do = "reload" \/ \E k \in DOMAIN Tail(t) : Tail(t)[k].do = "reload"
<1> DEFINE u == Tail(t)
           m == Len(t)
<1>1. /\ m \in Nat /\ m >= 1 /\ DOMAIN t = 1 .. m /\ DOMAIN u = 1 .. m - 1 /\ Head(t) = t[1]
      /\ \A k \in 1 .. m - 1 : u[k] = t[k + 1]
  BY TailIs, StepsAre
<1> HIDE DEF u, m
<1>2. ASSUME NEW j \in 1 .. m, j > 1
      PROVE  j - 1 \in 1 .. m - 1 /\ u[j - 1] = t[j]
  BY <1>1, <1>2
<1>3. ASSUME NEW k \in 1 .. m - 1, u[k].do \in Zoning
      PROVE  \E j \in 1 .. m - 1 : k < j /\ u[j].do = "reload"
  <2>1. k + 1 \in 1 .. m /\ t[k + 1].do \in Zoning
    BY <1>1, <1>3
  <2>2. PICK j \in 1 .. m : k + 1 < j /\ t[j].do = "reload"
    BY <1>1, <2>1 DEF Reloaded
  <2>3. j - 1 \in 1 .. m - 1 /\ k < j - 1 /\ u[j - 1] = t[j]
    BY <1>1, <1>2, <2>2
  <2> QED
    BY <2>2, <2>3
<1>4. ASSUME t[1].do \in Zoning
      PROVE  \E k \in 1 .. m - 1 : u[k].do = "reload"
  <2>1. 1 \in 1 .. m
    BY <1>1
  <2>2. PICK j \in 1 .. m : 1 < j /\ t[j].do = "reload"
    BY <1>1, <1>4, <2>1 DEF Reloaded
  <2> QED
    BY <1>2, <2>2
<1>5. ASSUME NEW k \in 1 .. m, t[k].do = "reload"
      PROVE  t[1].do = "reload" \/ \E i \in 1 .. m - 1 : u[i].do = "reload"
  <2>1. CASE k = 1
    BY <1>5, <2>1
  <2>2. CASE k > 1
    BY <1>2, <1>5, <2>2
  <2> QED
    BY <1>1, <2>1, <2>2
<1>6. Reloaded(u)
  BY <1>1, <1>3 DEF Reloaded
<1> QED
  BY <1>1, <1>4, <1>5, <1>6 DEF u

LEMMA ReloadedBatch ==
  ASSUME NEW x, NEW name, NEW v, IsBatch(x, name, v), NEW t, IsSteps(t), Reloaded(t)
  PROVE  /\ Reloaded(x \o t)
         /\ (\E k \in DOMAIN t : t[k].do = "reload") => \E k \in DOMAIN (x \o t) : (x \o t)[k].do = "reload"
<1> DEFINE y == x \o t
           n == Len(x)
           m == Len(t)
<1>1. IsSteps(x) /\ \A k \in DOMAIN x : x[k].do \in Inner
  BY DEF IsBatch
<1>2. /\ n \in Nat /\ DOMAIN x = 1 .. n /\ m \in Nat /\ DOMAIN t = 1 .. m
  BY <1>1, StepsAre
<1>3. /\ DOMAIN y = 1 .. n + m
      /\ \A k \in 1 .. n : y[k] = x[k]
      /\ \A k \in 1 .. m : y[n + k] = t[k]
      /\ \A k \in 1 .. n + m : k > n => y[k] = t[k - n]
  <2>1. /\ DOMAIN (x \o t) = 1 .. Len(x) + Len(t)
        /\ \A k \in 1 .. Len(x) : (x \o t)[k] = x[k]
        /\ \A k \in 1 .. Len(t) : (x \o t)[Len(x) + k] = t[k]
        /\ \A k \in 1 .. Len(x) + Len(t) : k > Len(x) => (x \o t)[k] = t[k - Len(x)]
    <3>1. IsSteps(x) /\ IsSteps(t)
      BY <1>1
    <3> QED
      BY <3>1, JoinIs, SMTT(30)
  <2> QED
    BY <2>1
<1> HIDE DEF y, n, m
<1>4. ASSUME NEW k \in 1 .. n + m, y[k].do \in Zoning
      PROVE  \E j \in 1 .. n + m : k < j /\ y[j].do = "reload"
  <2>1. k > n
    <3>1. ASSUME k \in 1 .. n
          PROVE  FALSE
      <4>1. y[k].do \in Inner
        BY <1>1, <1>2, <1>3, <3>1
      <4> QED
        BY <1>4, <4>1 DEF Inner, Creating, Deleting, Zoning
    <3> QED
      BY <1>2, <3>1
  <2>2. k - n \in 1 .. m /\ t[k - n].do \in Zoning
    <3>1. k - n \in 1 .. m
      BY <1>2, <2>1
    <3>2. y[k] = t[k - n]
      BY <1>3, <2>1
    <3> QED
      BY <1>4, <3>1, <3>2
  <2>3. PICK j \in 1 .. m : k - n < j /\ t[j].do = "reload"
    BY <1>2, <2>2 DEF Reloaded
  <2>4. n + j \in 1 .. n + m /\ k < n + j
    BY <1>2, <2>3
  <2>5. y[n + j].do = "reload"
    BY <1>3, <2>3
  <2> QED
    BY <2>4, <2>5
<1>5. ASSUME NEW k \in 1 .. m, t[k].do = "reload"
      PROVE  \E j \in 1 .. n + m : y[j].do = "reload"
  <2>1. n + k \in 1 .. n + m /\ y[n + k] = t[k]
    BY <1>2, <1>3
  <2> QED
    BY <1>5, <2>1
<1>6. Reloaded(y)
  BY <1>3, <1>4 DEF Reloaded
<1> QED
  BY <1>2, <1>3, <1>5, <1>6 DEF y

LEMMA EnforcingInit == Init => Enforcing
<1> SUFFICES ASSUME Init
             PROVE  Enforcing
  OBVIOUS
<1>1. todo = <<>> /\ runtime = IF daemon THEN Enforced ELSE <<>>
  BY DEF Init
<1>2. DOMAIN <<>> = {}
  OBVIOUS
<1>3. Reloaded(todo)
  BY <1>1, <1>2 DEF Reloaded
<1> QED
  BY <1>1, <1>3 DEF Enforcing

LEMMA EnforcedBy ==
  ASSUME zones' = zones
  PROVE  Enforced' = Enforced
BY DEF Enforced

LEMMA EnforcingNext == Base /\ Enforcing /\ [Next]_vars => Enforcing'
<1> SUFFICES ASSUME Base, Enforcing, [Next]_vars
             PROVE  Enforcing'
  OBVIOUS
<1>1. IsSteps(todo) /\ (pc = "idle" => todo = <<>>) /\ pc \in {"idle", "running"}
  BY DEF Base
<1>2. Reloaded(todo)
  BY DEF Enforcing
<1>3. Reloaded(<<>>) /\ DOMAIN <<>> = {}
  BY DEF Reloaded
<1>4. CASE StartApply
  <2>1. Reloaded(StepsOf(Planned(doc)))
    BY FinitePlan, WholePlan DEF IsPlan
  <2>2. /\ todo' = StepsOf(Planned(doc)) /\ pc = "idle" /\ interrupted' = interrupted
        /\ UNCHANGED <<zones, runtime, daemon, refused>>
    BY <1>4 DEF StartApply, firewallDisk, ghosts
  <2>3. daemon /\ ~refused /\ ~interrupted => runtime = Enforced
    BY <2>2 DEF Enforcing
  <2> QED
    BY <2>1, <2>2, <2>3, EnforcedBy DEF Enforcing
<1>5. CASE Finish
  <2>1. /\ todo = <<>> /\ todo' = todo /\ UNCHANGED <<zones, daemon, interrupted>> /\ RetryReload
    BY <1>5 DEF Finish
  <2>2. daemon /\ ~refused /\ ~interrupted => runtime = Enforced \/ pending
    BY <1>3, <2>1 DEF Enforcing, ReloadToCome
  <2>3. daemon /\ ~refused' /\ ~interrupted => runtime' = Enforced
    BY <2>1, <2>2 DEF RetryReload
  <2> QED
    BY <1>2, <2>1, <2>3, EnforcedBy DEF Enforcing
<1>6. CASE Fail \/ Die
  <2>1. todo' = <<>> /\ interrupted'
    BY <1>6 DEF Fail, Die, Stop
  <2> QED
    BY <1>3, <2>1 DEF Enforcing
<1>7. CASE Working
  <2>1. /\ pc = "running" /\ pc' = pc /\ todo # <<>> /\ todo' = Tail(todo)
    BY <1>7, WorkingTakes DEF Took
  <2>2. PICK t : t = Tail(todo)
    OBVIOUS
  <2>3. /\ Reloaded(t) /\ todo' = t
        /\ Head(todo).do \in Zoning => \E k \in DOMAIN t : t[k].do = "reload"
        /\ (\E k \in DOMAIN todo : todo[k].do = "reload") =>
              Head(todo).do = "reload" \/ \E k \in DOMAIN t : t[k].do = "reload"
    BY <1>1, <1>2, <2>1, <2>2, ReloadedTail
  <2>4. interrupted' = interrupted
    BY <1>7 DEF Working, InstallSnapper, SnapperCommand, Zone, Reload, Ufw, Packages, Units,
                SnapperOnly, FirewallOnly, Same, ghosts
  <2>5. ASSUME Head(todo).do # "reload", UNCHANGED <<zones, runtime, daemon, refused, pending>>
        PROVE  Enforcing'
    <3>1. daemon /\ ~refused /\ ~interrupted =>
            runtime = Enforced \/ pending \/ \E k \in DOMAIN t : t[k].do = "reload"
      BY <2>1, <2>3, <2>5 DEF Enforcing, ReloadToCome
    <3>2. Enforced' = Enforced
      BY <2>5, EnforcedBy
    <3> QED
      BY <2>1, <2>3, <2>4, <2>5, <3>1, <3>2 DEF Enforcing, ReloadToCome
  <2>6. CASE Zone
    <3>1. Head(todo).do \in Zoning
      BY <2>6 DEF Zone, Now, Zoning
    <3>2. \E k \in DOMAIN t : t[k].do = "reload"
      BY <2>3, <3>1
    <3> QED
      BY <2>1, <2>3, <3>2 DEF Enforcing, ReloadToCome
  <2>7. CASE Reload
    <3>1. /\ ReloadFirewalld /\ UNCHANGED <<zones, daemon>>
      BY <2>7 DEF Reload
    <3>2. daemon /\ ~refused' => pending' \/ runtime' = Enforced
      BY <3>1 DEF ReloadFirewalld
    <3>3. Enforced' = Enforced
      BY <3>1, EnforcedBy
    <3> QED
      BY <2>1, <2>3, <3>1, <3>2, <3>3 DEF Enforcing, ReloadToCome
  <2>8. CASE InstallSnapper
    BY <2>5, <2>8 DEF InstallSnapper, Now, firewallDisk
  <2>9. CASE Packages
    BY <2>5, <2>9 DEF Packages, Now
  <2>10. CASE Units
    BY <2>5, <2>10 DEF Units, Now, firewallVars, firewallDisk
  <2>11. CASE Ufw
    BY <2>5, <2>11 DEF Ufw, Now
  <2>12. CASE SnapperCommand
    <3>1. Head(todo).do # "reload"
      BY <2>12 DEF SnapperCommand
    <3>2. UNCHANGED <<zones, runtime, daemon, refused, pending>>
      BY <2>12 DEF SnapperCommand, SnapperOnly, firewallDisk
    <3> QED
      BY <2>5, <3>1, <3>2
  <2> QED
    BY <1>7, <2>6, <2>7, <2>8, <2>9, <2>10, <2>11, <2>12 DEF Working
<1>8. CASE Unfolding
  <2>1. /\ pc = "running" /\ pc' = pc /\ todo # <<>> /\ UNCHANGED firewallVars /\ UNCHANGED ghosts
    BY <1>8, UnfoldingPuts
  <2>2. PICK x, v : /\ IsBatch(x, Head(todo).arg, v) /\ todo' = x \o Tail(todo)
                    /\ Head(todo).do \in {"create", "remove"}
    BY <1>8, UnfoldingPuts
  <2>3. PICK t : t = Tail(todo)
    OBVIOUS
  <2>4. PICK y : y = x \o t
    OBVIOUS
  <2>5. /\ IsSteps(t) /\ Reloaded(t)
        /\ (\E k \in DOMAIN todo : todo[k].do = "reload") =>
              Head(todo).do = "reload" \/ \E k \in DOMAIN t : t[k].do = "reload"
    BY <1>1, <1>2, <2>1, <2>3, TailIs, ReloadedTail
  <2>6. /\ Reloaded(y) /\ todo' = y
        /\ (\E k \in DOMAIN t : t[k].do = "reload") => \E k \in DOMAIN y : y[k].do = "reload"
    BY <2>2, <2>3, <2>4, <2>5, ReloadedBatch
  <2>7. UNCHANGED <<zones, runtime, daemon, refused, pending, interrupted>>
    BY <2>1 DEF firewallVars, firewallDisk, ghosts
  <2>8. (\E k \in DOMAIN todo : todo[k].do = "reload") => \E k \in DOMAIN y : y[k].do = "reload"
    BY <2>2, <2>5, <2>6
  <2>9. Enforced' = Enforced
    BY <2>7, EnforcedBy
  <2> QED
    BY <2>1, <2>6, <2>7, <2>8, <2>9 DEF Enforcing, ReloadToCome
<1>9. CASE Resting
  <2>1. pc = "idle" /\ pc' = pc /\ todo' = todo
    BY <1>9, RestingRests
  <2>2. daemon /\ ~refused /\ ~interrupted => runtime = Enforced
    BY <2>1 DEF Enforcing
  <2>3. CASE Reboot
    <3>1. zones' = zones /\ runtime' = IF daemon' THEN Enforced ELSE <<>>
      BY <2>3 DEF Reboot
    <3> QED
      BY <1>2, <2>1, <3>1, EnforcedBy DEF Enforcing
  <2>4. CASE Hand
    <3>1. UNCHANGED <<daemon, refused, interrupted>>
      BY <2>4 DEF Hand
    <3>2. \/ UNCHANGED <<zones, runtime>>
          \/ /\ zones' = [z \in DOMAIN zones \cup {"theirs"} |-> IF z = "theirs" THEN {"ssh"} ELSE zones[z]]
             /\ runtime' = IF daemon THEN [z \in DOMAIN runtime \cup {"theirs"} |->
                                             IF z = "theirs" THEN {"ssh"} ELSE runtime[z]]
                           ELSE runtime
             /\ "theirs" \notin DOMAIN zones
      BY <2>4, Zenon DEF Hand
    <3>3. daemon /\ ~refused /\ ~interrupted => runtime' = Enforced'
      <4>1. CASE UNCHANGED <<zones, runtime>>
        BY <2>2, <4>1, EnforcedBy
      <4>2. ASSUME runtime = Enforced, daemon, "theirs" \notin DOMAIN zones,
                   zones' = [z \in DOMAIN zones \cup {"theirs"} |-> IF z = "theirs" THEN {"ssh"} ELSE zones[z]],
                   runtime' = [z \in DOMAIN runtime \cup {"theirs"} |->
                                             IF z = "theirs" THEN {"ssh"} ELSE runtime[z]]
            PROVE  runtime' = Enforced'
        <5>1. DOMAIN (zones') = DOMAIN zones \cup {"theirs"} /\ DOMAIN runtime = DOMAIN zones \cup {"public"}
          BY <4>2 DEF Enforced
        <5>2. Enforced' = [z \in DOMAIN (zones') \cup {"public"} |->
                             IF z \in DOMAIN (zones') THEN (zones')[z] ELSE DefaultServices]
          BY DEF Enforced, DefaultServices
        <5>3. DOMAIN (zones') \cup {"public"} = DOMAIN runtime \cup {"theirs"}
          BY <5>1
        <5>4. ASSUME NEW z \in DOMAIN runtime \cup {"theirs"}
              PROVE  (IF z = "theirs" THEN {"ssh"} ELSE runtime[z])
                       = IF z \in DOMAIN (zones') THEN (zones')[z] ELSE DefaultServices
          BY <4>2, <5>1 DEF Enforced
        <5> QED
          BY <4>2, <5>2, <5>3, <5>4
      <4> QED
        BY <2>2, <3>2, <4>1, <4>2
    <3> QED
      BY <1>2, <2>1, <3>1, <3>3 DEF Enforcing
  <2>5. CASE EditDoc \/ Sync \/ Snapshot
    <3>1. UNCHANGED <<zones, runtime, daemon, refused, interrupted>>
      BY <2>5 DEF EditDoc, Sync, Snapshot, firewallDisk, ghosts
    <3>2. Enforced' = Enforced
      BY <3>1, EnforcedBy
    <3> QED
      BY <1>2, <2>1, <2>2, <3>1, <3>2 DEF Enforcing
  <2> QED
    BY <1>9, <2>3, <2>4, <2>5 DEF Resting
<1>10. CASE UNCHANGED vars
  <2>1. UNCHANGED <<zones, runtime, daemon, refused, interrupted, pending, pc, todo>>
    BY <1>10 DEF vars, firewallVars, firewallDisk, ghosts
  <2>2. Enforced' = Enforced
    BY <2>1, EnforcedBy
  <2> QED
    BY <1>2, <2>1, <2>2 DEF Enforcing, ReloadToCome
<1> QED
  BY <1>4, <1>5, <1>6, <1>7, <1>8, <1>9, <1>10, Actions

\* After an apply that ended well the running daemon enforces what its files say, unless
\* firewalld refused or an apply did not get to its reload.
THEOREM DaemonFollowsFiles == Spec => []DaemonEnforcesFiles
<1>1. Base /\ Enforcing => DaemonEnforcesFiles
  BY DEF Base, Enforcing, DaemonEnforcesFiles
<1> QED
  BY <1>1, BaseInit, BaseNext, EnforcingInit, EnforcingNext, PTL DEF Spec

-----------------------------------------------------------------------------
(***************************************************************************)
(* Snapshots and the configs that own them                                 *)
(***************************************************************************)

\* A command other than the first of its batch has its predecessor before it.
Linked(t) == \A k \in DOMAIN t : k > 1 /\ t[k].do \in Inner => Follows(t[k - 1], t[k])

\* Snapshots are deleted before anything else happens.
DeletesFirst(t) ==
  \A j, k \in DOMAIN t :
    j < k /\ t[k].do = "delete-snapshot" => t[j].do \in {"delete-snapshot", "rmtree"}

Doomed(t, number) == \E k \in DOMAIN t : t[k].do = "delete-snapshot" /\ t[k].number = number

\* What is known of the step behind the one that is done.
LEMMA NextStep ==
  ASSUME NEW t, IsSteps(t), t # <<>>, Linked(t), DeletesFirst(t)
  PROVE  /\ Linked(Tail(t)) /\ DeletesFirst(Tail(t))
         /\ Tail(t) # <<>> /\ Head(Tail(t)).do \in Inner => Follows(Head(t), Head(Tail(t)))
         /\ Closed(t) => Closed(Tail(t))
         /\ Closed(t) /\ Opens(Head(t)) => Tail(t) # <<>> /\ Follows(Head(t), Head(Tail(t)))
         /\ \A n : Doomed(t, n) =>
              Doomed(Tail(t), n) \/ (Head(t).do = "delete-snapshot" /\ Head(t).number = n)
         /\ Head(t).do \notin {"delete-snapshot", "rmtree"} => \A n : ~Doomed(Tail(t), n)
<1> DEFINE u == Tail(t)
           m == Len(t)
<1>1. /\ m \in Nat /\ m >= 1 /\ DOMAIN t = 1 .. m /\ DOMAIN u = 1 .. m - 1 /\ Head(t) = t[1]
      /\ IsSteps(u)
      /\ \A k \in 1 .. m - 1 : u[k] = t[k + 1]
  BY TailIs, StepsAre
<1>2. u # <<>> => m - 1 >= 1 /\ Head(u) = u[1]
  <2> SUFFICES ASSUME u # <<>>
               PROVE  m - 1 >= 1 /\ Head(u) = u[1]
    OBVIOUS
  <2>1. IsSteps(u) /\ Len(u) >= 1 /\ Head(u) = u[1] /\ DOMAIN u = 1 .. Len(u) /\ Len(u) \in Nat
    BY <1>1, TailIs, StepsAre
  <2>2. Len(u) = m - 1
    BY TailIs
  <2> QED
    BY <2>1, <2>2
<1>3. m - 1 >= 1 => u # <<>>
  <2> SUFFICES ASSUME m - 1 >= 1, u = <<>>
               PROVE  FALSE
    OBVIOUS
  <2>1. DOMAIN u = {}
    OBVIOUS
  <2>2. 1 \in 1 .. m - 1
    BY <1>1
  <2> QED
    BY <1>1, <2>1, <2>2
<1> HIDE DEF u, m
<1>4. \A k \in 1 .. m - 1 : k + 1 \in 1 .. m /\ k + 1 > 1 /\ (k + 1) - 1 = k /\ k < k + 1 /\ 1 < k + 1
  BY <1>1
<1>5. Linked(u)
  <2> SUFFICES ASSUME NEW k \in 1 .. m - 1, k > 1, u[k].do \in Inner
               PROVE  Follows(u[k - 1], u[k])
    BY <1>1 DEF Linked
  <2>1. k - 1 \in 1 .. m - 1 /\ (k - 1) + 1 = k
    BY <1>1
  <2>2. u[k] = t[k + 1] /\ u[k - 1] = t[k]
    BY <1>1, <2>1
  <2>3. Follows(t[(k + 1) - 1], t[k + 1])
    BY <1>1, <1>4, <2>2 DEF Linked
  <2> QED
    BY <1>4, <2>2, <2>3
<1>6. DeletesFirst(u)
  <2> SUFFICES ASSUME NEW j \in 1 .. m - 1, NEW k \in 1 .. m - 1, j < k, u[k].do = "delete-snapshot"
               PROVE  u[j].do \in {"delete-snapshot", "rmtree"}
    BY <1>1 DEF DeletesFirst
  <2>1. u[k] = t[k + 1] /\ u[j] = t[j + 1] /\ j + 1 < k + 1
    BY <1>1
  <2> QED
    BY <1>1, <1>4, <2>1 DEF DeletesFirst
<1>7. ASSUME u # <<>>, Head(u).do \in Inner
      PROVE  Follows(t[1], Head(u))
  <2>1. 1 \in 1 .. m - 1 /\ 2 \in 1 .. m /\ 2 > 1
    BY <1>1, <1>2, <1>7
  <2>2. Head(u) = t[2]
    BY <1>1, <1>2, <1>7, <2>1
  <2>3. Follows(t[2 - 1], t[2])
    BY <1>1, <1>7, <2>1, <2>2 DEF Linked
  <2> QED
    BY <2>2, <2>3
<1>8. ASSUME Closed(t)
      PROVE  Closed(u)
  <2> SUFFICES ASSUME NEW k \in 1 .. m - 1, Opens(u[k])
               PROVE  k + 1 \in 1 .. m - 1 /\ Follows(u[k], u[k + 1])
    BY <1>1 DEF Closed
  <2>1. Opens(t[k + 1]) /\ k + 1 \in 1 .. m
    BY <1>1, <1>4
  <2>2. (k + 1) + 1 \in 1 .. m /\ Follows(t[k + 1], t[(k + 1) + 1])
    BY <1>1, <1>8, <2>1 DEF Closed
  <2>3. k + 1 \in 1 .. m - 1
    BY <1>1, <2>2
  <2> QED
    BY <1>1, <2>2, <2>3
<1>9. ASSUME Closed(t), Opens(t[1])
      PROVE  u # <<>> /\ Follows(t[1], Head(u))
  <2>1. 1 \in 1 .. m
    BY <1>1
  <2>2. 1 + 1 \in 1 .. m /\ Follows(t[1], t[1 + 1])
    BY <1>1, <1>9, <2>1 DEF Closed
  <2>3. m - 1 >= 1 /\ 1 \in 1 .. m - 1
    BY <1>1, <2>2
  <2> QED
    BY <1>1, <1>2, <1>3, <2>2, <2>3
<1>10. ASSUME NEW n, Doomed(t, n)
       PROVE  Doomed(u, n) \/ (t[1].do = "delete-snapshot" /\ t[1].number = n)
  <2>1. PICK k \in 1 .. m : t[k].do = "delete-snapshot" /\ t[k].number = n
    BY <1>1, <1>10 DEF Doomed
  <2>2. CASE k = 1
    BY <2>1, <2>2
  <2>3. CASE k # 1
    <3>1. k - 1 \in 1 .. m - 1 /\ (k - 1) + 1 = k
      BY <1>1, <2>3
    <3>2. u[k - 1] = t[k]
      BY <1>1, <3>1
    <3> QED
      BY <1>1, <2>1, <3>1, <3>2 DEF Doomed
  <2> QED
    BY <2>2, <2>3
<1>11. ASSUME NEW n, Doomed(u, n)
       PROVE  t[1].do \in {"delete-snapshot", "rmtree"}
  <2>1. PICK k \in 1 .. m - 1 : u[k].do = "delete-snapshot"
    BY <1>1, <1>11 DEF Doomed
  <2>2. t[k + 1].do = "delete-snapshot" /\ k + 1 \in 1 .. m /\ 1 \in 1 .. m /\ 1 < k + 1
    BY <1>1, <1>4, <2>1
  <2> QED
    BY <1>1, <2>2 DEF DeletesFirst
<1> QED
  BY <1>1, <1>5, <1>6, <1>7, <1>8, <1>9, <1>10, <1>11 DEF u

\* And of a batch that is put in the place of a step of the plan.
LEMMA NextBatch ==
  ASSUME NEW t, IsSteps(t), t # <<>>, Linked(t), DeletesFirst(t), Head(t).do \in {"create", "remove"},
         NEW x, NEW name, NEW v, IsBatch(x, name, v)
  PROVE  /\ Linked(x \o Tail(t)) /\ DeletesFirst(x \o Tail(t))
         /\ Closed(x) /\ Closed(t) => Closed(x \o Tail(t))
         /\ x \o Tail(t) # <<>> /\ Head(x \o Tail(t)) = x[1] /\ 1 \in DOMAIN x
         /\ \A n : Doomed(x, n) => Doomed(x \o Tail(t), n)
<1> DEFINE u == Tail(t)
           m == Len(u)
           n == Len(x)
           y == x \o u
<1>1. /\ IsSteps(u) /\ Linked(u) /\ DeletesFirst(u) /\ (Closed(t) => Closed(u))
      /\ \A number : ~Doomed(u, number)
      /\ ~(u # <<>> /\ Head(u).do \in Inner)
  <2>1. IsSteps(u)
    BY TailIs
  <2>2. ~Follows(Head(t), Head(u))
    BY DEF Follows
  <2>3. Head(t).do \notin {"delete-snapshot", "rmtree"}
    OBVIOUS
  <2> HIDE DEF u
  <2> QED
    BY <2>1, <2>2, <2>3, NextStep DEF u
<1>2. IsSteps(x) /\ n \in Nat /\ n >= 1 /\ DOMAIN x = 1 .. n
  BY StepsAre DEF IsBatch
<1>3. m \in Nat /\ DOMAIN u = 1 .. m /\ (m >= 1 => u # <<>> /\ Head(u) = u[1])
  <2>1. m \in Nat /\ DOMAIN u = 1 .. m /\ (u = <<>> <=> m = 0)
    BY <1>1, StepsAre
  <2>2. u # <<>> => Head(u) = u[1]
    BY <1>1, TailIs
  <2> QED
    BY <2>1, <2>2
<1>4. /\ IsSteps(y) /\ DOMAIN y = 1 .. n + m /\ Len(y) = n + m
      /\ \A k \in 1 .. n : y[k] = x[k]
      /\ \A k \in 1 .. n + m : k > n => y[k] = u[k - n]
  <2>0. IsSteps(x) /\ IsSteps(u)
    BY <1>1, <1>2
  <2>1. /\ IsSteps(x \o u) /\ DOMAIN (x \o u) = 1 .. Len(x) + Len(u) /\ Len(x \o u) = Len(x) + Len(u)
        /\ \A k \in 1 .. Len(x) : (x \o u)[k] = x[k]
        /\ \A k \in 1 .. Len(x) + Len(u) : k > Len(x) => (x \o u)[k] = u[k - Len(x)]
    BY <2>0, JoinIs, SMTT(30)
  <2> QED
    BY <2>1
<1>5. y # <<>> /\ Head(y) = x[1] /\ 1 \in DOMAIN x
  <2>1. 1 \in 1 .. n /\ Len(y) # 0
    BY <1>2, <1>3, <1>4
  <2>2. y # <<>>
    BY <1>4, <2>1, StepsAre
  <2>3. Head(y) = y[1]
    BY <1>4, <2>2, TailIs
  <2> QED
    BY <1>2, <1>4, <2>1, <2>2, <2>3
<1> HIDE DEF y, m, n, u
<1>6. ASSUME NEW k \in 1 .. n + m
      PROVE  \/ k \in 1 .. n /\ y[k] = x[k]
             \/ k - n \in 1 .. m /\ k > n /\ y[k] = u[k - n]
  BY <1>2, <1>3, <1>4
<1>7. ASSUME NEW k \in 1 .. m
      PROVE  u[k].do # "delete-snapshot" /\ ~(k = 1 /\ u[k].do \in Inner)
  <2>1. u[k].do # "delete-snapshot"
    BY <1>1, <1>3 DEF Doomed
  <2>2. k = 1 => m >= 1
    BY <1>3
  <2> QED
    BY <1>1, <1>3, <2>1, <2>2
<1>8. Linked(y)
  <2> SUFFICES ASSUME NEW k \in 1 .. n + m, k > 1, y[k].do \in Inner
               PROVE  Follows(y[k - 1], y[k])
    BY <1>4 DEF Linked
  <2>1. CASE k \in 1 .. n /\ y[k] = x[k]
    <3>1. k - 1 \in 1 .. n
      BY <1>2, <2>1
    <3>2. y[k - 1] = x[k - 1]
      BY <1>4, <3>1
    <3> QED
      BY <1>2, <2>1, <3>2 DEF IsBatch
  <2>2. CASE k - n \in 1 .. m /\ k > n /\ y[k] = u[k - n]
    <3>1. k - n # 1
      BY <1>7, <2>2
    <3>2. k - n > 1 /\ k - 1 \in 1 .. n + m /\ k - 1 > n /\ (k - 1) - n = (k - n) - 1
      BY <1>2, <1>3, <2>2, <3>1
    <3>3. y[k - 1] = u[(k - n) - 1]
      BY <1>4, <3>2
    <3>4. Follows(u[(k - n) - 1], u[k - n])
      BY <1>1, <1>3, <2>2, <3>2 DEF Linked
    <3> QED
      BY <2>2, <3>3, <3>4
  <2> QED
    BY <1>6, <2>1, <2>2
<1>9. DeletesFirst(y)
  <2> SUFFICES ASSUME NEW j \in 1 .. n + m, NEW k \in 1 .. n + m, j < k, y[k].do = "delete-snapshot"
               PROVE  y[j].do \in {"delete-snapshot", "rmtree"}
    BY <1>4 DEF DeletesFirst
  <2>1. k \in 1 .. n /\ y[k] = x[k]
    BY <1>6, <1>7
  <2>2. j \in 1 .. n
    BY <1>2, <2>1
  <2>3. y[j] = x[j]
    BY <1>4, <2>2
  <2> QED
    BY <1>2, <2>1, <2>2, <2>3 DEF IsBatch
<1>10. ASSUME Closed(x), Closed(t)
       PROVE  Closed(y)
  <2> SUFFICES ASSUME NEW k \in 1 .. n + m, Opens(y[k])
               PROVE  k + 1 \in 1 .. n + m /\ Follows(y[k], y[k + 1])
    BY <1>4 DEF Closed
  <2>1. CASE k \in 1 .. n /\ y[k] = x[k]
    <3>1. k + 1 \in 1 .. n /\ Follows(x[k], x[k + 1])
      BY <1>2, <1>10, <2>1 DEF Closed
    <3>2. k + 1 \in 1 .. n + m
      BY <1>2, <1>3, <3>1
    <3> QED
      BY <1>4, <2>1, <3>1, <3>2
  <2>2. CASE k - n \in 1 .. m /\ k > n /\ y[k] = u[k - n]
    <3>1. Closed(u)
      BY <1>1, <1>10
    <3>2. (k - n) + 1 \in 1 .. m /\ Follows(u[k - n], u[(k - n) + 1])
      BY <1>3, <2>2, <3>1 DEF Closed
    <3>3. k + 1 \in 1 .. n + m /\ k + 1 > n /\ (k + 1) - n = (k - n) + 1
      BY <1>2, <1>3, <2>2, <3>2
    <3>4. y[k + 1] = u[(k - n) + 1]
      BY <1>4, <3>3
    <3> QED
      BY <2>2, <3>2, <3>3, <3>4
  <2> QED
    BY <1>6, <2>1, <2>2
<1>11. ASSUME NEW number, Doomed(x, number)
       PROVE  Doomed(y, number)
  <2>1. PICK k \in 1 .. n : x[k].do = "delete-snapshot" /\ x[k].number = number
    BY <1>2, <1>11 DEF Doomed
  <2>2. k \in 1 .. n + m /\ y[k] = x[k]
    BY <1>2, <1>3, <1>4, <2>1
  <2> QED
    BY <1>4, <2>1, <2>2 DEF Doomed
<1> QED
  BY <1>5, <1>8, <1>9, <1>10, <1>11 DEF y, u

HasConfig(v) == \E name \in DOMAIN configs : configs[name] \in {v, Unreadable}

\* What is so when the step s is the first of the list t.
Fits(s, t) ==
  LET v == s.subvolume
  IN /\ s.do \in Creating \ {"create-config"} => v \in OwnSnapshots \ ownMounted
     /\ s.do = "umount" => v \in ownMounted
     /\ s.do \in {"umount", "rmdir", "create-config"} =>
          s.arg \in DOMAIN doc.snapper /\ doc.snapper[s.arg] = v
     /\ s.do \in {"delete-nested", "mkdir", "mount"} => HasConfig(v) /\ records[v]["nested"] = {}
     /\ s.do = "rmtree" => s.number \notin snapshots[v][Side(v)]
     /\ s.do \in Deleting \cup {"remove-config"} =>
          s.arg \in DOMAIN configs \ DOMAIN doc.snapper /\ configs[s.arg] = v
     /\ s.do \in Deleting /\ Exists(v) => \A n \in snapshots[v][Side(v)] : Doomed(t, n)
     /\ s.do = "remove-config" /\ Exists(v) => snapshots[v][Side(v)] = {}

\* A snapshot has a directory that records it; both are in a subvolume.
DiskSound ==
  \A v \in Subvolumes : /\ under[v] # "subvolume" => records[v]["nested"] = {}
                        /\ \A w \in Where : snapshots[v][w] \subseteq records[v][w]

\* A mount is away only for as long as its config is made.
MountsSound ==
  ~createCut => \A v \in OwnSnapshots \ ownMounted :
    todo # <<>> /\ Head(todo).do \in Creating /\ Head(todo).subvolume = v

Registered ==
  ~createCut => \A v \in Subvolumes :
    (v \in ownMounted \/ v \notin OwnSnapshots) /\ snapshots[v][Side(v)] # {} /\ Exists(v) => HasConfig(v)

Owning ==
  /\ Linked(todo) /\ DeletesFirst(todo) /\ (~createCut => Closed(todo))
  /\ todo # <<>> => Fits(Head(todo), todo)
  /\ DiskSound /\ MountsSound /\ Registered

\* The state before a command h, with what is on the list behind it: t, with g at its head.
Before(h, t, g) ==
  /\ DiskTypes /\ DiskSound /\ Registered /\ Fits(h, todo) /\ h.subvolume \in Subvolumes
  /\ ~createCut => \A v \in OwnSnapshots \ ownMounted : h.do \in Creating /\ h.subvolume = v
  /\ t # <<>> /\ g.do \in Inner => Follows(h, g)
  /\ ~createCut /\ Opens(h) => t # <<>> /\ Follows(h, g)
  /\ \A n : Doomed(todo, n) => Doomed(t, n) \/ (h.do = "delete-snapshot" /\ h.number = n)
  /\ h.do \notin {"delete-snapshot", "rmtree"} => \A n : ~Doomed(t, n)

\* The state behind it.
MountedFor(t, g) ==
  ~createCut => \A v \in OwnSnapshots \ ownMounted :
    t # <<>> /\ g.do \in Creating /\ g.subvolume = v

After(t, g) ==
  /\ DiskSound' /\ Registered' /\ MountedFor(t, g)'
  /\ t # <<>> => Fits(g, t)'

LEMMA FitsOutside ==
  ASSUME NEW g, NEW t, g.do \notin Inner
  PROVE  Fits(g, t) /\ Fits(g, t)'
BY DEF Fits, Inner, Creating, Deleting

\* Whatever lies between two commands.
Quiet == doc' = doc /\ createCut' = createCut

LEMMA AfterOther ==
  ASSUME NEW h, NEW t, NEW g, Before(h, t, g), h.do \notin Inner \/ h.do = "unlist",
         UNCHANGED <<configs, snapshots, records, under, ownMounted>>, Quiet
  PROVE  After(t, g)
<1>1. t # <<>> => g.do \notin Inner
  BY DEF Before, Follows, Inner, Creating, Deleting
<1>2. t # <<>> => Fits(g, t)'
  BY <1>1, FitsOutside
<1>3. \A v : Side(v)' = Side(v) /\ Exists(v)' = Exists(v) /\ HasConfig(v)' = HasConfig(v)
  BY DEF Side, Exists, HasConfig
<1>4. DiskSound' /\ Registered'
  BY <1>3 DEF Before, DiskSound, Registered, Quiet
<1>5. MountedFor(t, g)'
  BY DEF Before, MountedFor, Inner, Creating, Quiet
<1> QED
  BY <1>2, <1>4, <1>5 DEF After

LEMMA AfterUmount ==
  ASSUME NEW h, NEW t, NEW g, Before(h, t, g), h.do = "umount", Umount(h.subvolume), Quiet
  PROVE  After(t, g)
<1> DEFINE v == h.subvolume
<1>1. /\ ownMounted' = ownMounted \ {v} /\ UNCHANGED <<configs, snapshots, records, under>>
      /\ v \in ownMounted /\ ownMounted \subseteq OwnSnapshots
      /\ h.arg \in DOMAIN doc.snapper /\ doc.snapper[h.arg] = v
  BY DEF Umount, Before, Fits, DiskTypes
<1>2. t # <<>> /\ g.do \in Inner => g.do = "rmdir" /\ g.arg = h.arg /\ g.subvolume = v
  BY DEF Before, Follows
<1>3. ~createCut => t # <<>> /\ g.do = "rmdir" /\ g.subvolume = v
  BY DEF Before, Follows, Opens
<1>4. DiskSound'
  BY <1>1 DEF Before, DiskSound
<1>5. \A u : u # v => Side(u)' = Side(u) /\ Exists(u)' = Exists(u)
  BY <1>1 DEF Side, Exists
<1>6. \A u : HasConfig(u)' = HasConfig(u)
  BY <1>1 DEF HasConfig
<1>7. Registered'
  BY <1>1, <1>5, <1>6 DEF Before, Registered, Quiet
<1>8. MountedFor(t, g)'
  BY <1>1, <1>3 DEF Before, MountedFor, Creating, Quiet
<1>9. ASSUME t # <<>>
      PROVE  Fits(g, t)'
  <2>1. CASE g.do \notin Inner
    BY <2>1, FitsOutside
  <2>2. CASE g.do \in Inner
    BY <1>1, <1>2, <1>9, <2>2 DEF Fits, Creating, Deleting, Quiet
  <2> QED
    BY <2>1, <2>2
<1> QED
  BY <1>4, <1>7, <1>8, <1>9 DEF After

LEMMA AfterRmdir ==
  ASSUME NEW h, NEW t, NEW g, Before(h, t, g), h.do = "rmdir", Rmdir(h.subvolume), Quiet
  PROVE  After(t, g)
<1> DEFINE v == h.subvolume
<1>1. /\ UNCHANGED <<configs, snapshots, records, ownMounted>>
      /\ v \in OwnSnapshots \ ownMounted /\ v \in Subvolumes /\ under \in [Subvolumes -> {"none", "dir", "subvolume"}]
      /\ h.arg \in DOMAIN doc.snapper /\ doc.snapper[h.arg] = v
  BY DEF Rmdir, Before, Fits, DiskTypes, Creating
<1>2. t # <<>> /\ g.do \in Inner => g.do = "create-config" /\ g.arg = h.arg /\ g.subvolume = v
  BY DEF Before, Follows
<1>3. ~createCut => t # <<>> /\ g.do = "create-config" /\ g.subvolume = v
  BY DEF Before, Follows, Opens
<1>4. \A u \in Subvolumes : \/ under'[u] = under[u]
                            \/ u = v /\ records[v]["nested"] = {}
  BY <1>1 DEF Rmdir, SetUnder
<1>5. DiskSound'
  BY <1>1, <1>4 DEF Before, DiskSound
<1>6. \A u \in Subvolumes : /\ Side(u)' = Side(u)
                            /\ u # v => Exists(u)' = Exists(u)
                            /\ HasConfig(u)' = HasConfig(u)
  BY <1>1 DEF Side, Exists, HasConfig, Rmdir, SetUnder
<1>7. Registered'
  BY <1>1, <1>6 DEF Before, Registered, Quiet
<1>8. MountedFor(t, g)'
  BY <1>1, <1>3 DEF Before, MountedFor, Creating, Quiet
<1>9. ASSUME t # <<>>
      PROVE  Fits(g, t)'
  <2>1. CASE g.do \notin Inner
    BY <2>1, FitsOutside
  <2>2. CASE g.do \in Inner
    BY <1>1, <1>2, <1>9, <2>2 DEF Fits, Creating, Deleting, Quiet
  <2> QED
    BY <2>1, <2>2
<1> QED
  BY <1>5, <1>7, <1>8, <1>9 DEF After

LEMMA AfterCreateConfig ==
  ASSUME NEW h, NEW t, NEW g, Before(h, t, g), h.do = "create-config",
         CreateConfig(h.arg, h.subvolume), Quiet
  PROVE  After(t, g)
<1> DEFINE v == h.subvolume
<1>1. /\ UNCHANGED <<snapshots, records, ownMounted>>
      /\ v \in Subvolumes /\ under \in [Subvolumes -> {"none", "dir", "subvolume"}]
      /\ v \notin ownMounted /\ under[v] = "none" /\ h.arg \notin DOMAIN configs
      /\ under' = [under EXCEPT ![v] = "subvolume"]
      /\ configs' = [n \in DOMAIN configs \cup {h.arg} |-> IF n = h.arg THEN v ELSE configs[n]]
      /\ OwnSnapshots \subseteq Subvolumes
  BY SnapperAssumption DEF CreateConfig, Refuses, Exists, SetUnder, Before, DiskTypes
<1>2. /\ t # <<>> /\ g.do \in Inner => g.do = "delete-nested" /\ g.subvolume = v
      /\ ~createCut /\ v \in OwnSnapshots => t # <<>> /\ g.do = "delete-nested" /\ g.subvolume = v
  BY DEF Before, Follows, Opens
<1>3. records[v]["nested"] = {}
  BY <1>1 DEF Before, DiskSound
<1>4. \A u \in Subvolumes : u # v => under'[u] = under[u]
  BY <1>1
<1>5. under'[v] = "subvolume"
  BY <1>1
<1>6. DiskSound'
  BY <1>1, <1>4, <1>5 DEF Before, DiskSound
<1>7. HasConfig(v)' /\ \A u : HasConfig(u) => HasConfig(u)'
  <2>1. h.arg \in DOMAIN configs' /\ configs'[h.arg] = v
    BY <1>1
  <2>2. \A n \in DOMAIN configs : n \in DOMAIN configs' /\ configs'[n] = configs[n]
    BY <1>1
  <2> QED
    BY <2>1, <2>2 DEF HasConfig
<1>8. \A u \in Subvolumes : u # v => Side(u)' = Side(u) /\ Exists(u)' = Exists(u)
  BY <1>1, <1>4 DEF Side, Exists
<1>9. Registered'
  BY <1>1, <1>7, <1>8 DEF Before, Registered, Quiet
<1>10. MountedFor(t, g)'
  BY <1>1, <1>2 DEF Before, MountedFor, Creating, Quiet
<1>11. ASSUME t # <<>>
       PROVE  Fits(g, t)'
  <2>1. CASE g.do \notin Inner
    BY <2>1, FitsOutside
  <2>2. CASE g.do \in Inner
    <3>1. g.do = "delete-nested" /\ g.subvolume = v
      BY <1>2, <1>11, <2>2
    <3>2. v \in OwnSnapshots \ ownMounted'
      BY <1>1, <1>11, <2>2 DEF Before, Follows
    <3> QED
      BY <1>1, <1>3, <1>7, <3>1, <3>2 DEF Fits, Creating, Deleting
  <2> QED
    BY <2>1, <2>2
<1> QED
  BY <1>6, <1>9, <1>10, <1>11 DEF After

\* What is at hand in each of the lemmas on a command.
LEMMA Given ==
  ASSUME NEW h, NEW t, NEW g, Before(h, t, g)
  PROVE  /\ h.subvolume \in Subvolumes /\ OwnSnapshots \subseteq Subvolumes
         /\ snapshots \in [Subvolumes -> [Where -> SUBSET Numbers]]
         /\ records \in [Subvolumes -> [Where -> SUBSET Numbers]]
         /\ under \in [Subvolumes -> {"none", "dir", "subvolume"}]
         /\ ownMounted \subseteq OwnSnapshots
         /\ "own" \in Where /\ "nested" \in Where
         /\ \A v \in Subvolumes : /\ under[v] # "subvolume" => records[v]["nested"] = {}
                                  /\ \A w \in Where : snapshots[v][w] \subseteq records[v][w]
BY SnapperAssumption DEF Before, DiskTypes, Where, DiskSound

LEMMA AfterDeleteNested ==
  ASSUME NEW h, NEW t, NEW g, Before(h, t, g), h.do = "delete-nested", DeleteNested(h.subvolume), Quiet
  PROVE  After(t, g)
<1> DEFINE v == h.subvolume
<1>1. /\ UNCHANGED <<configs, ownMounted>>
      /\ v \in OwnSnapshots \ ownMounted /\ HasConfig(v) /\ records[v]["nested"] = {}
      /\ under' = [under EXCEPT ![v] = "none"]
      /\ snapshots' = [snapshots EXCEPT ![v]["nested"] = {}]
      /\ records' = [records EXCEPT ![v]["nested"] = {}]
  BY DEF DeleteNested, SetUnder, Before, Fits, Creating
<1>2. /\ t # <<>> /\ g.do \in Inner => g.do = "mkdir" /\ g.subvolume = v
      /\ ~createCut => t # <<>> /\ g.do = "mkdir" /\ g.subvolume = v
  BY DEF Before, Follows, Opens
<1>3. /\ \A u \in Subvolumes : u # v => /\ under'[u] = under[u]
                                        /\ \A w \in Where : /\ snapshots'[u][w] = snapshots[u][w]
                                                            /\ records'[u][w] = records[u][w]
      /\ records'[v]["nested"] = {} /\ snapshots'[v]["nested"] = {}
      /\ \A w \in Where : w # "nested" => snapshots'[v][w] = snapshots[v][w] /\ records'[v][w] = records[v][w]
  BY <1>1, Given
<1>4. DiskSound'
  <2>1. /\ v \in Subvolumes
        /\ \A u \in Subvolumes : /\ under[u] # "subvolume" => records[u]["nested"] = {}
                                 /\ \A w \in Where : snapshots[u][w] \subseteq records[u][w]
    BY Given
  <2> HIDE DEF v
  <2>2. ASSUME NEW u \in Subvolumes
        PROVE  under'[u] # "subvolume" => records'[u]["nested"] = {}
    <3>1. CASE u = v
      BY <1>3, <3>1
    <3>2. CASE u # v
      <4>1. under'[u] = under[u] /\ records'[u]["nested"] = records[u]["nested"]
        BY <1>3, <3>2 DEF Where
      <4> QED
        BY <2>1, <4>1
    <3> QED
      BY <3>1, <3>2
  <2>3. ASSUME NEW u \in Subvolumes, NEW w \in Where
        PROVE  snapshots'[u][w] \subseteq records'[u][w]
    <3>1. CASE u = v /\ w = "nested"
      BY <1>3, <3>1
    <3>2. CASE ~(u = v /\ w = "nested")
      <4>1. snapshots'[u][w] = snapshots[u][w] /\ records'[u][w] = records[u][w]
        BY <1>3, <3>2
      <4> QED
        BY <2>1, <4>1
    <3> QED
      BY <3>1, <3>2
  <2> QED
    BY <2>2, <2>3 DEF DiskSound
<1>5. \A u \in Subvolumes : u # v => /\ Side(u)' = Side(u) /\ Exists(u)' = Exists(u)
                                     /\ snapshots'[u][Side(u)] = snapshots[u][Side(u)]
  BY <1>1, <1>3, SideType DEF Side, Exists
<1>6. \A u : HasConfig(u)' = HasConfig(u)
  BY <1>1 DEF HasConfig
<1>7. Registered'
  <2> SUFFICES ASSUME ~createCut, NEW u \in Subvolumes, u \in ownMounted \/ u \notin OwnSnapshots,
                      snapshots'[u][Side(u)'] # {}, Exists(u)'
               PROVE  HasConfig(u)'
    BY <1>1 DEF Registered, Quiet
  <2>1. u # v
    BY <1>1
  <2> QED
    BY <1>5, <1>6, <2>1 DEF Before, Registered
<1>8. MountedFor(t, g)'
  BY <1>1, <1>2 DEF Before, MountedFor, Creating, Quiet
<1>9. ASSUME t # <<>>
      PROVE  Fits(g, t)'
  <2>1. CASE g.do \notin Inner
    BY <2>1, FitsOutside
  <2>2. CASE g.do \in Inner
    <3>1. g.do = "mkdir" /\ g.subvolume = v
      BY <1>2, <1>9, <2>2
    <3> QED
      BY <1>1, <1>3, <1>6, <3>1 DEF Fits, Creating, Deleting
  <2> QED
    BY <2>1, <2>2
<1> QED
  BY <1>4, <1>7, <1>8, <1>9 DEF After

LEMMA AfterMkdir ==
  ASSUME NEW h, NEW t, NEW g, Before(h, t, g), h.do = "mkdir", Mkdir(h.subvolume), Quiet
  PROVE  After(t, g)
<1> DEFINE v == h.subvolume
<1>1. /\ UNCHANGED <<configs, snapshots, records, ownMounted>>
      /\ v \in OwnSnapshots \ ownMounted /\ HasConfig(v) /\ records[v]["nested"] = {}
      /\ under' = under \/ under' = [under EXCEPT ![v] = "dir"]
  BY DEF Mkdir, SetUnder, Before, Fits, Creating
<1>2. /\ t # <<>> /\ g.do \in Inner => g.do = "mount" /\ g.subvolume = v
      /\ ~createCut => t # <<>> /\ g.do = "mount" /\ g.subvolume = v
  BY DEF Before, Follows, Opens
<1>3. \A u \in Subvolumes : u # v => under'[u] = under[u]
  BY <1>1, Given
<1>4. DiskSound'
  BY <1>1, <1>3, Given DEF DiskSound
<1>5. \A u \in Subvolumes : u # v => Side(u)' = Side(u) /\ Exists(u)' = Exists(u)
  BY <1>1, <1>3 DEF Side, Exists
<1>6. \A u : HasConfig(u)' = HasConfig(u)
  BY <1>1 DEF HasConfig
<1>7. Registered'
  BY <1>1, <1>5, <1>6 DEF Before, Registered, Quiet
<1>8. MountedFor(t, g)'
  BY <1>1, <1>2 DEF Before, MountedFor, Creating, Quiet
<1>9. ASSUME t # <<>>
      PROVE  Fits(g, t)'
  <2>1. CASE g.do \notin Inner
    BY <2>1, FitsOutside
  <2>2. CASE g.do \in Inner
    <3>1. g.do = "mount" /\ g.subvolume = v
      BY <1>2, <1>9, <2>2
    <3> QED
      BY <1>1, <1>6, <3>1 DEF Fits, Creating, Deleting
  <2> QED
    BY <2>1, <2>2
<1> QED
  BY <1>4, <1>7, <1>8, <1>9 DEF After

\* The snapshots are in sight again, of the config that was made for them.
LEMMA AfterMount ==
  ASSUME NEW h, NEW t, NEW g, Before(h, t, g), h.do = "mount", Mount(h.subvolume), Quiet
  PROVE  After(t, g)
<1> DEFINE v == h.subvolume
<1>1. /\ UNCHANGED <<configs, snapshots, records, under>>
      /\ v \in OwnSnapshots \ ownMounted /\ HasConfig(v)
      /\ ownMounted' = ownMounted \cup {v}
  BY DEF Mount, Before, Fits, Creating
<1>2. t # <<>> => g.do \notin Inner
  BY DEF Before, Follows
<1>3. DiskSound'
  BY <1>1, Given DEF DiskSound
<1>4. \A u \in Subvolumes : u # v => Side(u)' = Side(u) /\ Exists(u)' = Exists(u)
  BY <1>1 DEF Side, Exists
<1>5. \A u : HasConfig(u)' = HasConfig(u)
  BY <1>1 DEF HasConfig
<1>6. Registered'
  BY <1>1, <1>4, <1>5 DEF Before, Registered, Quiet
<1>7. MountedFor(t, g)'
  BY <1>1 DEF Before, MountedFor, Quiet
<1>8. t # <<>> => Fits(g, t)'
  BY <1>2, FitsOutside
<1> QED
  BY <1>3, <1>6, <1>7, <1>8 DEF After

LEMMA AfterDeleteSnapshot ==
  ASSUME NEW h, NEW t, NEW g, Before(h, t, g), h.do = "delete-snapshot",
         DeleteSnapshot(h.subvolume, h.number), Quiet
  PROVE  After(t, g)
<1> DEFINE v == h.subvolume
<1>1. /\ UNCHANGED <<configs, records, under, ownMounted>>
      /\ h.arg \in DOMAIN configs \ DOMAIN doc.snapper /\ configs[h.arg] = v
      /\ Exists(v) => \A n \in snapshots[v][Side(v)] : Doomed(todo, n)
      /\ snapshots' = [snapshots EXCEPT ![v][Side(v)] = @ \ {h.number}]
  BY DEF DeleteSnapshot, Before, Fits, Deleting
<1>2. t # <<>> /\ g.do \in Inner =>
        g.do = "rmtree" /\ g.subvolume = v /\ g.arg = h.arg /\ g.number = h.number
  BY DEF Before, Follows
<1>3. /\ \A u \in Subvolumes, w \in Where : snapshots'[u][w] \subseteq snapshots[u][w]
      /\ snapshots'[v][Side(v)] = snapshots[v][Side(v)] \ {h.number}
  BY <1>1, Given, SideType
<1>4. DiskSound'
  BY <1>1, <1>3, Given DEF DiskSound
<1>5. \A u : Side(u)' = Side(u) /\ Exists(u)' = Exists(u) /\ HasConfig(u)' = HasConfig(u)
  BY <1>1 DEF Side, Exists, HasConfig
<1>6. Registered'
  <2> SUFFICES ASSUME ~createCut, NEW u \in Subvolumes, u \in ownMounted \/ u \notin OwnSnapshots,
                      snapshots'[u][Side(u)'] # {}, Exists(u)'
               PROVE  HasConfig(u)'
    BY <1>1 DEF Registered, Quiet
  <2>1. snapshots[u][Side(u)] # {}
    BY <1>3, <1>5, SideType
  <2> QED
    BY <1>5, <2>1 DEF Before, Registered
<1>7. MountedFor(t, g)'
  BY <1>1 DEF Before, MountedFor, Creating, Quiet
<1>8. ASSUME t # <<>>
      PROVE  Fits(g, t)'
  <2>1. CASE g.do \notin Inner
    BY <2>1, FitsOutside
  <2>2. CASE g.do \in Inner
    <3>1. g.do = "rmtree" /\ g.subvolume = v /\ g.arg = h.arg /\ g.number = h.number
      BY <1>2, <1>8, <2>2
    <3>2. g.number \notin snapshots'[v][Side(v)']
      BY <1>3, <1>5, <3>1
    <3>3. Exists(v)' => \A n \in snapshots'[v][Side(v)'] : Doomed(t, n)
      BY <1>1, <1>3, <1>5 DEF Before
    <3>4. Exists(v)' => \A n \in snapshots'[v][Side(v)'] : Doomed(t, n)'
      BY <3>3 DEF Doomed
    <3> QED
      BY <1>1, <3>1, <3>2, <3>4 DEF Fits, Creating, Deleting, Quiet
  <2> QED
    BY <2>1, <2>2
<1> QED
  BY <1>4, <1>6, <1>7, <1>8 DEF After

LEMMA AfterRmtree ==
  ASSUME NEW h, NEW t, NEW g, Before(h, t, g), h.do = "rmtree",
         Rmtree(h.subvolume, h.number), Quiet
  PROVE  After(t, g)
<1> DEFINE v == h.subvolume
<1>1. /\ UNCHANGED <<configs, snapshots, under, ownMounted>>
      /\ h.arg \in DOMAIN configs \ DOMAIN doc.snapper /\ configs[h.arg] = v
      /\ h.number \notin snapshots[v][Side(v)]
      /\ Exists(v) => \A n \in snapshots[v][Side(v)] : Doomed(todo, n)
      /\ records' = [records EXCEPT ![v][Side(v)] = @ \ {h.number}]
  BY DEF Rmtree, Before, Fits, Deleting
<1>2. t # <<>> /\ g.do \in Inner =>
        g.do \in {"delete-snapshot", "delete-container"} /\ g.subvolume = v /\ g.arg = h.arg
  BY DEF Before, Follows
<1>3. /\ \A u \in Subvolumes, w \in Where : \/ records'[u][w] = records[u][w]
                                            \/ u = v /\ w = Side(v) /\ records'[u][w] = records[u][w] \ {h.number}
  BY <1>1, Given, SideType
<1>4. DiskSound'
  BY <1>1, <1>3, Given DEF DiskSound
<1>5. \A u : Side(u)' = Side(u) /\ Exists(u)' = Exists(u) /\ HasConfig(u)' = HasConfig(u)
  BY <1>1 DEF Side, Exists, HasConfig
<1>6. Registered'
  BY <1>1, <1>5 DEF Before, Registered, Quiet
<1>7. MountedFor(t, g)'
  BY <1>1 DEF Before, MountedFor, Creating, Quiet
<1>8. ASSUME t # <<>>
      PROVE  Fits(g, t)'
  <2>1. CASE g.do \notin Inner
    BY <2>1, FitsOutside
  <2>2. CASE g.do \in Inner
    <3>1. g.do \in {"delete-snapshot", "delete-container"} /\ g.subvolume = v /\ g.arg = h.arg
      BY <1>2, <1>8, <2>2
    <3>3. Exists(v)' => \A n \in snapshots'[v][Side(v)'] : Doomed(t, n)
      BY <1>1, <1>5 DEF Before
    <3>4. Exists(v)' => \A n \in snapshots'[v][Side(v)'] : Doomed(t, n)'
      BY <3>3 DEF Doomed
    <3> QED
      BY <1>1, <3>1, <3>4 DEF Fits, Creating, Deleting, Quiet
  <2> QED
    BY <2>1, <2>2
<1> QED
  BY <1>4, <1>6, <1>7, <1>8 DEF After

LEMMA AfterDeleteContainer ==
  ASSUME NEW h, NEW t, NEW g, Before(h, t, g), h.do = "delete-container",
         DeleteContainer(h.subvolume), Quiet
  PROVE  After(t, g)
<1> DEFINE v == h.subvolume
<1>1. /\ UNCHANGED <<configs, ownMounted>>
      /\ h.arg \in DOMAIN configs \ DOMAIN doc.snapper /\ configs[h.arg] = v
      /\ Exists(v) => \A n \in snapshots[v][Side(v)] : Doomed(todo, n)
      /\ \/ UNCHANGED <<snapshots, records, under>>
         \/ /\ v \notin ownMounted /\ under[v] = "subvolume"
            /\ under' = [under EXCEPT ![v] = "none"]
            /\ snapshots' = [snapshots EXCEPT ![v]["nested"] = {}]
            /\ records' = [records EXCEPT ![v]["nested"] = {}]
  BY DEF DeleteContainer, DeleteNested, SetUnder, snapperDisk, btrfs, Before, Fits, Deleting
<1>2. t # <<>> /\ g.do \in Inner => g.do = "remove-config" /\ g.subvolume = v /\ g.arg = h.arg
  BY DEF Before, Follows
<1>3. Exists(v) => snapshots[v][Side(v)] = {}
  BY <1>1 DEF Before
<1>4. /\ \A u \in Subvolumes : \/ under'[u] = under[u]
                               \/ u = v /\ under'[u] = "none" /\ v \notin ownMounted /\ records'[u]["nested"] = {}
      /\ \A u \in Subvolumes, w \in Where :
           \/ snapshots'[u][w] = snapshots[u][w] /\ records'[u][w] = records[u][w]
           \/ snapshots'[u][w] = {} /\ records'[u][w] = {}
  <2>1. CASE UNCHANGED <<snapshots, records, under>>
    BY <2>1
  <2>2. CASE /\ v \notin ownMounted
             /\ under' = [under EXCEPT ![v] = "none"]
             /\ snapshots' = [snapshots EXCEPT ![v]["nested"] = {}]
             /\ records' = [records EXCEPT ![v]["nested"] = {}]
    <3>1. \A u \in Subvolumes : u # v => /\ under'[u] = under[u]
                                         /\ snapshots'[u] = snapshots[u] /\ records'[u] = records[u]
      BY <2>2, Given
    <3>2. under'[v] = "none" /\ records'[v]["nested"] = {} /\ snapshots'[v]["nested"] = {}
      BY <2>2, Given
    <3>3. \A w \in Where : w # "nested" =>
            snapshots'[v][w] = snapshots[v][w] /\ records'[v][w] = records[v][w]
      BY <2>2, Given
    <3> QED
      BY <2>2, <3>1, <3>2, <3>3
  <2> QED
    BY <1>1, <2>1, <2>2
<1>5. DiskSound'
  <2> SUFFICES ASSUME NEW u \in Subvolumes
               PROVE  /\ under'[u] # "subvolume" => records'[u]["nested"] = {}
                      /\ \A w \in Where : snapshots'[u][w] \subseteq records'[u][w]
    BY DEF DiskSound
  <2> QED
    BY <1>4, Given
<1>6. \A u : Side(u)' = Side(u) /\ HasConfig(u)' = HasConfig(u)
  BY <1>1 DEF Side, HasConfig
<1>7. \A u \in Subvolumes : Exists(u)' => Exists(u)
  BY <1>1, <1>4 DEF Exists
<1>8. \A u \in Subvolumes : Exists(u)' /\ snapshots'[u][Side(u)] # {} =>
        snapshots[u][Side(u)] # {}
  BY <1>4, SideType
<1>9. Registered'
  <2> SUFFICES ASSUME ~createCut, NEW u \in Subvolumes, u \in ownMounted \/ u \notin OwnSnapshots,
                      snapshots'[u][Side(u)'] # {}, Exists(u)'
               PROVE  HasConfig(u)'
    BY <1>1 DEF Registered, Quiet
  <2>1. snapshots[u][Side(u)] # {}
    BY <1>6, <1>8
  <2> QED
    BY <1>6, <1>7, <2>1 DEF Before, Registered
<1>10. MountedFor(t, g)'
  BY <1>1 DEF Before, MountedFor, Creating, Quiet
<1>11. ASSUME t # <<>>
       PROVE  Fits(g, t)'
  <2>1. CASE g.do \notin Inner
    BY <2>1, FitsOutside
  <2>2. CASE g.do \in Inner
    <3>1. g.do = "remove-config" /\ g.subvolume = v /\ g.arg = h.arg
      BY <1>2, <1>11, <2>2
    <3>2. Exists(v)' => snapshots'[v][Side(v)'] = {}
      BY <1>3, <1>6, <1>7, <1>8, Given
    <3> QED
      BY <1>1, <3>1, <3>2 DEF Fits, Creating, Deleting, Quiet
  <2> QED
    BY <2>1, <2>2
<1> QED
  BY <1>5, <1>9, <1>10, <1>11 DEF After

\* The registration goes when there is nothing left that it owns.
LEMMA AfterRemoveConfig ==
  ASSUME NEW h, NEW t, NEW g, Before(h, t, g), h.do = "remove-config", RemoveConfig(h.arg), Quiet
  PROVE  After(t, g)
<1> DEFINE v == h.subvolume
<1>1. /\ UNCHANGED <<snapshots, records, under, ownMounted>>
      /\ h.arg \in DOMAIN configs /\ configs[h.arg] = v
      /\ Exists(v) => snapshots[v][Side(v)] = {}
      /\ configs' = [n \in DOMAIN configs \ {h.arg} |-> configs[n]]
  BY DEF RemoveConfig, Restrict, btrfs, Before, Fits
<1>2. t # <<>> => g.do \notin Inner \/ g.do = "unlist"
  BY DEF Before, Follows
<1>3. DiskSound'
  BY <1>1, Given DEF DiskSound
<1>4. \A u : Side(u)' = Side(u) /\ Exists(u)' = Exists(u)
  BY <1>1 DEF Side, Exists
<1>5. v \in Subvolumes /\ v # Unreadable
  BY Given, SnapperAssumption
<1>6. \A u : u # v /\ HasConfig(u) => HasConfig(u)'
  <2> SUFFICES ASSUME NEW u, u # v, HasConfig(u)
               PROVE  HasConfig(u)'
    OBVIOUS
  <2>1. PICK n \in DOMAIN configs : configs[n] \in {u, Unreadable}
    BY DEF HasConfig
  <2>2. n # h.arg
    BY <1>1, <1>5, <2>1
  <2>3. n \in DOMAIN configs' /\ configs'[n] = configs[n]
    BY <1>1, <2>1, <2>2
  <2> QED
    BY <2>1, <2>3 DEF HasConfig
<1>7. Registered'
  BY <1>1, <1>4, <1>6 DEF Before, Registered, Quiet
<1>8. MountedFor(t, g)'
  BY <1>1 DEF Before, MountedFor, Creating, Quiet
<1>9. t # <<>> => Fits(g, t)'
  <2>1. CASE g.do \notin Inner
    BY <2>1, FitsOutside
  <2>2. CASE g.do = "unlist"
    BY <2>2 DEF Fits, Creating, Deleting
  <2> QED
    BY <1>2, <2>1, <2>2
<1> QED
  BY <1>3, <1>7, <1>8, <1>9 DEF After

LEMMA AfterCommand ==
  ASSUME NEW h, NEW t, NEW g, Before(h, t, g), Command(h), Quiet
  PROVE  After(t, g)
<1>1. CASE h.do = "unlist" /\ Unlist(h.arg)
  BY <1>1, AfterOther DEF Unlist, btrfs
<1> QED
  BY <1>1, AfterUmount, AfterRmdir, AfterCreateConfig, AfterDeleteNested, AfterMkdir, AfterMount,
     AfterDeleteSnapshot, AfterRmtree, AfterDeleteContainer, AfterRemoveConfig DEF Command

LEMMA NothingLinked ==
  ASSUME NEW t, DOMAIN t = {} \/ \A k \in DOMAIN t : t[k].do \notin Inner
  PROVE  Linked(t) /\ DeletesFirst(t) /\ Closed(t)
BY DEF Linked, DeletesFirst, Closed, Opens, Inner, Creating, Deleting

LEMMA OwningInit == Init => Owning
<1> SUFFICES ASSUME Init
             PROVE  Owning
  OBVIOUS
<1>1. /\ todo = <<>> /\ DOMAIN todo = {} /\ ownMounted = OwnSnapshots
      /\ snapshots = [v \in Subvolumes |-> [w \in Where |-> {}]] /\ records = snapshots
  BY DEF Init
<1>2. /\ \A v \in Subvolumes, w \in Where : snapshots[v][w] = {} /\ records[v][w] = {}
      /\ "nested" \in Where /\ \A v : Side(v) \in Where
  BY <1>1, SideType DEF Where
<1>3. DiskSound /\ Registered
  BY <1>2 DEF DiskSound, Registered
<1>4. MountsSound
  BY <1>1 DEF MountsSound
<1> QED
  BY <1>1, <1>3, <1>4, NothingLinked DEF Owning

\* Nothing of what Owning says of the disk changes.
LEMMA DiskStays ==
  ASSUME DiskSound, Registered, UNCHANGED snapperDisk, createCut => createCut'
  PROVE  DiskSound' /\ Registered'
<1>1. UNCHANGED <<configs, snapshots, records, under, ownMounted>>
  BY DEF snapperDisk, btrfs
<1>2. \A v : Side(v)' = Side(v) /\ Exists(v)' = Exists(v) /\ HasConfig(v)' = HasConfig(v)
  BY <1>1 DEF Side, Exists, HasConfig
<1> QED
  BY <1>1, <1>2 DEF DiskSound, Registered

LEMMA OwningWorks ==
  ASSUME Base, Owning, Working
  PROVE  Owning'
<1>1. /\ pc = "running" /\ todo # <<>> /\ todo' = Tail(todo) /\ doc' = doc
  BY WorkingTakes DEF Took
<1>2. createCut' = createCut
  BY DEF Working, InstallSnapper, SnapperCommand, Zone, Reload, Ufw, Packages, Units,
         SnapperOnly, FirewallOnly, Same, ghosts
<1>3. PICK h, t, g : h = Head(todo) /\ t = Tail(todo) /\ g = Head(t)
  OBVIOUS
<1>4. IsSteps(todo) /\ Linked(todo) /\ DeletesFirst(todo)
  BY DEF Base, Owning
<1>5. /\ Linked(t) /\ DeletesFirst(t)
      /\ t # <<>> /\ g.do \in Inner => Follows(h, g)
      /\ Closed(todo) => Closed(t)
      /\ Closed(todo) /\ Opens(h) => t # <<>> /\ Follows(h, g)
      /\ \A n : Doomed(todo, n) => Doomed(t, n) \/ (h.do = "delete-snapshot" /\ h.number = n)
      /\ h.do \notin {"delete-snapshot", "rmtree"} => \A n : ~Doomed(t, n)
  BY <1>1, <1>3, <1>4, NextStep
<1>6. DiskTypes /\ DiskSound /\ Registered /\ Fits(h, todo) /\ (~createCut => Closed(todo))
  BY <1>1, <1>3 DEF Base, Owning
<1>7. ~createCut => \A v \in OwnSnapshots \ ownMounted : h.do \in Creating /\ h.subvolume = v
  BY <1>3 DEF Owning, MountsSound
<1>8. h.do \in Inner => h.subvolume \in Subvolumes
  <2>1. h = todo[1] /\ 1 \in DOMAIN todo
    <3>1. h = todo[1] /\ Len(todo) >= 1 /\ DOMAIN todo = 1 .. Len(todo) /\ Len(todo) \in Nat
      BY <1>1, <1>3, <1>4, TailIs, StepsAre
    <3> QED
      BY <3>1
  <2> QED
    BY <2>1 DEF Base, StepsSound
<1>9. CASE Command(h) /\ SnapperCommand
  <2>1. h.do \in Inner
    BY <1>9, CommandConfigs
  <2>2. Before(h, t, g)
    BY <1>5, <1>6, <1>7, <1>8, <2>1 DEF Before
  <2>3. After(t, g)
    BY <1>1, <1>2, <1>9, <2>2, AfterCommand DEF Quiet
  <2>4. MountsSound'
    BY <1>1, <1>3, <2>3 DEF After, MountedFor, MountsSound
  <2>5. (todo # <<>> => Fits(Head(todo), todo))'
    <3>1. todo' = t /\ Head(todo)' = g
      BY <1>1, <1>3
    <3>2. t # <<>> => Fits(g, t)'
      BY <2>3 DEF After
    <3> QED
      BY <3>1, <3>2 DEF Fits, Doomed
  <2>6. Linked(todo') /\ DeletesFirst(todo') /\ (~createCut' => Closed(todo'))
    BY <1>1, <1>2, <1>3, <1>5, <1>6
  <2>7. Linked(todo)' /\ DeletesFirst(todo)' /\ (~createCut => Closed(todo))'
    BY <2>6 DEF Linked, DeletesFirst, Closed
  <2> QED
    BY <2>3, <2>4, <2>5, <2>7 DEF Owning, After
<1>10. CASE ~SnapperCommand
  <2>1. UNCHANGED snapperDisk
    BY <1>10, WorkingConfigs
  <2>2. h.do \notin Inner
    BY <1>3, <1>10 DEF Working, InstallSnapper, Zone, Reload, Ufw, Packages, Units, Now, Inner, Creating, Deleting
  <2>3. t # <<>> => g.do \notin Inner
    BY <1>5, <2>2 DEF Follows, Inner, Creating, Deleting
  <2>4. DiskSound' /\ Registered'
    BY <1>2, <1>6, <2>1, DiskStays
  <2>5. MountsSound'
    BY <1>2, <1>7, <2>1, <2>2 DEF MountsSound, Inner, snapperDisk, btrfs
  <2>6. t # <<>> => Fits(g, t)'
    BY <2>3, FitsOutside
  <2>7. (todo # <<>> => Fits(Head(todo), todo))'
    <3>1. todo' = t /\ Head(todo)' = g
      BY <1>1, <1>3
    <3> QED
      BY <2>6, <3>1 DEF Fits, Doomed
  <2>8. Linked(todo') /\ DeletesFirst(todo') /\ (~createCut' => Closed(todo'))
    BY <1>1, <1>2, <1>3, <1>5, <1>6
  <2>9. Linked(todo)' /\ DeletesFirst(todo)' /\ (~createCut => Closed(todo))'
    BY <2>8 DEF Linked, DeletesFirst, Closed
  <2> QED
    BY <2>4, <2>5, <2>7, <2>9 DEF Owning
<1> QED
  BY <1>3, <1>9, <1>10, WorkingConfigs DEF SnapperCommand, Command

LEMMA OwningUnfolds ==
  ASSUME Base, Owning, Unfolding
  PROVE  Owning'
<1>1. /\ pc = "running" /\ todo # <<>> /\ doc' = doc /\ UNCHANGED snapperDisk /\ createCut' = createCut
  BY UnfoldingPuts DEF snapperVars, ghosts
<1>2. PICK x, v : /\ v \in Subvolumes /\ IsBatch(x, Head(todo).arg, v) /\ todo' = x \o Tail(todo)
                  /\ \/ /\ Head(todo).do = "create" /\ v = doc.snapper[Head(todo).arg]
                        /\ x = CreateSteps(Head(todo).arg, v)
                     \/ /\ Head(todo).do = "remove" /\ v = configs[Head(todo).arg]
                        /\ x = DeleteSteps(Head(todo).arg, v)
  BY UnfoldingPuts
<1>3. PICK h, y, name : h = Head(todo) /\ y = x \o Tail(todo) /\ name = h.arg
  OBVIOUS
<1>4. IsSteps(todo) /\ Linked(todo) /\ DeletesFirst(todo) /\ (~createCut => Closed(todo))
  BY DEF Base, Owning
<1>5. /\ Linked(y) /\ DeletesFirst(y) /\ (Closed(x) /\ Closed(todo) => Closed(y))
      /\ y # <<>> /\ Head(y) = x[1] /\ 1 \in DOMAIN x
      /\ \A n : Doomed(x, n) => Doomed(y, n)
  BY <1>1, <1>2, <1>3, <1>4, NextBatch
<1>6. /\ DiskTypes /\ DiskSound /\ Registered /\ ownMounted \subseteq OwnSnapshots
  BY DEF Base, Owning, DiskTypes
<1>7. ~createCut => OwnSnapshots \subseteq ownMounted
  BY <1>1, <1>2 DEF Owning, MountsSound, Creating
<1>8. h = todo[1] /\ 1 \in DOMAIN todo
  <2>1. h = todo[1] /\ Len(todo) >= 1 /\ DOMAIN todo = 1 .. Len(todo) /\ Len(todo) \in Nat
    BY <1>1, <1>3, <1>4, TailIs, StepsAre
  <2> QED
    BY <2>1
<1>9. PICK g : g = x[1]
  OBVIOUS
<1>10. g.arg = name /\ g.subvolume = v
  BY <1>2, <1>3, <1>5, <1>9 DEF IsBatch
<1>11. Fits(g, y) /\ (~createCut => Closed(x))
  <2>1. CASE h.do = "create"
    <3>1. v = doc.snapper[name] /\ x = CreateSteps(name, v)
      BY <1>2, <1>3, <2>1
    <3>2. /\ v \in ownMounted => g.do = "umount"
          /\ v \notin ownMounted => g.do = "create-config"
          /\ v \in ownMounted \/ v \notin OwnSnapshots => Closed(x)
      BY <1>6, <1>9, <3>1, CreateBatch
    <3>3. name \in DOMAIN doc.snapper
      BY <1>3, <1>8, <2>1 DEF Base, StepsSound
    <3>4. Fits(g, y)
      BY <1>10, <3>1, <3>2, <3>3 DEF Fits, Creating, Deleting
    <3> QED
      BY <1>7, <3>2, <3>4
  <2>2. CASE h.do = "remove"
    <3>1. v = configs[name] /\ x = DeleteSteps(name, v)
      BY <1>2, <1>3, <2>2
    <3>2. IsFiniteSet(NumberedSnapshotDirs(v))
      BY <1>2, <1>6, SideType, FS_EmptySet DEF NumberedSnapshotDirs, DiskTypes
    <3>3. /\ g.do \in {"delete-snapshot", "delete-container"}
          /\ \A k \in DOMAIN x : x[k].do \in Deleting \cup {"remove-config", "unlist"}
          /\ \A number \in NumberedSnapshotDirs(v) : \E k \in DOMAIN x :
                 x[k].do = "delete-snapshot" /\ x[k].number = number
      BY <1>9, <3>1, <3>2, DeleteBatch
    <3>4. name \in DOMAIN configs \ DOMAIN doc.snapper
      BY <1>3, <1>8, <2>2 DEF Base, StepsSound
    <3>5. Exists(v) => \A n \in snapshots[v][Side(v)] : Doomed(y, n)
      <4> SUFFICES ASSUME Exists(v), NEW n \in snapshots[v][Side(v)]
                   PROVE  Doomed(y, n)
        OBVIOUS
      <4>1. n \in NumberedSnapshotDirs(v)
        BY <1>2, <1>6, SideType DEF NumberedSnapshotDirs, DiskSound
      <4>2. Doomed(x, n)
        BY <3>3, <4>1 DEF Doomed
      <4> QED
        BY <1>5, <4>2
    <3>6. Fits(g, y)
      BY <1>10, <3>1, <3>3, <3>4, <3>5 DEF Fits, Creating, Deleting
    <3>7. Closed(x)
      BY <3>3 DEF Closed, Opens, Deleting
    <3> QED
      BY <3>6, <3>7
  <2> QED
    BY <1>2, <1>3, <2>1, <2>2
<1>12. DiskSound' /\ Registered'
  BY <1>1, <1>6, DiskStays
<1>13. UNCHANGED <<configs, snapshots, records, under, ownMounted>>
  BY <1>1 DEF snapperDisk, btrfs
<1>14. Fits(g, y)'
  BY <1>1, <1>11, <1>13 DEF Fits, Side, Exists, HasConfig, Doomed
<1>15. (todo # <<>> => Fits(Head(todo), todo))'
  <2>1. todo' = y /\ Head(todo)' = g
    BY <1>2, <1>3, <1>5, <1>9
  <2> QED
    BY <1>14, <2>1 DEF Fits, Doomed
<1>16. MountsSound'
  BY <1>1, <1>7, <1>13 DEF MountsSound
<1>17. Linked(todo') /\ DeletesFirst(todo') /\ (~createCut' => Closed(todo'))
  BY <1>1, <1>2, <1>3, <1>4, <1>5, <1>11
<1>18. Linked(todo)' /\ DeletesFirst(todo)' /\ (~createCut => Closed(todo))'
  BY <1>17 DEF Linked, DeletesFirst, Closed
<1> QED
  BY <1>12, <1>15, <1>16, <1>18 DEF Owning

LEMMA OwningRests ==
  ASSUME Base, Owning, Resting
  PROVE  Owning'
<1>1. pc = "idle" /\ todo' = todo /\ todo = <<>> /\ DOMAIN todo = {}
  BY RestingRests DEF Base
<1>2. Linked(todo') /\ DeletesFirst(todo') /\ Closed(todo')
  BY <1>1, NothingLinked
<1>3. Linked(todo)' /\ DeletesFirst(todo)' /\ Closed(todo)'
  BY <1>2 DEF Linked, DeletesFirst, Closed
<1>4. createCut' = createCut
  BY DEF Resting, EditDoc, Sync, Hand, Snapshot, Reboot, ghosts
<1>5. DiskTypes /\ DiskSound /\ Registered /\ ownMounted \subseteq OwnSnapshots
  BY DEF Base, Owning, DiskTypes
<1>6. ~createCut => OwnSnapshots \subseteq ownMounted
  BY <1>1 DEF Owning, MountsSound
<1>7. SUFFICES DiskSound' /\ Registered' /\ MountsSound'
  BY <1>1, <1>3, <1>7 DEF Owning
<1>8. CASE UNCHANGED snapperDisk
  <2>1. DiskSound' /\ Registered'
    BY <1>4, <1>5, <1>8, DiskStays
  <2>2. MountsSound'
    BY <1>4, <1>6, <1>8 DEF MountsSound, snapperDisk, btrfs
  <2> QED
    BY <2>1, <2>2
<1>9. CASE Hand
  <2>1. UNCHANGED <<snapshots, records, under, ownMounted>>
    BY <1>9 DEF Hand, snapperDisk, btrfs
  <2>2. configs' = configs \/ \E name \in DOMAIN configs : configs' = [configs EXCEPT ![name] = Unreadable]
    BY <1>9 DEF Hand, snapperDisk
  <2>3. DOMAIN configs' = DOMAIN configs /\ \A n \in DOMAIN configs : configs'[n] \in {configs[n], Unreadable}
    BY <2>2
  <2>4. \A v : /\ Side(v)' = Side(v) /\ Exists(v)' = Exists(v)
               /\ HasConfig(v) => HasConfig(v)'
    <3>1. \A v : Side(v)' = Side(v) /\ Exists(v)' = Exists(v)
      BY <2>1 DEF Side, Exists
    <3>2. \A v : HasConfig(v) => HasConfig(v)'
      BY <2>3 DEF HasConfig
    <3> QED
      BY <3>1, <3>2
  <2>5. DiskSound' /\ Registered'
    BY <1>4, <1>5, <2>1, <2>4 DEF DiskSound, Registered
  <2>6. MountsSound'
    BY <1>4, <1>6, <2>1 DEF MountsSound
  <2> QED
    BY <2>5, <2>6
<1>10. CASE Snapshot
  <2>1. PICK name \in DOMAIN configs, number \in Numbers :
          LET v == configs[name]
          IN /\ v # Unreadable /\ Exists(v)
             /\ ~(Side(v) = "nested" /\ under[v] = "dir")
             /\ snapshots' = [snapshots EXCEPT ![v][Side(v)] = @ \cup {number}]
             /\ records' = [records EXCEPT ![v][Side(v)] = @ \cup {number}]
             /\ UNCHANGED <<configs, listed, under, ownMounted, ownedSnapper>>
    BY <1>10 DEF Snapshot, TakeSnapshot
  <2> DEFINE v == configs[name]
  <2>2. v \in Subvolumes /\ Side(v) \in Where
    BY <1>5, <2>1, SideType DEF DiskTypes
  <2>3. /\ snapshots' = [snapshots EXCEPT ![v][Side(v)] = @ \cup {number}]
        /\ records' = [records EXCEPT ![v][Side(v)] = @ \cup {number}]
        /\ UNCHANGED <<configs, under, ownMounted>>
        /\ Exists(v) /\ ~(Side(v) = "nested" /\ under[v] = "dir")
    BY <2>1
  <2>4. HasConfig(v)
    BY <2>1 DEF HasConfig
  <2> HIDE DEF v
  <2>5. \A u \in Subvolumes, w \in Where :
          \/ snapshots'[u][w] = snapshots[u][w] /\ records'[u][w] = records[u][w]
          \/ /\ u = v /\ w = Side(v) /\ snapshots'[u][w] = snapshots[u][w] \cup {number}
             /\ records'[u][w] = records[u][w] \cup {number}
    BY <1>5, <2>2, <2>3 DEF DiskTypes
  <2>6. Side(v) = "nested" => under[v] = "subvolume"
    <3>1. under[v] \in {"none", "dir", "subvolume"}
      BY <1>5, <2>2 DEF DiskTypes
    <3> QED
      BY <2>3, <3>1 DEF Side, Exists
  <2>7. DiskSound'
    <3> SUFFICES ASSUME NEW u \in Subvolumes
                 PROVE  /\ under'[u] # "subvolume" => records'[u]["nested"] = {}
                        /\ \A w \in Where : snapshots'[u][w] \subseteq records'[u][w]
      BY DEF DiskSound
    <3>1. "nested" \in Where
      BY DEF Where
    <3> QED
      BY <1>5, <2>3, <2>5, <2>6, <3>1 DEF DiskSound
  <2>8. \A u : Side(u)' = Side(u) /\ Exists(u)' = Exists(u) /\ HasConfig(u)' = HasConfig(u)
    BY <2>3 DEF Side, Exists, HasConfig
  <2>9. Registered'
    <3> SUFFICES ASSUME ~createCut, NEW u \in Subvolumes, u \in ownMounted \/ u \notin OwnSnapshots,
                        snapshots'[u][Side(u)] # {}, Exists(u)
                 PROVE  HasConfig(u)
      BY <1>4, <2>3, <2>8 DEF Registered
    <3>1. CASE u = v
      BY <2>4, <3>1
    <3>2. CASE u # v
      <4>1. snapshots[u][Side(u)] # {}
        BY <2>5, <3>2, SideType
      <4> QED
        BY <1>5, <4>1 DEF Registered
    <3> QED
      BY <3>1, <3>2
  <2>10. MountsSound'
    BY <1>4, <1>6, <2>3 DEF MountsSound
  <2> QED
    BY <2>7, <2>9, <2>10
<1>11. CASE Reboot
  <2>1. /\ ownMounted' = OwnSnapshots /\ UNCHANGED <<configs, snapshots, records>>
        /\ under' = [v \in Subvolumes |-> IF v \in OwnSnapshots /\ under[v] = "none" THEN "dir" ELSE under[v]]
    BY <1>11 DEF Reboot, MountFstab
  <2>2. DiskSound'
    BY <1>5, <2>1 DEF DiskSound
  <2>3. ~createCut => ownMounted' = ownMounted
    BY <1>5, <1>6, <2>1
  <2>4. ~createCut => \A u \in Subvolumes :
          Side(u)' = Side(u) /\ (Exists(u)' => Exists(u)) /\ HasConfig(u)' = HasConfig(u)
    BY <2>1, <2>3 DEF Side, Exists, HasConfig
  <2>5. Registered'
    BY <1>4, <1>5, <2>1, <2>3, <2>4 DEF Registered
  <2>6. MountsSound'
    BY <2>1 DEF MountsSound
  <2> QED
    BY <2>2, <2>5, <2>6
<1>12. CASE EditDoc \/ Sync
  BY <1>8, <1>12 DEF EditDoc, Sync
<1> QED
  BY <1>9, <1>10, <1>11, <1>12 DEF Resting

LEMMA OwningNext == Base /\ Owning /\ [Next]_vars => Owning'
<1> SUFFICES ASSUME Base, Owning, [Next]_vars
             PROVE  Owning'
  OBVIOUS
<1>1. IsSteps(todo) /\ (pc = "idle" => todo = <<>>) /\ DiskSound /\ Registered /\ DOMAIN <<>> = {}
  BY DEF Base, Owning
<1>2. ASSUME UNCHANGED snapperDisk, createCut => createCut', MountsSound',
             \/ todo' = <<>>
             \/ IsSteps(todo') /\ \A k \in DOMAIN todo' : todo'[k].do \notin Inner
      PROVE  Owning'
  <2>1. DiskSound' /\ Registered'
    BY <1>1, <1>2, DiskStays
  <2>2. Linked(todo') /\ DeletesFirst(todo') /\ Closed(todo')
    BY <1>1, <1>2, NothingLinked
  <2>3. Linked(todo)' /\ DeletesFirst(todo)' /\ Closed(todo)'
    BY <2>2 DEF Linked, DeletesFirst, Closed
  <2>4. (todo # <<>> => Fits(Head(todo), todo))'
    <3>1. CASE todo' = <<>>
      BY <3>1
    <3>2. CASE todo' # <<>> /\ IsSteps(todo') /\ \A k \in DOMAIN todo' : todo'[k].do \notin Inner
      <4>1. PICK t, g : t = todo' /\ g = Head(t)
        OBVIOUS
      <4>2. g = t[1] /\ 1 \in DOMAIN t
        <5>1. g = t[1] /\ Len(t) >= 1 /\ DOMAIN t = 1 .. Len(t) /\ Len(t) \in Nat
          BY <3>2, <4>1, TailIs, StepsAre
        <5> QED
          BY <5>1
      <4>3. g.do \notin Inner
        BY <3>2, <4>1, <4>2
      <4>4. Fits(g, t)'
        BY <4>3, FitsOutside
      <4>5. todo' = t /\ Head(todo)' = g
        BY <4>1
      <4> QED
        BY <4>4, <4>5 DEF Fits, Doomed
    <3> QED
      BY <1>2, <3>1, <3>2
  <2> QED
    BY <1>2, <2>1, <2>3, <2>4 DEF Owning
<1>3. CASE StartApply
  <2>1. /\ UNCHANGED snapperDisk /\ createCut' = createCut /\ todo' = StepsOf(Planned(doc)) /\ todo = <<>>
    BY <1>1, <1>3 DEF StartApply, snapperVars, ghosts
  <2>2. MountsSound'
    BY <2>1 DEF Owning, MountsSound, snapperDisk, btrfs
  <2>3. PICK A, D : IsPlan(StepsOf(Planned(doc)), A, D)
    BY FinitePlan, WholePlan
  <2>4. (\A k \in DOMAIN todo' : todo'[k].do \notin Inner) /\ IsSteps(todo')
    BY <2>1, <2>3 DEF IsPlan
  <2> QED
    BY <1>2, <2>1, <2>2, <2>4
<1>4. CASE Finish
  <2>1. UNCHANGED snapperDisk /\ createCut' = createCut /\ todo' = <<>> /\ todo = <<>>
    BY <1>4 DEF Finish
  <2>2. MountsSound'
    BY <2>1 DEF Owning, MountsSound, snapperDisk, btrfs
  <2>3. UNCHANGED snapperDisk /\ (createCut => createCut') /\ todo' = <<>>
    BY <2>1
  <2> QED
    BY <1>2, <2>2, <2>3, Zenon
<1>5. CASE Fail \/ Die
  <2>1. UNCHANGED snapperDisk /\ createCut' = (createCut \/ InsideCreate) /\ todo' = <<>> /\ todo # <<>>
    BY <1>5 DEF Fail, Die, Stop
  <2>2. MountsSound'
    <3> SUFFICES ASSUME ~createCut', NEW v \in OwnSnapshots \ ownMounted'
                 PROVE  FALSE
      BY DEF MountsSound
    <3>1. ~createCut /\ ~InsideCreate /\ v \in OwnSnapshots \ ownMounted
      BY <2>1 DEF snapperDisk, btrfs
    <3>2. Head(todo).do \in Creating /\ Head(todo).subvolume = v
      BY <3>1 DEF Owning, MountsSound
    <3> QED
      BY <3>1, <3>2 DEF InsideCreate, Creating
  <2>3. UNCHANGED snapperDisk /\ (createCut => createCut') /\ todo' = <<>>
    BY <2>1
  <2> QED
    BY <1>2, <2>2, <2>3, Zenon
<1>6. CASE UNCHANGED vars
  <2>1. /\ UNCHANGED <<configs, snapshots, records, under, ownMounted, todo, doc, createCut>>
        /\ UNCHANGED snapperDisk
    BY <1>6 DEF vars, snapperVars, snapperDisk, btrfs, ghosts
  <2>2. DiskSound' /\ Registered'
    BY <1>1, <2>1, DiskStays
  <2>3. MountsSound' /\ Linked(todo)' /\ DeletesFirst(todo)' /\ (~createCut => Closed(todo))'
    BY <2>1 DEF Owning, MountsSound, Linked, DeletesFirst, Closed
  <2>4. (todo # <<>> => Fits(Head(todo), todo))'
    BY <2>1 DEF Owning, Fits, Side, Exists, HasConfig, Doomed
  <2> QED
    BY <2>2, <2>3, <2>4 DEF Owning
<1> QED
  BY <1>3, <1>4, <1>5, <1>6, OwningWorks, OwningUnfolds, OwningRests, Actions

\* Snapshots in sight are in sight of snapper, whatever way an apply ended.
THEOREM SnapshotsAreOwned == Spec => []NoOrphanedSnapshots
<1>1. Base /\ Owning => NoOrphanedSnapshots
  <2> SUFFICES ASSUME Base, Owning, pc = "idle", ~createCut, NEW v \in Subvolumes,
                      snapshots[v][Side(v)] # {}, Exists(v)
               PROVE  HasConfig(v)
    BY DEF NoOrphanedSnapshots, HasConfig
  <2>1. OwnSnapshots \subseteq ownMounted
    BY DEF Base, Owning, MountsSound
  <2> QED
    BY <2>1 DEF Owning, Registered
<1> QED
  BY <1>1, BaseInit, BaseNext, OwningInit, OwningNext, PTL DEF Spec

-----------------------------------------------------------------------------
(***************************************************************************)
(* Snapshots that are still wanted                                         *)
(***************************************************************************)

Declared(n, v) == \E d \in docs : n \in DOMAIN d.snapper /\ d.snapper[n] = v

\* The documents agree, and a config is for what one of them says, or cannot be read.
Agreeing ==
  /\ \A d, e \in docs : \A n \in DOMAIN d.snapper, m \in DOMAIN e.snapper :
       d.snapper[n] = e.snapper[m] <=> n = m
  /\ \A n \in DOMAIN configs : configs[n] # Unreadable => Declared(n, configs[n])
  /\ \A n \in DOMAIN doc.snapper : Declared(n, doc.snapper[n])

LEMMA AgreeingInit ==
  ASSUME ScenariosAgree, Init
  PROVE  Agreeing
<1>1. PICK s \in Scenarios : docs = s.docs /\ doc \in s.docs /\ configs = <<>>
  BY DEF Init
<1>2. DOMAIN configs = {}
  BY <1>1
<1>3. \A n \in DOMAIN doc.snapper : Declared(n, doc.snapper[n])
  BY <1>1 DEF Declared
<1> QED
  BY <1>1, <1>2, <1>3 DEF ScenariosAgree, Agreeing

LEMMA DeclaredStays ==
  ASSUME docs' = docs
  PROVE  \A n, v : Declared(n, v)' = Declared(n, v)
BY DEF Declared

LEMMA AgreeingNext == Base /\ Owning /\ Agreeing /\ [Next]_vars => Agreeing'
<1> SUFFICES ASSUME Base, Owning, Agreeing, [Next]_vars
             PROVE  Agreeing'
  OBVIOUS
<1>1. docs' = docs
  BY DocsKept
<1>2. /\ \A d, e \in docs' : \A n \in DOMAIN d.snapper, m \in DOMAIN e.snapper :
           d.snapper[n] = e.snapper[m] <=> n = m
      /\ \A n, v : Declared(n, v)' = Declared(n, v)
  BY <1>1, DeclaredStays DEF Agreeing
<1>3. ASSUME \A n \in DOMAIN configs' : configs'[n] # Unreadable => Declared(n, configs'[n]),
             \A n \in DOMAIN doc'.snapper : Declared(n, doc'.snapper[n])
      PROVE  Agreeing'
  BY <1>2, <1>3 DEF Agreeing
<1>4. /\ \A n \in DOMAIN configs : configs[n] # Unreadable => Declared(n, configs[n])
      /\ \A n \in DOMAIN doc.snapper : Declared(n, doc.snapper[n])
  BY DEF Agreeing
<1>5. CASE Sync
  <2>1. configs' = configs
    BY <1>5 DEF Sync, snapperDisk
  <2>2. doc'.snapper \in {doc.snapper, ReadableConfigs}
    BY <1>5 DEF Sync
  <2>3. \A n \in DOMAIN ReadableConfigs :
          n \in DOMAIN configs /\ ReadableConfigs[n] = configs[n] /\ configs[n] # Unreadable
    BY DEF ReadableConfigs, Restrict
  <2>4. \A n \in DOMAIN doc'.snapper : Declared(n, doc'.snapper[n])
    BY <1>4, <2>2, <2>3
  <2> QED
    BY <1>3, <1>4, <2>1, <2>4
<1>6. CASE EditDoc
  <2>1. configs' = configs /\ doc' \in docs
    BY <1>6 DEF EditDoc, snapperDisk, Idle
  <2>2. \A n \in DOMAIN doc'.snapper : Declared(n, doc'.snapper[n])
    BY <2>1 DEF Declared
  <2> QED
    BY <1>3, <1>4, <2>1, <2>2
<1>7. CASE Hand
  <2>1. doc' = doc
    BY <1>7 DEF Hand
  <2>2. configs' = configs \/ \E name \in DOMAIN configs : configs' = [configs EXCEPT ![name] = Unreadable]
    BY <1>7 DEF Hand, snapperDisk
  <2>3. DOMAIN configs' = DOMAIN configs /\ \A n \in DOMAIN configs : configs'[n] \in {configs[n], Unreadable}
    BY <2>2
  <2> QED
    BY <1>3, <1>4, <2>1, <2>3
<1>8. CASE SnapperCommand
  <2>1. PICK h : h = Head(todo)
    OBVIOUS
  <2>2. Command(h) /\ todo # <<>> /\ doc' = doc
    BY <1>8, <2>1 DEF SnapperCommand, Command, SnapperOnly, Same
  <2>3. CASE h.do = "create-config"
    <3>1. configs' = [n \in DOMAIN configs \cup {h.arg} |-> IF n = h.arg THEN h.subvolume ELSE configs[n]]
      BY <2>2, <2>3, CommandConfigs
    <3>2. h.arg \in DOMAIN doc.snapper /\ doc.snapper[h.arg] = h.subvolume
      BY <2>1, <2>2, <2>3 DEF Owning, Fits
    <3>3. \A n \in DOMAIN configs' : configs'[n] # Unreadable => Declared(n, configs'[n])
      BY <1>4, <3>1, <3>2
    <3> QED
      BY <1>3, <1>4, <2>2, <3>3
  <2>4. CASE h.do = "remove-config"
    <3>1. configs' = [n \in DOMAIN configs \ {h.arg} |-> configs[n]]
      BY <2>2, <2>4, CommandConfigs DEF Restrict
    <3> QED
      BY <1>3, <1>4, <2>2, <3>1
  <2>5. CASE h.do \notin {"create-config", "remove-config"}
    <3>1. configs' = configs
      BY <2>2, <2>5, CommandConfigs
    <3> QED
      BY <1>3, <1>4, <2>2, <3>1
  <2> QED
    BY <2>3, <2>4, <2>5
<1>9. CASE UNCHANGED <<configs, doc>>
  BY <1>3, <1>4, <1>9
<1>10. CASE Working /\ ~SnapperCommand
  <2>1. UNCHANGED snapperDisk /\ doc' = doc
    BY <1>10, WorkingConfigs, WorkingTakes DEF Took
  <2> QED
    BY <1>9, <2>1 DEF snapperDisk
<1>11. CASE Unfolding
  BY <1>9, <1>11, UnfoldingPuts DEF snapperVars, snapperDisk
<1>12. CASE StartApply \/ Finish \/ Fail \/ Die \/ UNCHANGED vars
  BY <1>9, <1>12 DEF StartApply, Finish, Fail, Die, Stop, vars, snapperVars, snapperDisk
<1>13. CASE Snapshot \/ Reboot
  BY <1>9, <1>13 DEF Snapshot, TakeSnapshot, Reboot
<1> QED
  BY <1>5, <1>6, <1>7, <1>8, <1>10, <1>11, <1>12, <1>13, Actions DEF Resting

KeptWhileDeclared ==
  \A v \in Subvolumes, w \in Where :
    ~(snapshots[v][w] \subseteq snapshots'[v][w]) => v \notin Range(doc.snapper)

LEMMA DeletesUndeclared ==
  ASSUME Base, Owning, Agreeing, [Next]_vars
  PROVE  KeptWhileDeclared
<1> SUFFICES ASSUME NEW v \in Subvolumes, NEW w \in Where, ~(snapshots[v][w] \subseteq snapshots'[v][w])
             PROVE  v \notin Range(doc.snapper)
  BY DEF KeptWhileDeclared
<1>1. /\ snapshots \in [Subvolumes -> [Where -> SUBSET Numbers]] /\ DiskSound
      /\ snapshots' # snapshots /\ OwnSnapshots \subseteq Subvolumes /\ "nested" \in Where
  BY SnapperAssumption DEF Base, DiskTypes, Owning, Where
<1>2. SnapperCommand
  <2>1. CASE Snapshot
    <3>1. PICK u, number : snapshots' = [snapshots EXCEPT ![u][Side(u)] = @ \cup {number}]
      BY <2>1 DEF Snapshot, TakeSnapshot
    <3>2. snapshots[v][w] \subseteq snapshots'[v][w]
      BY <1>1, <3>1
    <3> QED
      BY <3>2
  <2>2. CASE UNCHANGED snapperDisk
    BY <1>1, <2>2 DEF snapperDisk, btrfs
  <2>3. CASE Hand \/ Reboot \/ EditDoc \/ Sync
    BY <1>1, <2>3 DEF Hand, Reboot, EditDoc, Sync, snapperDisk, btrfs
  <2>4. CASE StartApply \/ Finish \/ Fail \/ Die \/ UNCHANGED vars
    BY <2>2, <2>4 DEF StartApply, Finish, Fail, Die, Stop, vars, snapperVars
  <2>5. CASE Unfolding
    BY <2>2, <2>5, UnfoldingPuts DEF snapperVars
  <2>6. CASE Working
    BY <2>2, <2>6, WorkingConfigs
  <2> QED
    BY <2>1, <2>3, <2>4, <2>5, <2>6, Actions DEF Resting
<1>3. PICK h : h = Head(todo)
  OBVIOUS
<1>4. Command(h) /\ todo # <<>> /\ Fits(h, todo)
  BY <1>2, <1>3 DEF SnapperCommand, Command, Owning
<1>5. h.subvolume \in Subvolumes
  <2>1. h.do \in Inner
    BY <1>4, CommandConfigs
  <2>2. h = todo[1] /\ 1 \in DOMAIN todo
    <3>1. IsSteps(todo)
      BY DEF Base
    <3>2. h = todo[1] /\ Len(todo) >= 1 /\ DOMAIN todo = 1 .. Len(todo) /\ Len(todo) \in Nat
      BY <1>3, <1>4, <3>1, TailIs, StepsAre
    <3> QED
      BY <3>2
  <2> QED
    BY <2>1, <2>2 DEF Base, StepsSound
<1>6. \/ h.do = "delete-nested" /\ snapshots' = [snapshots EXCEPT ![h.subvolume]["nested"] = {}]
      \/ h.do = "delete-container" /\ snapshots' = [snapshots EXCEPT ![h.subvolume]["nested"] = {}]
      \/ h.do = "delete-snapshot"
           /\ snapshots' = [snapshots EXCEPT ![h.subvolume][Side(h.subvolume)] = @ \ {h.number}]
  BY <1>1, <1>4 DEF Command, Umount, Rmdir, CreateConfig, DeleteNested, Mkdir, Mount, DeleteSnapshot,
     Rmtree, DeleteContainer, RemoveConfig, Unlist, snapperDisk, btrfs
<1>7. v = h.subvolume
  BY <1>1, <1>5, <1>6
<1>8. h.do # "delete-nested"
  <2> SUFFICES ASSUME h.do = "delete-nested"
               PROVE  FALSE
    OBVIOUS
  <2>1. records[v]["nested"] = {}
    BY <1>4, <1>7 DEF Fits
  <2>2. snapshots[v]["nested"] = {}
    BY <1>1, <2>1 DEF DiskSound
  <2>3. snapshots' = [snapshots EXCEPT ![v]["nested"] = {}]
    BY <1>6, <1>7
  <2>4. snapshots[v][w] \subseteq snapshots'[v][w]
    BY <1>1, <2>2, <2>3
  <2> QED
    BY <2>4
<1>9. h.arg \in DOMAIN configs \ DOMAIN doc.snapper /\ configs[h.arg] = v
  BY <1>4, <1>6, <1>7, <1>8 DEF Fits, Deleting
<1>10. v # Unreadable
  BY SnapperAssumption
<1>11. PICK d \in docs : h.arg \in DOMAIN d.snapper /\ d.snapper[h.arg] = v
  BY <1>9, <1>10 DEF Agreeing, Declared
<1>12. ASSUME NEW m \in DOMAIN doc.snapper, doc.snapper[m] = v
       PROVE  FALSE
  <2>1. PICK e \in docs : m \in DOMAIN e.snapper /\ e.snapper[m] = v
    BY <1>12 DEF Agreeing, Declared
  <2>2. h.arg = m
    BY <1>11, <2>1 DEF Agreeing
  <2> QED
    BY <1>9, <2>2
<1> QED
  BY <1>12 DEF Range

\* Where the documents agree on which config is for which subvolume, no step of an apply
\* deletes a snapshot of a subvolume that the document wants snapshots of.
THEOREM WantedSnapshotsStay == ScenariosAgree => (Spec => DeclaredSnapshotsStay)
<1> SUFFICES ASSUME ScenariosAgree
             PROVE  Spec => DeclaredSnapshotsStay
  OBVIOUS
<1>1. Init => Agreeing
  BY AgreeingInit
<1>2. Base /\ Owning /\ Agreeing /\ [Next]_vars => [KeptWhileDeclared]_vars
  BY DeletesUndeclared
<1> QED
  BY <1>1, <1>2, BaseInit, BaseNext, OwningInit, OwningNext, AgreeingNext, PTL
  DEF Spec, DeclaredSnapshotsStay, KeptWhileDeclared

-----------------------------------------------------------------------------
(***************************************************************************)
(* What is no longer declared is closed                                    *)
(***************************************************************************)

Has(t, do, arg) == \E k \in DOMAIN t : t[k].do = do /\ t[k].arg = arg
Installs(t) == Has(t, "install-ufw", "")
Enables(t) == Has(t, "ufw-enable", "")

LEMMA HasJoined ==
  ASSUME NEW s, NEW t, IsSteps(s), IsSteps(t), NEW do, NEW arg, Has(s, do, arg) \/ Has(t, do, arg)
  PROVE  Has(s \o t, do, arg)
<1> DEFINE r == s \o t
           m == Len(s)
           n == Len(t)
<1>1. /\ DOMAIN r = 1 .. m + n
      /\ \A k \in 1 .. m : r[k] = s[k]
      /\ \A k \in 1 .. n : r[m + k] = t[k]
  BY JoinIs
<1>2. m \in Nat /\ n \in Nat /\ DOMAIN s = 1 .. m /\ DOMAIN t = 1 .. n
  BY StepsAre
<1> HIDE DEF r, m, n
<1>3. CASE Has(s, do, arg)
  <2>1. PICK k \in 1 .. m : s[k].do = do /\ s[k].arg = arg
    BY <1>2, <1>3 DEF Has
  <2>2. k \in 1 .. m + n /\ r[k] = s[k]
    BY <1>1, <1>2
  <2> QED
    BY <1>1, <2>1, <2>2 DEF Has, r
<1>4. CASE Has(t, do, arg)
  <2>1. PICK k \in 1 .. n : t[k].do = do /\ t[k].arg = arg
    BY <1>2, <1>4 DEF Has
  <2>2. m + k \in 1 .. m + n /\ r[m + k] = t[k]
    BY <1>1, <1>2
  <2> QED
    BY <1>1, <2>1, <2>2 DEF Has, r
<1> QED
  BY <1>3, <1>4

LEMMA HasLeft ==
  ASSUME NEW t, IsSteps(t), t # <<>>, NEW do, NEW arg, Has(t, do, arg)
  PROVE  (Head(t).do = do /\ Head(t).arg = arg) \/ Has(Tail(t), do, arg)
<1> DEFINE u == Tail(t)
           m == Len(t)
<1>1. /\ m \in Nat /\ m >= 1 /\ DOMAIN t = 1 .. m /\ DOMAIN u = 1 .. m - 1 /\ Head(t) = t[1]
      /\ \A k \in 1 .. m - 1 : u[k] = t[k + 1]
  BY TailIs, StepsAre
<1> HIDE DEF u, m
<1>2. PICK k \in 1 .. m : t[k].do = do /\ t[k].arg = arg
  BY <1>1 DEF Has
<1>3. CASE k = 1
  BY <1>1, <1>2, <1>3
<1>4. CASE k > 1
  <2>1. k - 1 \in 1 .. m - 1 /\ u[k - 1] = t[k]
    BY <1>1, <1>4
  <2> QED
    BY <1>1, <1>2, <2>1 DEF Has, u
<1> QED
  BY <1>1, <1>3, <1>4

LEMMA EachHas ==
  ASSUME NEW action, NEW do, NEW args, IsFiniteSet(args), NEW x \in args
  PROVE  Has(DoEach(action, do, args), do, x)
<1> DEFINE n == Cardinality(args)
<1>1. PICK i \in 1 .. n : SetToSeq(args)[i] = x
  BY InOrder
<1>2. /\ i \in DOMAIN DoEach(action, do, args)
      /\ DoEach(action, do, args)[i].do = do /\ DoEach(action, do, args)[i].arg = x
  BY <1>1 DEF DoEach, Step
<1> QED
  BY <1>2 DEF Has

LEMMA WhenHas ==
  ASSUME NEW action, NEW do, NEW arg, NEW condition \in BOOLEAN, condition
  PROVE  Has(When(condition, <<Step(action, do, arg)>>), do, arg)
<1>1. PICK s : s = Step(action, do, arg)
  OBVIOUS
<1>2. s.do = do /\ s.arg = arg
  BY <1>1 DEF Step
<1>3. When(condition, <<s>>) = <<s>>
  BY WhenIs
<1>4. 1 \in DOMAIN <<s>> /\ <<s>>[1] = s
  OBVIOUS
<1>5. Has(When(condition, <<s>>), do, arg)
  BY <1>2, <1>3, <1>4 DEF Has
<1> QED
  BY <1>1, <1>5

Late == {"packages", "units"}
Filtering == {"install-ufw", "allow", "delete", "ufw-enable", "write-zone", "remove-zone"}

\* What a step of this block's firewall may add.
Adds(s, f) ==
  /\ s.do = "allow" => f.enable /\ f.backend = "ufw" /\ s.arg \in ManagedFirewall(f)
  /\ s.do = "write-zone" => f.enable /\ f.backend = "firewalld" /\ s.arg \in ManagedFirewall(f)

\* Snapper and the firewall come before the packages and the units, and ufw before its rules.
Early(t, f) ==
  /\ IsSteps(t)
  /\ \A k \in DOMAIN t : /\ t[k].action \in {"snapper", "firewall"} /\ t[k].do \notin Late
                         /\ Adds(t[k], f)
IsLate(t) ==
  /\ IsSteps(t)
  /\ \A k \in DOMAIN t : t[k].action \in Late /\ t[k].do \notin Filtering

InTurn(t, f) ==
  /\ IsSteps(t)
  /\ \A k \in DOMAIN t :
       /\ t[k].action \in {"snapper", "firewall"} \cup Late
       /\ t[k].do \in Late => t[k].action \in Late
       /\ t[k].action \in Late => \A j \in DOMAIN t : k <= j => t[j].do \notin Filtering
       /\ Adds(t[k], f)

Prepared(t) ==
  \A k \in DOMAIN t : t[k].do = "allow" => \E j \in DOMAIN t : j < k /\ t[j].do = "install-ufw"

LEMMA EarlyJoined ==
  ASSUME NEW s, NEW t, NEW f, Early(s, f), Early(t, f)
  PROVE  Early(s \o t, f)
<1> DEFINE r == s \o t
           m == Len(s)
           n == Len(t)
<1>1. /\ IsSteps(r) /\ DOMAIN r = 1 .. m + n
      /\ \A k \in 1 .. m : r[k] = s[k]
      /\ \A k \in 1 .. m + n : k > m => r[k] = t[k - m]
  BY JoinIs DEF Early
<1>2. m \in Nat /\ n \in Nat /\ DOMAIN s = 1 .. m /\ DOMAIN t = 1 .. n
  BY StepsAre DEF Early
<1> HIDE DEF r, m, n
<1>3. \A k \in 1 .. m + n : \/ k \in 1 .. m /\ r[k] = s[k]
                            \/ k - m \in 1 .. n /\ r[k] = t[k - m]
  BY <1>1, <1>2
<1>4. \A k \in DOMAIN r : /\ r[k].action \in {"snapper", "firewall"} /\ r[k].do \notin Late
                          /\ Adds(r[k], f)
  BY <1>1, <1>2, <1>3 DEF Early
<1>5. Early(r, f)
  BY <1>1, <1>4 DEF Early
<1> QED
  BY <1>5 DEF r

LEMMA EarlyTurn ==
  ASSUME NEW t, NEW f, Early(t, f)
  PROVE  InTurn(t, f)
BY DEF Early, InTurn, Late

LEMMA LateTurn ==
  ASSUME NEW t, NEW f, IsLate(t)
  PROVE  InTurn(t, f)
BY DEF IsLate, InTurn, Adds, Filtering

LEMMA TurnJoined ==
  ASSUME NEW s, NEW t, NEW f, InTurn(s, f), InTurn(t, f), Early(s, f) \/ IsLate(t)
  PROVE  InTurn(s \o t, f)
<1> DEFINE r == s \o t
           m == Len(s)
           n == Len(t)
<1>0. IsSteps(s) /\ IsSteps(t)
  BY DEF InTurn
<1>1. /\ IsSteps(r) /\ DOMAIN r = 1 .. m + n
      /\ \A k \in 1 .. m : r[k] = s[k]
      /\ \A k \in 1 .. m + n : k > m => r[k] = t[k - m]
  BY <1>0, JoinIs
<1>2. m \in Nat /\ n \in Nat /\ DOMAIN s = 1 .. m /\ DOMAIN t = 1 .. n
  BY <1>0, StepsAre
<1> HIDE DEF r, m, n
<1>3. \A k \in 1 .. m + n : \/ k \in 1 .. m /\ r[k] = s[k]
                            \/ k - m \in 1 .. n /\ k > m /\ r[k] = t[k - m]
  BY <1>1, <1>2
<1>4. ASSUME NEW k \in 1 .. m + n, r[k].action \in Late, NEW j \in 1 .. m + n, k <= j
      PROVE  r[j].do \notin Filtering
  <2>1. CASE k \in 1 .. m /\ r[k] = s[k]
    <3>1. IsLate(t)
      BY <1>2, <1>4, <2>1 DEF Early, Late
    <3> QED
      BY <1>2, <1>3, <1>4, <2>1, <3>1 DEF InTurn, IsLate
  <2>2. CASE k - m \in 1 .. n /\ k > m /\ r[k] = t[k - m]
    <3>1. j - m \in 1 .. n /\ r[j] = t[j - m] /\ k - m <= j - m
      BY <1>1, <1>2, <1>4, <2>2
    <3> QED
      BY <1>2, <1>4, <2>2, <3>1 DEF InTurn
  <2> QED
    BY <1>3, <2>1, <2>2
<1>5. ASSUME NEW k \in 1 .. m + n
      PROVE  /\ r[k].action \in {"snapper", "firewall"} \cup Late
             /\ r[k].do \in Late => r[k].action \in Late
             /\ Adds(r[k], f)
  BY <1>2, <1>3, <1>5 DEF InTurn
<1>6. InTurn(r, f)
  BY <1>1, <1>4, <1>5 DEF InTurn
<1> QED
  BY <1>6 DEF r

LEMMA TurnLeft ==
  ASSUME NEW t, NEW f, InTurn(t, f), t # <<>>
  PROVE  /\ InTurn(Tail(t), f) /\ Adds(Head(t), f)
         /\ Head(t).action \in {"snapper", "firewall"} \cup Late
         /\ Head(t).do \in Late => Head(t).action \in Late
         /\ Head(t).action \in Late => \A k \in DOMAIN t : t[k].do \notin Filtering
<1> DEFINE u == Tail(t)
           m == Len(t)
<1>1. /\ m \in Nat /\ m >= 1 /\ DOMAIN t = 1 .. m /\ DOMAIN u = 1 .. m - 1 /\ Head(t) = t[1]
      /\ IsSteps(u)
      /\ \A k \in 1 .. m - 1 : u[k] = t[k + 1]
  BY TailIs, StepsAre DEF InTurn
<1> HIDE DEF u, m
<1>2. \A k \in 1 .. m - 1 : k + 1 \in 1 .. m
  BY <1>1
<1>3. ASSUME NEW k \in 1 .. m - 1
      PROVE  /\ u[k].action \in {"snapper", "firewall"} \cup Late
             /\ u[k].do \in Late => u[k].action \in Late
             /\ u[k].action \in Late => \A j \in 1 .. m - 1 : k <= j => u[j].do \notin Filtering
             /\ Adds(u[k], f)
  <2>1. k + 1 \in DOMAIN t /\ u[k] = t[k + 1]
    BY <1>1, <1>2
  <2>2. ASSUME u[k].action \in Late, NEW j \in 1 .. m - 1, k <= j
        PROVE  u[j].do \notin Filtering
    <3>1. j + 1 \in DOMAIN t /\ u[j] = t[j + 1] /\ k + 1 <= j + 1
      BY <1>1, <1>2, <2>2
    <3> QED
      BY <2>1, <2>2, <3>1 DEF InTurn
  <2> QED
    BY <2>1, <2>2 DEF InTurn
<1>4. InTurn(u, f)
  BY <1>1, <1>3 DEF InTurn
<1>5. 1 \in DOMAIN t /\ \A k \in DOMAIN t : 1 <= k
  BY <1>1
<1> QED
  BY <1>1, <1>4, <1>5 DEF InTurn, u

LEMMA PreparedLeft ==
  ASSUME NEW t, IsSteps(t), t # <<>>, Prepared(t), Head(t).do # "install-ufw"
  PROVE  Prepared(Tail(t)) /\ Head(t).do # "allow"
<1> DEFINE u == Tail(t)
           m == Len(t)
<1>1. /\ m \in Nat /\ m >= 1 /\ DOMAIN t = 1 .. m /\ DOMAIN u = 1 .. m - 1 /\ Head(t) = t[1]
      /\ \A k \in 1 .. m - 1 : u[k] = t[k + 1]
  BY TailIs, StepsAre
<1> HIDE DEF u, m
<1>2. t[1].do # "allow"
  BY <1>1 DEF Prepared
<1>3. ASSUME NEW k \in 1 .. m - 1, u[k].do = "allow"
      PROVE  \E j \in 1 .. m - 1 : j < k /\ u[j].do = "install-ufw"
  <2>1. k + 1 \in 1 .. m /\ t[k + 1].do = "allow"
    BY <1>1, <1>3
  <2>2. PICK j \in 1 .. m : j < k + 1 /\ t[j].do = "install-ufw"
    BY <1>1, <2>1 DEF Prepared
  <2>3. j # 1
    BY <1>1, <2>2
  <2>4. j - 1 \in 1 .. m - 1 /\ j - 1 < k /\ (j - 1) + 1 = j
    BY <1>1, <2>2, <2>3
  <2>5. u[j - 1] = t[j]
    BY <1>1, <2>4
  <2> QED
    BY <2>2, <2>4, <2>5
<1>4. Prepared(u)
  BY <1>1, <1>3 DEF Prepared
<1> QED
  BY <1>1, <1>2, <1>4 DEF u

LEMMA PreparedJoined ==
  ASSUME NEW s, NEW t, IsSteps(s), IsSteps(t), Prepared(s), Prepared(t)
  PROVE  Prepared(s \o t)
<1> DEFINE r == s \o t
           m == Len(s)
           n == Len(t)
<1>1. /\ DOMAIN r = 1 .. m + n
      /\ \A k \in 1 .. m : r[k] = s[k]
      /\ \A k \in 1 .. n : r[m + k] = t[k]
      /\ \A k \in 1 .. m + n : k > m => r[k] = t[k - m]
  BY JoinIs
<1>2. m \in Nat /\ n \in Nat /\ DOMAIN s = 1 .. m /\ DOMAIN t = 1 .. n
  BY StepsAre
<1> HIDE DEF r, m, n
<1>3. ASSUME NEW k \in 1 .. m + n, r[k].do = "allow"
      PROVE  \E j \in 1 .. m + n : j < k /\ r[j].do = "install-ufw"
  <2>1. CASE k <= m
    <3>1. k \in 1 .. m /\ s[k].do = "allow"
      BY <1>1, <1>2, <1>3, <2>1
    <3>2. PICK j \in 1 .. m : j < k /\ s[j].do = "install-ufw"
      BY <1>2, <3>1 DEF Prepared
    <3> QED
      BY <1>1, <1>2, <3>2
  <2>2. CASE k > m
    <3>1. k - m \in 1 .. n /\ t[k - m].do = "allow"
      BY <1>1, <1>2, <1>3, <2>2
    <3>2. PICK j \in 1 .. n : j < k - m /\ t[j].do = "install-ufw"
      BY <1>2, <3>1 DEF Prepared
    <3>3. m + j \in 1 .. m + n /\ m + j < k /\ r[m + j] = t[j]
      BY <1>1, <1>2, <3>2
    <3> QED
      BY <3>2, <3>3
  <2> QED
    BY <1>2, <2>1, <2>2
<1>4. Prepared(r)
  BY <1>1, <1>3 DEF Prepared
<1> QED
  BY <1>4 DEF r

LEMMA OneStep ==
  ASSUME NEW condition \in BOOLEAN, NEW action, NEW do, NEW arg
  PROVE  /\ IsSteps(When(condition, <<Step(action, do, arg)>>))
         /\ \A k \in DOMAIN When(condition, <<Step(action, do, arg)>>) :
              /\ When(condition, <<Step(action, do, arg)>>)[k].action = action
              /\ When(condition, <<Step(action, do, arg)>>)[k].do = do
<1>1. PICK s : s = Step(action, do, arg)
  OBVIOUS
<1>2. s.action = action /\ s.do = do
  BY <1>1 DEF Step
<1>3. IsSteps(When(condition, <<s>>)) /\ \A k \in DOMAIN When(condition, <<s>>) : When(condition, <<s>>)[k] = s
  BY WhenIs
<1> QED
  BY <1>1, <1>2, <1>3

LEMMA EarlyWhen ==
  ASSUME NEW condition \in BOOLEAN, NEW action \in {"snapper", "firewall"}, NEW arg, NEW f,
         NEW do \in {"install-snapper", "install-ufw", "ufw-enable", "reload"}
  PROVE  /\ Early(When(condition, <<Step(action, do, arg)>>), f)
         /\ Prepared(When(condition, <<Step(action, do, arg)>>))
<1>1. PICK t : t = When(condition, <<Step(action, do, arg)>>)
  OBVIOUS
<1>2. IsSteps(t) /\ \A k \in DOMAIN t : t[k].action = action /\ t[k].do = do
  BY <1>1, OneStep
<1>3. Early(t, f) /\ Prepared(t)
  BY <1>2 DEF Early, Late, Adds, Prepared
<1> QED
  BY <1>1, <1>3

LEMMA LateWhen ==
  ASSUME NEW condition \in BOOLEAN, NEW action \in Late, NEW do \in Late, NEW arg
  PROVE  /\ IsLate(When(condition, <<Step(action, do, arg)>>))
         /\ Prepared(When(condition, <<Step(action, do, arg)>>))
<1>1. PICK t : t = When(condition, <<Step(action, do, arg)>>)
  OBVIOUS
<1>2. IsSteps(t) /\ \A k \in DOMAIN t : t[k].action = action /\ t[k].do = do
  BY <1>1, OneStep
<1>3. IsLate(t) /\ Prepared(t)
  BY <1>2 DEF IsLate, Late, Filtering, Prepared
<1> QED
  BY <1>1, <1>3

LEMMA EarlyEach ==
  ASSUME NEW action \in {"snapper", "firewall"}, NEW do, NEW args, IsFiniteSet(args), NEW f,
         \/ do \in {"create", "remove", "delete", "remove-zone"}
         \/ do = "allow" /\ (args # {} => f.enable /\ f.backend = "ufw") /\ args \subseteq ManagedFirewall(f)
         \/ do = "write-zone" /\ (args # {} => f.enable /\ f.backend = "firewalld")
                              /\ args \subseteq ManagedFirewall(f)
  PROVE  Early(DoEach(action, do, args), f)
<1> DEFINE t == DoEach(action, do, args)
<1>1. IsSteps(t) /\ \A k \in DOMAIN t : t[k].do = do /\ t[k].arg \in args
  BY DoEachIs
<1>2. \A k \in DOMAIN t : t[k].action = action
  BY DEF DoEach, Step
<1> HIDE DEF t
<1>3. do \notin Late
  BY DEF Late
<1>4. \A k \in DOMAIN t : Adds(t[k], f)
  BY <1>1 DEF Adds
<1>5. Early(t, f)
  BY <1>1, <1>2, <1>3, <1>4 DEF Early
<1> QED
  BY <1>5 DEF t

\* What a plan adds is declared, and for the backend of the declaration.
PlannedFor(p, f) ==
  /\ IsFiniteSet(p.add) /\ IsFiniteSet(p.drop)
  /\ p.add \subseteq ManagedFirewall(f)
  /\ p.add # {} => f.enable /\ f.backend = p.backend
  /\ p.backend \in {"ufw", "firewalld"}

\* Every removal is among the steps, and ufw is there and enforces what is added.
Carries(t, p) ==
  /\ \A x \in p.drop : Has(t, IF p.backend = "ufw" THEN "delete" ELSE "remove-zone", x)
  /\ p.backend = "ufw" /\ p.add # {} => Installs(t) /\ Enables(t)

LEMMA UfwSteps ==
  ASSUME NEW p, NEW f, PlannedFor(p, f), p.backend = "ufw"
  PROVE  Early(FirewallSteps(p), f) /\ Prepared(FirewallSteps(p)) /\ Carries(FirewallSteps(p), p)
<1> DEFINE a == When(p.add # {}, <<Step("firewall", "install-ufw", "")>>)
           b == DoEach("firewall", "allow", p.add)
           c == DoEach("firewall", "delete", p.drop)
           d == When(p.add # {}, <<Step("firewall", "ufw-enable", "")>>)
<1>1. (p.add # {}) \in BOOLEAN
  OBVIOUS
<1>2. Early(a, f) /\ Early(d, f) /\ Prepared(d)
  <2>1. Early(a, f)
    BY <1>1, EarlyWhen, Zenon
  <2>2. Early(d, f) /\ Prepared(d)
    BY <1>1, EarlyWhen, Zenon
  <2> QED
    BY <2>1, <2>2
<1>3. Early(b, f) /\ Early(c, f)
  BY EarlyEach DEF PlannedFor
<1>4. p.add # {} => Has(a, "install-ufw", "") /\ Has(d, "ufw-enable", "")
  BY <1>1, WhenHas
<1>5. \A x \in p.drop : Has(c, "delete", x)
  BY EachHas DEF PlannedFor
<1>6. Prepared(a \o b)
  <2>1. CASE p.add = {}
    <3>1. b = <<>>
      BY <2>1, DoEachIs DEF PlannedFor
    <3>2. a = <<>>
      BY <1>1, <2>1, WhenIs
    <3>3. <<>> \o <<>> = <<>> /\ DOMAIN <<>> = {}
      OBVIOUS
    <3> QED
      BY <3>1, <3>2, <3>3 DEF Prepared
  <2>2. CASE p.add # {}
    <3>1. PICK s : s = Step("firewall", "install-ufw", "")
      OBVIOUS
    <3>2. a = <<s>> /\ s.do = "install-ufw"
      BY <1>1, <2>2, <3>1, WhenIs DEF Step
    <3>3. IsSteps(b) /\ IsSteps(<<s>>)
      BY <1>2, <1>3, <3>2 DEF Early
    <3>4. Len(<<s>>) = 1 /\ 1 \in 1 .. 1 /\ <<s>>[1] = s
      OBVIOUS
    <3>5. PICK n \in Nat : n = Len(b)
      BY <3>3, StepsAre
    <3>6. DOMAIN (<<s>> \o b) = 1 .. 1 + n /\ (<<s>> \o b)[1] = s
      BY <3>3, <3>4, <3>5, JoinIs
    <3>7. PICK r : r = <<s>> \o b
      OBVIOUS
    <3>8. DOMAIN r = 1 .. 1 + n /\ r[1].do = "install-ufw"
      BY <3>2, <3>6, <3>7
    <3>9. Prepared(r)
      BY <3>5, <3>8 DEF Prepared
    <3> QED
      BY <3>2, <3>7, <3>9
  <2> QED
    BY <2>1, <2>2
<1>7. Prepared(c)
  <2>1. \A k \in DOMAIN c : c[k].do = "delete"
    BY DoEachIs DEF PlannedFor
  <2> QED
    BY <2>1 DEF Prepared
<1>8. FirewallSteps(p) = ((a \o b) \o c) \o d
  BY DEF FirewallSteps
<1> HIDE DEF a, b, c, d
<1>9. IsSteps(a) /\ IsSteps(b) /\ IsSteps(c) /\ IsSteps(d)
  BY <1>2, <1>3 DEF Early
<1>10. PICK r : r = a \o b
  OBVIOUS
<1>11. Early(r, f) /\ Prepared(r) /\ IsSteps(r)
  BY <1>2, <1>3, <1>6, <1>10, EarlyJoined DEF Early
<1>12. PICK q : q = r \o c
  OBVIOUS
<1>13. Early(q, f) /\ Prepared(q) /\ IsSteps(q)
  <2>1. Early(q, f)
    BY <1>3, <1>11, <1>12, EarlyJoined
  <2> QED
    BY <1>7, <1>9, <1>11, <1>12, <2>1, PreparedJoined DEF Early
<1>14. PICK z : z = q \o d
  OBVIOUS
<1>15. Early(z, f) /\ Prepared(z)
  <2>1. Early(z, f)
    BY <1>2, <1>13, <1>14, EarlyJoined
  <2> QED
    BY <1>2, <1>9, <1>13, <1>14, <2>1, PreparedJoined
<1>16. FirewallSteps(p) = z
  BY <1>8, <1>10, <1>12, <1>14
<1>17. \A x \in p.drop : Has(z, "delete", x)
  <2> SUFFICES ASSUME NEW x \in p.drop
               PROVE  Has(z, "delete", x)
    OBVIOUS
  <2>1. Has(q, "delete", x)
    BY <1>5, <1>9, <1>11, <1>12, HasJoined
  <2> QED
    BY <1>9, <1>13, <1>14, <2>1, HasJoined
<1>18. p.add # {} => Installs(z) /\ Enables(z)
  <2> SUFFICES ASSUME p.add # {}
               PROVE  Installs(z) /\ Enables(z)
    OBVIOUS
  <2>1. Has(r, "install-ufw", "")
    BY <1>4, <1>9, <1>10, HasJoined
  <2>2. Has(q, "install-ufw", "")
    BY <1>9, <1>11, <1>12, <2>1, HasJoined
  <2>3. Has(z, "install-ufw", "")
    BY <1>9, <1>13, <1>14, <2>2, HasJoined
  <2>4. Has(z, "ufw-enable", "")
    BY <1>4, <1>9, <1>13, <1>14, HasJoined
  <2> QED
    BY <2>3, <2>4, Zenon DEF Installs, Enables
<1> QED
  BY <1>15, <1>16, <1>17, <1>18 DEF Carries

LEMMA FirewalldSteps ==
  ASSUME NEW p, NEW f, PlannedFor(p, f), p.backend = "firewalld"
  PROVE  Early(FirewallSteps(p), f) /\ Prepared(FirewallSteps(p)) /\ Carries(FirewallSteps(p), p)
<1> DEFINE a == DoEach("firewall", "write-zone", p.add)
           b == DoEach("firewall", "remove-zone", p.drop)
           c == When(~Empty(p), <<Step("firewall", "reload", "")>>)
<1>1. (~Empty(p)) \in BOOLEAN
  BY DEF Empty
<1>2. Early(c, f) /\ Prepared(c)
  BY <1>1, EarlyWhen, Zenon
<1>3. Early(a, f) /\ Early(b, f)
  BY EarlyEach DEF PlannedFor
<1>4. \A x \in p.drop : Has(b, "remove-zone", x)
  BY EachHas DEF PlannedFor
<1>5. Prepared(a) /\ Prepared(b)
  <2>1. /\ \A k \in DOMAIN a : a[k].do = "write-zone"
        /\ \A k \in DOMAIN b : b[k].do = "remove-zone"
    BY DoEachIs DEF PlannedFor
  <2> QED
    BY <2>1 DEF Prepared
<1>6. FirewallSteps(p) = (a \o b) \o c
  BY DEF FirewallSteps
<1> HIDE DEF a, b, c
<1>7. IsSteps(a) /\ IsSteps(b) /\ IsSteps(c)
  BY <1>2, <1>3 DEF Early
<1>8. PICK r : r = a \o b
  OBVIOUS
<1>9. Early(r, f) /\ Prepared(r) /\ IsSteps(r)
  <2>1. Early(r, f)
    BY <1>3, <1>8, EarlyJoined
  <2> QED
    BY <1>5, <1>7, <1>8, <2>1, PreparedJoined DEF Early
<1>10. PICK z : z = r \o c
  OBVIOUS
<1>11. Early(z, f) /\ Prepared(z)
  <2>1. Early(z, f)
    BY <1>2, <1>9, <1>10, EarlyJoined
  <2> QED
    BY <1>2, <1>7, <1>9, <1>10, <2>1, PreparedJoined
<1>12. \A x \in p.drop : Has(z, "remove-zone", x)
  <2> SUFFICES ASSUME NEW x \in p.drop
               PROVE  Has(z, "remove-zone", x)
    OBVIOUS
  <2>1. Has(r, "remove-zone", x)
    BY <1>4, <1>7, <1>8, HasJoined
  <2> QED
    BY <1>7, <1>9, <1>10, <2>1, HasJoined
<1>13. FirewallSteps(p) = z
  BY <1>6, <1>8, <1>10
<1> QED
  BY <1>11, <1>12, <1>13 DEF Carries

LEMMA PlanTurns ==
  ASSUME NEW p, NEW f, PlannedFor(p.firewall, f), IsFiniteSet(p.snapper.add), IsFiniteSet(p.snapper.drop)
  PROVE  InTurn(StepsOf(p), f) /\ Prepared(StepsOf(p)) /\ Carries(StepsOf(p), p.firewall)
<1> DEFINE a == When(~Empty(p.snapper), <<Step("snapper", "install-snapper", "")>>)
           b == DoEach("snapper", "create", p.snapper.add)
           c == DoEach("snapper", "remove", p.snapper.drop)
           d == FirewallSteps(p.firewall)
           e == When(~Empty(p.packages), <<Step("packages", "packages", "")>>)
           g == When(~Empty(p.units), <<Step("units", "units", "")>>)
<1>1. \A part : (~Empty(part)) \in BOOLEAN
  BY DEF Empty
<1>2. Early(a, f) /\ Early(b, f) /\ Early(c, f) /\ Prepared(a)
  <2>1. Early(a, f) /\ Prepared(a)
    BY <1>1, EarlyWhen, Zenon
  <2> QED
    BY <2>1, EarlyEach
<1>3. IsLate(e) /\ IsLate(g) /\ Prepared(e) /\ Prepared(g)
  <2>1. "packages" \in Late /\ "units" \in Late
    BY DEF Late
  <2>2. IsLate(e) /\ Prepared(e)
    BY <1>1, <2>1, LateWhen, Zenon
  <2>3. IsLate(g) /\ Prepared(g)
    BY <1>1, <2>1, LateWhen, Zenon
  <2> QED
    BY <2>2, <2>3
<1>4. Early(d, f) /\ Prepared(d) /\ Carries(d, p.firewall)
  BY UfwSteps, FirewalldSteps DEF PlannedFor
<1>5. Prepared(b) /\ Prepared(c)
  <2>1. /\ \A k \in DOMAIN b : b[k].do = "create"
        /\ \A k \in DOMAIN c : c[k].do = "remove"
    BY DoEachIs
  <2> QED
    BY <2>1 DEF Prepared
<1>6. StepsOf(p) = ((((a \o b) \o c) \o d) \o e) \o g
  BY DEF StepsOf
<1> HIDE DEF a, b, c, d, e, g
<1>7. /\ IsSteps(a) /\ IsSteps(b) /\ IsSteps(c) /\ IsSteps(d) /\ IsSteps(e) /\ IsSteps(g)
  BY <1>2, <1>3, <1>4 DEF Early, IsLate
<1>8. PICK q : q = (a \o b) \o c
  OBVIOUS
<1>9. Early(q, f) /\ Prepared(q) /\ IsSteps(q)
  <2>1. Early(a \o b, f) /\ Prepared(a \o b) /\ IsSteps(a \o b)
    <3>1. Early(a \o b, f)
      BY <1>2, EarlyJoined
    <3> QED
      BY <1>2, <1>5, <1>7, <3>1, PreparedJoined DEF Early
  <2>2. Early(q, f)
    BY <1>2, <1>8, <2>1, EarlyJoined
  <2> QED
    BY <1>5, <1>7, <1>8, <2>1, <2>2, PreparedJoined DEF Early
<1>10. PICK r : r = q \o d
  OBVIOUS
<1>11. Early(r, f) /\ Prepared(r) /\ IsSteps(r)
  <2>1. Early(r, f)
    BY <1>4, <1>9, <1>10, EarlyJoined
  <2> QED
    BY <1>4, <1>7, <1>9, <1>10, <2>1, PreparedJoined DEF Early
<1>12. PICK l : l = r \o e
  OBVIOUS
<1>13. InTurn(l, f) /\ Prepared(l) /\ IsSteps(l)
  <2>1. InTurn(l, f)
    BY <1>3, <1>11, <1>12, EarlyTurn, LateTurn, TurnJoined
  <2> QED
    BY <1>3, <1>7, <1>11, <1>12, <2>1, PreparedJoined DEF InTurn
<1>14. PICK z : z = l \o g
  OBVIOUS
<1>15. InTurn(z, f) /\ Prepared(z)
  <2>1. InTurn(z, f)
    BY <1>3, <1>13, <1>14, LateTurn, TurnJoined
  <2> QED
    BY <1>3, <1>7, <1>13, <1>14, <2>1, PreparedJoined
<1>16. \A do, arg : Has(d, do, arg) => Has(z, do, arg)
  <2> SUFFICES ASSUME NEW do, NEW arg, Has(d, do, arg)
               PROVE  Has(z, do, arg)
    OBVIOUS
  <2>1. Has(r, do, arg)
    BY <1>7, <1>9, <1>10, HasJoined
  <2>2. Has(l, do, arg)
    BY <1>7, <1>11, <1>12, <2>1, HasJoined
  <2> QED
    BY <1>7, <1>13, <1>14, <2>2, HasJoined
<1>17. StepsOf(p) = z
  BY <1>6, <1>8, <1>10, <1>12, <1>14
<1>18. Carries(z, p.firewall)
  <2>1. (Installs(d) => Installs(z)) /\ (Enables(d) => Enables(z))
    BY <1>16, Zenon DEF Installs, Enables
  <2> QED
    BY <1>4, <1>16, <2>1 DEF Carries
<1> QED
  BY <1>15, <1>17, <1>18

-----------------------------------------------------------------------------
(***************************************************************************)
(* What was owned and is still there is declared, or is among the steps to *)
(* come that take it away.  On a machine of ufw the plan sees every such   *)
(* rule because ufw is installed and on as long as there is one.           *)
(***************************************************************************)

UfwReady ==
  /\ doc.firewall.present \/ ownedFirewall # {} => backend = "ufw"
  /\ Prepared(todo) \/ "ufw" \in installed
  /\ ManagedFirewall(doc.firewall) # {} =>
       /\ "ufw" \in installed \/ Installs(todo)
       /\ ufwOn \/ Enables(todo)

UfwSide ==
  /\ \A d \in docs \cup {doc} : ForUfw(d.firewall)
  /\ DOMAIN zones = {} /\ "firewalld" \notin installed
  /\ ownedFirewall \cup userRules \subseteq UfwRules
  /\ recorded # "firewalld"
  /\ ownedFirewall # {} => ufwOn
  /\ ownedFirewall \cap userRules # {} => "ufw" \in installed
  /\ pc = "running" => UfwReady

ZoneSide ==
  /\ \A d \in docs \cup {doc} : ForFirewalld(d.firewall)
  /\ userRules = {} /\ (ownedFirewall \cup DOMAIN zones) \cap UfwRules = {}
  /\ recorded # "ufw"
  /\ pc = "running" => backend = "firewalld"

Removal(item) == IF item \in UfwRules THEN "delete" ELSE "remove-zone"

Accounted(t, f, items) ==
  \A item \in items : item \in ManagedFirewall(f) \/ Has(t, Removal(item), item)

Closing ==
  /\ UfwSide \/ ZoneSide
  /\ everOwned \subseteq ownedFirewall
  /\ settled => ownedFirewall = ManagedFirewall(doc.firewall)
  /\ pc = "running" => /\ InTurn(todo, doc.firewall)
                       /\ Accounted(todo, doc.firewall, StillThere(ownedFirewall))

\* What is still to come of a list of steps comes of another.
Keeps(s, t) ==
  /\ Installs(s) => Installs(t)
  /\ Enables(s) => Enables(t)
  /\ \A item : Has(s, Removal(item), item) => Has(t, Removal(item), item)

LEMMA KeepsIf ==
  ASSUME NEW s, NEW t,
         \A do, arg : do \in {"install-ufw", "ufw-enable", "delete", "remove-zone"} /\ Has(s, do, arg)
                        => Has(t, do, arg)
  PROVE  Keeps(s, t)
<1>1. Installs(s) => Installs(t)
  BY Zenon DEF Installs
<1>2. Enables(s) => Enables(t)
  BY Zenon DEF Enables
<1>3. \A item : Has(s, Removal(item), item) => Has(t, Removal(item), item)
  BY DEF Removal
<1> QED
  BY <1>1, <1>2, <1>3 DEF Keeps

LEMMA KeepsTail ==
  ASSUME NEW t, IsSteps(t), t # <<>>,
         Head(t).do \notin {"install-ufw", "ufw-enable", "delete", "remove-zone"}
  PROVE  Keeps(t, Tail(t))
BY HasLeft, KeepsIf

LEMMA OthersLeft ==
  ASSUME NEW t, IsSteps(t), t # <<>>
  PROVE  /\ Head(t).do # "install-ufw" => (Installs(t) => Installs(Tail(t)))
         /\ Head(t).do # "ufw-enable" => (Enables(t) => Enables(Tail(t)))
         /\ \A item : Head(t).do # Removal(item) \/ Head(t).arg # item =>
              (Has(t, Removal(item), item) => Has(Tail(t), Removal(item), item))
<1>1. Head(t).do # "install-ufw" => (Installs(t) => Installs(Tail(t)))
  BY HasLeft, Zenon DEF Installs
<1>2. Head(t).do # "ufw-enable" => (Enables(t) => Enables(Tail(t)))
  BY HasLeft, Zenon DEF Enables
<1> QED
  BY <1>1, <1>2, HasLeft

\* When the packages' turn has come, the firewall is done.
LEMMA FirewallDone ==
  ASSUME NEW t, NEW f, InTurn(t, f), t = <<>> \/ Head(t).action \in Late
  PROVE  /\ ~Installs(t) /\ ~Enables(t) /\ Prepared(t)
         /\ \A item : ~Has(t, Removal(item), item)
<1>1. \A k \in DOMAIN t : t[k].do \notin Filtering
  <2>1. CASE t = <<>>
    <3>1. DOMAIN t = {}
      BY <2>1
    <3> QED
      BY <3>1
  <2>2. CASE t # <<>>
    BY <2>2, TurnLeft DEF InTurn, Late
  <2> QED
    BY <2>1, <2>2
<1>2. \A do, arg : do \in Filtering => ~Has(t, do, arg)
  BY <1>1 DEF Has
<1>3. ~Installs(t)
  <2>1. "install-ufw" \in Filtering
    BY DEF Filtering
  <2> QED
    BY <1>2, <2>1, Zenon DEF Installs
<1>4. ~Enables(t)
  <2>1. "ufw-enable" \in Filtering
    BY DEF Filtering
  <2> QED
    BY <1>2, <2>1, Zenon DEF Enables
<1>5. \A item : Removal(item) \in Filtering
  BY DEF Removal, Filtering
<1>6. Prepared(t)
  BY <1>1 DEF Prepared, Filtering
<1> QED
  BY <1>2, <1>3, <1>4, <1>5, <1>6

LEMMA ClosingQuiet ==
  ASSUME Closing, pc = "running", pc' = pc, settled = FALSE, settled' = settled,
         NEW t, todo' = t, InTurn(t, doc.firewall), Prepared(todo) => Prepared(t), Keeps(todo, t),
         UNCHANGED <<docs, doc, backend, everOwned, ownedFirewall, recorded, zones, userRules, ufwOn>>,
         "ufw" \in installed => "ufw" \in installed',
         "firewalld" \in installed' => "firewalld" \in installed
  PROVE  Closing'
<1>1. StillThere(ownedFirewall)' = StillThere(ownedFirewall)
  BY DEF StillThere, CustomisedZones
<1>2. Accounted(t, doc.firewall, StillThere(ownedFirewall))
  BY DEF Closing, Accounted, Keeps
<1>3. UfwSide => UfwSide'
  <2> SUFFICES ASSUME UfwSide
               PROVE  UfwSide'
    OBVIOUS
  <2>1. UfwReady'
    BY DEF UfwSide, UfwReady, Keeps
  <2> QED
    BY <2>1 DEF UfwSide
<1>4. ZoneSide => ZoneSide'
  BY DEF ZoneSide
<1>5. Accounted(todo', doc.firewall, StillThere(ownedFirewall)')
  BY <1>1, <1>2
<1>6. Accounted(todo, doc.firewall, StillThere(ownedFirewall))'
  BY <1>5 DEF Accounted
<1> QED
  BY <1>3, <1>4, <1>6 DEF Closing

\* A block's firewall: what it manages is there only when it is on.
LEMMA ManagedIs ==
  ASSUME NEW d, DocumentOK(d)
  PROVE  LET f == d.firewall
         IN /\ ~f.enable => ManagedFirewall(f) = {}
            /\ f.enable /\ f.backend = "ufw" => ManagedFirewall(f) = DesiredUfwRules(f)
            /\ f.enable /\ f.backend = "firewalld" => ManagedFirewall(f) = DeclaredZones(f)
            /\ f.enable \in BOOLEAN /\ f.backend \in {"ufw", "firewalld"}
BY DEF DocumentOK, ManagedFirewall

\* Steps of the firewall's action.
LEMMA ClosingZone ==
  ASSUME Base, Closing, Zone
  PROVE  Closing'
<1>1. Took
  BY WorkingTakes DEF Working
<1>2. /\ UNCHANGED <<docs, doc, backend, everOwned, ownedFirewall, recorded, userRules, ufwOn, installed>>
      /\ settled = FALSE
  BY <1>1 DEF Zone, FirewallOnly, Same, ghosts, Took, Base
<1>3. PICK f : f = doc.firewall
  OBVIOUS
<1>4. PICK t : t = Tail(todo)
  OBVIOUS
<1>5. PICK h : h = Head(todo)
  OBVIOUS
<1>6. InTurn(todo, f) /\ IsSteps(todo) /\ todo # <<>> /\ todo' = t /\ pc = "running"
  BY <1>1, <1>3, <1>4 DEF Closing, Took, InTurn
<1>7. InTurn(t, f) /\ Adds(h, f)
  BY <1>4, <1>5, <1>6, TurnLeft
<1>8. \/ h.do = "write-zone" /\ DOMAIN (zones') = DOMAIN zones \cup {h.arg}
      \/ h.do = "remove-zone" /\ DOMAIN (zones') = DOMAIN zones \ {h.arg}
  BY <1>5 DEF Zone, Now, WriteZone, RemoveZone, Restrict
<1>9. /\ Installs(todo) => Installs(t)
      /\ Enables(todo) => Enables(t)
      /\ \A item : h.do # Removal(item) \/ h.arg # item =>
           (Has(todo, Removal(item), item) => Has(t, Removal(item), item))
  BY <1>4, <1>5, <1>6, <1>8, OthersLeft
<1>10. Prepared(todo) => Prepared(t)
  BY <1>4, <1>5, <1>6, <1>8, PreparedLeft
<1>11. h.do = "write-zone" => ZoneSide /\ h.arg \in ManagedFirewall(f) /\ h.arg \notin UfwRules
  BY <1>3, <1>7 DEF Adds, Closing, UfwSide, ZoneSide, ForUfw, ForFirewalld
<1>12. UfwSide => UfwSide'
  <2> SUFFICES ASSUME UfwSide
               PROVE  UfwSide'
    OBVIOUS
  <2>1. UfwReady'
    BY <1>1, <1>2, <1>6, <1>9, <1>10 DEF UfwSide, UfwReady
  <2>2. DOMAIN zones = {} /\ DOMAIN (zones') = {}
    <3>1. h.do = "write-zone" => \E d \in docs \cup {doc} : ForUfw(d.firewall) /\ d.firewall = f
      BY <1>3 DEF UfwSide
    <3>2. h.do # "write-zone"
      BY <1>7, <3>1 DEF Adds, ForUfw
    <3> QED
      BY <1>8, <3>2 DEF UfwSide
  <2> QED
    BY <1>2, <2>1, <2>2 DEF UfwSide
<1>13. ZoneSide => ZoneSide'
  BY <1>1, <1>2, <1>8, <1>11 DEF ZoneSide, Took
<1>14. ASSUME NEW i \in ownedFirewall, i \in userRules \cup DOMAIN (zones')
       PROVE  i \in ManagedFirewall(f) \/ Has(t, Removal(i), i)
  <2>1. CASE i \in userRules \cup DOMAIN zones
    <3>1. i \in ManagedFirewall(f) \/ Has(todo, Removal(i), i)
      BY <1>3, <1>6, <2>1 DEF Closing, Accounted, StillThere, CustomisedZones
    <3>2. ASSUME h.do = Removal(i), h.arg = i
          PROVE  FALSE
      <4>1. h.do = "remove-zone" /\ i \notin UfwRules /\ i \notin DOMAIN (zones')
        BY <1>8, <3>2 DEF Removal
      <4> QED
        BY <1>14, <4>1 DEF Closing, UfwSide, ZoneSide
    <3> QED
      BY <1>9, <3>1, <3>2
  <2>2. CASE i \notin userRules \cup DOMAIN zones
    BY <1>8, <1>11, <1>14, <2>2
  <2> QED
    BY <2>1, <2>2
<1>15. Accounted(t, f, StillThere(ownedFirewall)')
  BY <1>2, <1>14 DEF Accounted, StillThere, CustomisedZones
<1>16. Accounted(todo, doc.firewall, StillThere(ownedFirewall))'
  BY <1>2, <1>3, <1>6, <1>15 DEF Accounted
<1> QED
  BY <1>1, <1>2, <1>3, <1>6, <1>7, <1>12, <1>13, <1>16 DEF Closing, Took

LEMMA ClosingUfw ==
  ASSUME Base, Closing, Ufw
  PROVE  Closing'
<1>1. Took
  BY WorkingTakes DEF Working
<1>2. /\ UNCHANGED <<docs, doc, backend, everOwned, ownedFirewall, recorded, zones>>
      /\ settled = FALSE
  BY <1>1 DEF Ufw, FirewallOnly, Same, ghosts, Took, Base
<1>3. PICK f : f = doc.firewall
  OBVIOUS
<1>4. PICK t : t = Tail(todo)
  OBVIOUS
<1>5. PICK h : h = Head(todo)
  OBVIOUS
<1>6. InTurn(todo, f) /\ IsSteps(todo) /\ todo # <<>> /\ todo' = t /\ pc = "running"
  BY <1>1, <1>3, <1>4 DEF Closing, Took, InTurn
<1>7. InTurn(t, f) /\ Adds(h, f)
  BY <1>4, <1>5, <1>6, TurnLeft
<1>8. \/ h.do = "install-ufw" /\ installed' = installed \cup {"ufw"} /\ UNCHANGED <<userRules, ufwOn>>
      \/ h.do = "allow" /\ userRules' = userRules \cup {h.arg} /\ UNCHANGED <<installed, ufwOn>>
      \/ h.do = "delete" /\ userRules' = userRules \ {h.arg} /\ UNCHANGED <<installed, ufwOn>>
      \/ h.do = "ufw-enable" /\ ufwOn' = TRUE /\ UNCHANGED <<installed, userRules>>
  BY <1>5 DEF Ufw, Now, InstallUfw, SetUfwRule, UfwEnable
<1>9. /\ Installs(todo) => Installs(t) \/ "ufw" \in installed'
      /\ Enables(todo) => Enables(t) \/ ufwOn'
      /\ \A item : h.do # Removal(item) \/ h.arg # item =>
           (Has(todo, Removal(item), item) => Has(t, Removal(item), item))
  BY <1>4, <1>5, <1>6, <1>8, OthersLeft
<1>10. Prepared(todo) => h.do # "allow" /\ (Prepared(t) \/ "ufw" \in installed')
  BY <1>4, <1>5, <1>6, <1>8, PreparedLeft
<1>11. h.do = "allow" => UfwSide /\ h.arg \in ManagedFirewall(f) /\ h.arg \in UfwRules /\ "ufw" \in installed
  <2> SUFFICES ASSUME h.do = "allow"
               PROVE  UfwSide /\ h.arg \in ManagedFirewall(f) /\ h.arg \in UfwRules /\ "ufw" \in installed
    OBVIOUS
  <2>1. f.enable /\ f.backend = "ufw" /\ h.arg \in ManagedFirewall(f)
    BY <1>7 DEF Adds
  <2>2. UfwSide
    BY <1>3, <2>1 DEF Closing, ZoneSide, ForFirewalld
  <2> QED
    BY <1>3, <1>6, <1>10, <2>1, <2>2 DEF UfwSide, UfwReady, ForUfw
<1>12. "ufw" \in installed => "ufw" \in installed'
  BY <1>8
<1>13. ufwOn => ufwOn'
  BY <1>8
<1>14. UfwSide => UfwSide'
  <2> SUFFICES ASSUME UfwSide
               PROVE  UfwSide'
    OBVIOUS
  <2>1. UfwReady'
    <3>1. UfwReady
      BY <1>6 DEF UfwSide
    <3>2. Prepared(t) \/ "ufw" \in installed'
      BY <1>10, <1>12, <3>1 DEF UfwReady
    <3> QED
      BY <1>2, <1>6, <1>9, <1>12, <1>13, <3>1, <3>2 DEF UfwReady
  <2>2. "firewalld" \notin installed'
    BY <1>8 DEF UfwSide
  <2>3. userRules' \subseteq UfwRules
    BY <1>8, <1>11 DEF UfwSide
  <2>4. ownedFirewall \cap userRules' # {} => "ufw" \in installed'
    BY <1>8, <1>11, <1>12 DEF UfwSide
  <2> QED
    BY <1>2, <1>13, <2>1, <2>2, <2>3, <2>4 DEF UfwSide
<1>15. ZoneSide => ZoneSide'
  <2> SUFFICES ASSUME ZoneSide
               PROVE  ZoneSide'
    OBVIOUS
  <2>1. h.do # "allow"
    BY <1>3, <1>7 DEF Adds, ZoneSide, ForFirewalld
  <2>2. userRules' = {}
    BY <1>8, <2>1 DEF ZoneSide
  <2> QED
    BY <1>1, <1>2, <2>2 DEF ZoneSide, Took
<1>16. ASSUME NEW i \in ownedFirewall, i \in userRules' \cup DOMAIN zones
       PROVE  i \in ManagedFirewall(f) \/ Has(t, Removal(i), i)
  <2>1. CASE i \in userRules \cup DOMAIN zones
    <3>1. i \in ManagedFirewall(f) \/ Has(todo, Removal(i), i)
      BY <1>3, <1>6, <2>1 DEF Closing, Accounted, StillThere, CustomisedZones
    <3>2. ASSUME h.do = Removal(i), h.arg = i
          PROVE  FALSE
      <4>1. h.do = "delete" /\ i \in UfwRules /\ i \notin userRules'
        BY <1>8, <3>2 DEF Removal
      <4> QED
        BY <1>16, <4>1 DEF Closing, UfwSide, ZoneSide
    <3> QED
      BY <1>9, <3>1, <3>2
  <2>2. CASE i \notin userRules \cup DOMAIN zones
    BY <1>8, <1>11, <1>16, <2>2
  <2> QED
    BY <2>1, <2>2
<1>17. Accounted(t, f, StillThere(ownedFirewall)')
  BY <1>2, <1>16 DEF Accounted, StillThere, CustomisedZones
<1>18. Accounted(todo, doc.firewall, StillThere(ownedFirewall))'
  BY <1>2, <1>3, <1>6, <1>17 DEF Accounted
<1> QED
  BY <1>1, <1>2, <1>3, <1>6, <1>7, <1>14, <1>15, <1>18 DEF Closing, Took

LEMMA ClosingPackages ==
  ASSUME Base, Closing, Packages
  PROVE  Closing'
<1>1. Took
  BY WorkingTakes DEF Working
<1>2. /\ UNCHANGED <<docs, doc, backend, everOwned, ownedFirewall, recorded, zones, ufwOn>>
      /\ settled = FALSE /\ Head(todo).do = "packages"
      /\ installed' = (installed \cup WantedPackages(doc)) \ (ownedPackages \ WantedPackages(doc))
      /\ userRules' \in {userRules, {}}
  BY <1>1 DEF Packages, Now, Same, ghosts, Took, Base
<1>3. PICK f : f = doc.firewall
  OBVIOUS
<1>4. PICK t : t = Tail(todo)
  OBVIOUS
<1>5. InTurn(todo, f) /\ IsSteps(todo) /\ todo # <<>> /\ todo' = t /\ pc = "running"
  BY <1>1, <1>3, <1>4 DEF Closing, Took, InTurn
<1>6. InTurn(t, f) /\ Head(todo).action \in Late
  BY <1>2, <1>4, <1>5, TurnLeft DEF Late
<1>7. ~Installs(todo) /\ ~Enables(todo) /\ Prepared(todo) /\ \A item : ~Has(todo, Removal(item), item)
  BY <1>5, <1>6, FirewallDone
<1>8. Prepared(t)
  BY <1>2, <1>4, <1>5, <1>7, PreparedLeft
<1>9. \A i \in ownedFirewall : i \in userRules \cup DOMAIN zones => i \in ManagedFirewall(f)
  BY <1>3, <1>5, <1>7 DEF Closing, Accounted, StillThere, CustomisedZones
<1>10. UfwSide => UfwSide'
  <2> SUFFICES ASSUME UfwSide
               PROVE  UfwSide'
    OBVIOUS
  <2>1. ForUfw(f) /\ DocumentOK(doc)
    BY <1>3 DEF UfwSide, Base
  <2>2. "firewalld" \notin WantedPackages(doc)
    BY <1>3, <2>1 DEF WantedPackages, WantedUnits, ForUfw
  <2>3. "firewalld" \notin installed'
    BY <1>2, <2>2 DEF UfwSide
  <2>4. ManagedFirewall(f) # {} => "ufw" \in installed'
    <3> SUFFICES ASSUME ManagedFirewall(f) # {}
                 PROVE  "ufw" \in installed'
      OBVIOUS
    <3>1. f.enable /\ f.backend = "ufw"
      BY <1>3, <2>1, ManagedIs DEF ForUfw
    <3>2. "ufw" \in WantedPackages(doc)
      BY <1>3, <3>1 DEF WantedPackages, WantedUnits
    <3> QED
      BY <1>2, <3>2
  <2>5. UfwReady'
    <3>1. UfwReady
      BY <1>5 DEF UfwSide
    <3> QED
      BY <1>2, <1>3, <1>5, <1>7, <1>8, <2>4, <3>1 DEF UfwReady
  <2>6. ownedFirewall \cap userRules' # {} => "ufw" \in installed'
    BY <1>2, <1>9, <2>4
  <2>7. userRules' \subseteq userRules
    BY <1>2
  <2> QED
    BY <1>2, <2>3, <2>5, <2>6, <2>7 DEF UfwSide
<1>11. ZoneSide => ZoneSide'
  BY <1>1, <1>2 DEF ZoneSide, Took
<1>12. Accounted(t, f, StillThere(ownedFirewall)')
  BY <1>2, <1>9 DEF Accounted, StillThere, CustomisedZones
<1>13. Accounted(todo, doc.firewall, StillThere(ownedFirewall))'
  BY <1>2, <1>3, <1>5, <1>12 DEF Accounted
<1> QED
  BY <1>1, <1>2, <1>3, <1>5, <1>6, <1>10, <1>11, <1>13 DEF Closing, Took

LEMMA ClosingWorks ==
  ASSUME Base, Closing, Working
  PROVE  Closing'
<1>1. CASE Zone
  BY <1>1, ClosingZone
<1>2. CASE Ufw
  BY <1>2, ClosingUfw
<1>3. CASE Packages
  BY <1>3, ClosingPackages
<1>4. CASE InstallSnapper \/ SnapperCommand \/ Reload \/ Units
  <2>1. Took
    BY WorkingTakes
  <2>2. /\ UNCHANGED <<docs, doc, backend, everOwned, ownedFirewall, recorded, zones, userRules, ufwOn>>
        /\ settled = FALSE /\ installed' \subseteq installed \cup {"snapper"} /\ installed \subseteq installed'
    BY <1>4, <2>1 DEF InstallSnapper, SnapperCommand, Reload, Units, SnapperOnly, FirewallOnly, Same, ghosts,
                      firewallVars, firewallDisk, Took, Base
  <2>3. Head(todo).do \in {"install-snapper", "reload", "units"} \cup Inner
    BY <1>4 DEF InstallSnapper, SnapperCommand, Reload, Units, Now, Inner, Creating, Deleting
  <2>4. PICK t : t = Tail(todo)
    OBVIOUS
  <2>5. /\ InTurn(todo, doc.firewall) /\ IsSteps(todo) /\ todo # <<>> /\ todo' = t
        /\ pc = "running" /\ pc' = pc
    BY <2>1, <2>4 DEF Closing, Took, InTurn
  <2>6. Head(todo).do \notin {"install-ufw", "ufw-enable", "delete", "remove-zone"}
    BY <2>3 DEF Inner, Creating, Deleting
  <2>7. InTurn(t, doc.firewall)
    BY <2>4, <2>5, TurnLeft
  <2>8. Keeps(todo, t)
    BY <2>4, <2>5, <2>6, KeepsTail
  <2>9. Prepared(todo) => Prepared(t)
    BY <2>4, <2>5, <2>6, PreparedLeft
  <2> QED
    BY <2>2, <2>5, <2>7, <2>8, <2>9, ClosingQuiet, <2>1 DEF Took
<1> QED
  BY <1>1, <1>2, <1>3, <1>4 DEF Working

LEMMA CreateActions ==
  ASSUME NEW name, NEW v, NEW k \in DOMAIN CreateSteps(name, v)
  PROVE  CreateSteps(name, v)[k].action = "snapper"
<1> DEFINE a == SnapperStep("umount", name, v, 0)
           b == SnapperStep("rmdir", name, v, 0)
           c == SnapperStep("create-config", name, v, 0)
           d == SnapperStep("delete-nested", name, v, 0)
           e == SnapperStep("mkdir", name, v, 0)
           f == SnapperStep("mount", name, v, 0)
           S == {a, b, c, d, e, f}
<1>1. \A s \in S : s.action = "snapper"
  BY DEF SnapperStep
<1>2. CreateSteps(name, v) = IF v \notin ownMounted THEN <<c>> ELSE <<a, b, c, d, e, f>>
  BY DEF CreateSteps
<1> HIDE DEF a, b, c, d, e, f
<1>3. PICK x : x = CreateSteps(name, v)
  OBVIOUS
<1>4. <<c>> \in Seq({c}) /\ <<a, b, c, d, e, f>> \in Seq(S)
  OBVIOUS
<1>5. CASE v \notin ownMounted
  <2>1. x \in Seq({c})
    BY <1>2, <1>3, <1>4, <1>5
  <2> QED
    BY <1>1, <1>3, <2>1
<1>6. CASE v \in ownMounted
  <2>1. x \in Seq(S)
    BY <1>2, <1>3, <1>4, <1>6
  <2> QED
    BY <1>1, <1>3, <2>1
<1> QED
  BY <1>5, <1>6

LEMMA DeleteActions ==
  ASSUME NEW name, NEW v, IsFiniteSet(NumberedSnapshotDirs(v)), NEW k \in DOMAIN DeleteSteps(name, v)
  PROVE  DeleteSteps(name, v)[k].action = "snapper"
<1> DEFINE a == SnapperStep("delete-container", name, v, 0)
           b == SnapperStep("remove-config", name, v, 0)
           c == SnapperStep("unlist", name, v, 0)
           S == {a, b, c}
           last == <<a, b, c>>
           all == DeleteNumbered(name, v)
<1>1. \A s \in S : s.action = "snapper"
  BY DEF SnapperStep
<1>2. DeleteSteps(name, v) = all \o last
  BY DEF DeleteSteps
<1>3. IsSteps(all)
  BY NumberedAre
<1>4. \A j \in DOMAIN all : all[j].action = "snapper"
  BY DEF DeleteNumbered, SnapperStep
<1> HIDE DEF a, b, c, all
<1>5. last \in Seq(S)
  OBVIOUS
<1> HIDE DEF last
<1>6. IsSteps(last) /\ \A j \in DOMAIN last : last[j] \in S
  BY <1>5, LenProperties, StepsAre DEF IsSteps
<1>7. PICK m \in Nat, n \in Nat : m = Len(all) /\ n = Len(last)
  BY <1>3, <1>6, StepsAre
<1>8. DOMAIN all = 1 .. m /\ DOMAIN last = 1 .. n
  BY <1>3, <1>6, <1>7, StepsAre
<1>9. PICK x : x = all \o last
  OBVIOUS
<1>10. /\ DOMAIN x = 1 .. m + n
       /\ \A j \in 1 .. m : x[j] = all[j]
       /\ \A j \in 1 .. m + n : j > m => x[j] = last[j - m]
  BY <1>3, <1>6, <1>7, <1>9, JoinIs
<1>11. k \in 1 .. m + n
  BY <1>2, <1>9, <1>10
<1>12. x[k].action = "snapper"
  <2>1. CASE k <= m
    <3>1. k \in 1 .. m
      BY <1>7, <1>11, <2>1
    <3> QED
      BY <1>4, <1>8, <1>10, <3>1
  <2>2. CASE k > m
    <3>1. k - m \in 1 .. n
      BY <1>7, <1>11, <2>2
    <3> QED
      BY <1>1, <1>6, <1>8, <1>10, <1>11, <2>2, <3>1
  <2> QED
    BY <1>7, <1>11, <2>1, <2>2
<1> QED
  BY <1>2, <1>9, <1>12

LEMMA ClosingUnfolds ==
  ASSUME Base, Closing, Unfolding
  PROVE  Closing'
<1>1. /\ pc = "running" /\ pc' = pc /\ todo # <<>> /\ doc' = doc /\ docs' = docs /\ settled' = settled
      /\ UNCHANGED firewallVars /\ backend' = backend /\ UNCHANGED ghosts
  BY UnfoldingPuts
<1>2. /\ UNCHANGED <<docs, doc, backend, everOwned, ownedFirewall, recorded, zones, userRules, ufwOn, installed>>
      /\ settled = FALSE
  BY <1>1 DEF firewallVars, firewallDisk, ghosts, Base
<1>3. PICK x, v : /\ v \in Subvolumes /\ IsBatch(x, Head(todo).arg, v) /\ todo' = x \o Tail(todo)
                  /\ \/ Head(todo).do = "create" /\ x = CreateSteps(Head(todo).arg, v)
                     \/ Head(todo).do = "remove" /\ x = DeleteSteps(Head(todo).arg, v)
  BY UnfoldingPuts
<1>4. PICK t : t = Tail(todo)
  OBVIOUS
<1>5. PICK f : f = doc.firewall
  OBVIOUS
<1>6. InTurn(todo, f) /\ IsSteps(todo)
  BY <1>1, <1>5 DEF Closing, InTurn
<1>7. InTurn(t, f) /\ IsSteps(t) /\ Keeps(todo, t) /\ (Prepared(todo) => Prepared(t))
  <2>1. InTurn(t, f) /\ IsSteps(t)
    BY <1>1, <1>4, <1>6, TurnLeft, TailIs
  <2>2. Head(todo).do \in {"create", "remove"}
    BY <1>3
  <2>3. Head(todo).do \notin {"install-ufw", "ufw-enable", "delete", "remove-zone"}
    BY <2>2
  <2>4. Keeps(todo, t)
    BY <1>1, <1>4, <1>6, <2>3, KeepsTail
  <2>5. Prepared(todo) => Prepared(t)
    BY <1>1, <1>4, <1>6, <2>3, PreparedLeft
  <2> QED
    BY <2>1, <2>4, <2>5
<1>8. \A k \in DOMAIN x : x[k].action = "snapper"
  <2>1. IsFiniteSet(NumberedSnapshotDirs(v))
    BY <1>3, SideType, FS_EmptySet DEF NumberedSnapshotDirs, Base, DiskTypes
  <2> QED
    BY <1>3, <2>1, CreateActions, DeleteActions
<1>9. IsSteps(x) /\ \A k \in DOMAIN x : x[k].do \in Inner
  BY <1>3 DEF IsBatch
<1>10. Early(x, f) /\ Prepared(x)
  BY <1>8, <1>9 DEF Early, Prepared, Late, Adds, Inner, Creating, Deleting
<1>11. PICK y : y = x \o t
  OBVIOUS
<1>12. InTurn(y, f)
  BY <1>7, <1>10, <1>11, EarlyTurn, TurnJoined
<1>13. Prepared(t) => Prepared(y)
  BY <1>7, <1>9, <1>10, <1>11, PreparedJoined
<1>14. \A do, arg : Has(t, do, arg) => Has(y, do, arg)
  BY <1>7, <1>9, <1>11, HasJoined
<1>15. Keeps(t, y)
  BY <1>14, KeepsIf
<1>16. Keeps(todo, y)
  BY <1>7, <1>15 DEF Keeps
<1>17. todo' = y
  BY <1>3, <1>4, <1>11
<1> QED
  BY <1>1, <1>2, <1>5, <1>7, <1>12, <1>13, <1>16, <1>17, ClosingQuiet

LEMMA ClosingInit == ScenariosKeepFirewall /\ Init => Closing
<1> SUFFICES ASSUME ScenariosKeepFirewall, Init
             PROVE  Closing
  OBVIOUS
<1>1. PICK s \in Scenarios :
        /\ docs = s.docs /\ doc \in s.docs /\ zones = s.zones /\ installed = s.installed
        /\ userRules = s.rules /\ ufwOn = (s.rules # {})
        /\ ownedFirewall = s.owned /\ everOwned = s.owned /\ recorded = "none"
        /\ pc = "idle" /\ settled = FALSE
  BY DEF Init
<1>2. docs \cup {doc} = s.docs
  BY <1>1
<1>3. \/ /\ \A d \in s.docs : ForUfw(d.firewall)
         /\ DOMAIN s.zones = {} /\ "firewalld" \notin s.installed
         /\ s.owned \cup s.rules \subseteq UfwRules
         /\ (s.owned # {} => s.rules # {}) /\ (s.rules # {} => "ufw" \in s.installed)
      \/ /\ \A d \in s.docs : ForFirewalld(d.firewall)
         /\ s.rules = {} /\ (s.owned \cup DOMAIN s.zones) \cap UfwRules = {}
  BY DEF ScenariosKeepFirewall
<1>4. UfwSide \/ ZoneSide
  BY <1>1, <1>2, <1>3 DEF UfwSide, ZoneSide
<1> QED
  BY <1>1, <1>4 DEF Closing

LEMMA UfwPlan ==
  ASSUME Base, UfwSide
  PROVE  LET f == doc.firewall
             p == Planned(doc).firewall
         IN /\ PlannedFor(p, f)
            /\ f.present \/ ownedFirewall # {} \/ ManagedFirewall(f) # {} => p.backend = "ufw"
            /\ ManagedFirewall(f) # {} /\ p.add = {} => "ufw" \in installed /\ ufwOn
            /\ \A i \in ownedFirewall \cap userRules : i \in ManagedFirewall(f) \/ i \in p.drop
<1> DEFINE f == doc.firewall
           p == Planned(doc).firewall
<1>1. /\ IsFiniteSet(p.add) /\ IsFiniteSet(p.drop) /\ p.backend \in {"ufw", "firewalld"}
  BY FinitePlan
<1>2. /\ ForUfw(f) /\ DocumentOK(doc) /\ recorded \in {"none", "ufw"}
      /\ ownedFirewall \subseteq UfwRules
      /\ f.enable \in BOOLEAN /\ f.backend \in {"ufw", "firewalld"}
  BY ManagedIs DEF UfwSide, Base, FirewallTypes
<1>3. p = PlanFirewall(f)
  BY DEF Planned
<1>4. /\ ~f.enable => ManagedFirewall(f) = {}
      /\ f.enable => f.backend = "ufw" /\ ManagedFirewall(f) = DesiredUfwRules(f)
  BY <1>2, ManagedIs DEF ForUfw
<1> HIDE DEF p, f
<1>5. CASE f.present \/ f.enable \/ ownedFirewall # {}
  <2>1. ResolvedBackend(f, ownedFirewall) = "ufw"
    <3>1. CASE f.enable \/ f.backend = "ufw"
      BY <1>4, <3>1 DEF ResolvedBackend
    <3>2. CASE ~(f.enable \/ f.backend = "ufw")
      <4>1. ownedFirewall # {}
        BY <1>2, <1>5, <3>2 DEF ForUfw
      <4>2. LooksLikeUfwItems(ownedFirewall)
        BY <1>2, <4>1 DEF LooksLikeUfwItems
      <4> QED
        BY <1>2, <3>2, <4>2 DEF ResolvedBackend
    <3> QED
      BY <3>1, <3>2
  <2>2. p = PlanUfw(f, ownedFirewall)
    BY <1>3, <2>1 DEF PlanFirewall
  <2>3. /\ p.backend = "ufw" /\ p.add = ManagedFirewall(f) \ LiveUfwRules
        /\ p.drop = (ownedFirewall \ ManagedFirewall(f)) \cap LiveUfwRules
    BY <1>2, <1>4, <2>2 DEF PlanUfw
  <2>4. PlannedFor(p, f)
    <3>1. p.add # {} => f.enable /\ f.backend = "ufw"
      BY <1>2, <1>4, <2>3
    <3> QED
      BY <1>1, <2>3, <3>1 DEF PlannedFor
  <2>5. ManagedFirewall(f) # {} /\ p.add = {} => "ufw" \in installed /\ ufwOn
    BY <2>3 DEF LiveUfwRules
  <2>6. \A i \in ownedFirewall \cap userRules : i \in LiveUfwRules
    BY DEF LiveUfwRules, UfwSide
  <2> QED
    BY <2>3, <2>4, <2>5, <2>6 DEF p, f
<1>6. CASE ~(f.present \/ f.enable \/ ownedFirewall # {})
  <2>1. ManagedFirewall(f) = {} /\ p.add = {}
    <3>1. ManagedFirewall(f) = {}
      BY <1>2, <1>4, <1>6
    <3>2. ResolvedBackend(f, ownedFirewall) \in {"ufw", "firewalld"}
      BY <1>2, <1>6 DEF ResolvedBackend
    <3>3. CASE ResolvedBackend(f, ownedFirewall) = "ufw"
      <4>1. p = PlanUfw(f, ownedFirewall)
        BY <1>3, <3>3 DEF PlanFirewall
      <4>2. p.add = {}
        BY <1>2, <1>6, <4>1 DEF PlanUfw
      <4> QED
        BY <3>1, <4>2
    <3>4. CASE ResolvedBackend(f, ownedFirewall) = "firewalld"
      <4>1. p = PlanFirewalldDisabled(ownedFirewall)
        BY <1>2, <1>3, <1>6, <3>4 DEF PlanFirewall
      <4> QED
        BY <3>1, <4>1 DEF PlanFirewalldDisabled
    <3> QED
      BY <3>1, <3>2, <3>3, <3>4
  <2> QED
    BY <1>1, <1>6, <2>1 DEF PlannedFor, p, f
<1> QED
  BY <1>5, <1>6

LEMMA ZonePlan ==
  ASSUME Base, ZoneSide
  PROVE  LET f == doc.firewall
             p == Planned(doc).firewall
         IN /\ PlannedFor(p, f) /\ p.backend = "firewalld"
            /\ \A i \in ownedFirewall \cap CustomisedZones : i \in ManagedFirewall(f) \/ i \in p.drop
<1> DEFINE f == doc.firewall
           p == Planned(doc).firewall
<1>1. /\ IsFiniteSet(p.add) /\ IsFiniteSet(p.drop)
  BY FinitePlan
<1>2. /\ f.backend = "firewalld" /\ recorded \in {"none", "firewalld"}
      /\ ownedFirewall \cap UfwRules = {} /\ f.enable \in BOOLEAN
  BY ManagedIs DEF ZoneSide, ForFirewalld, Base, FirewallTypes
<1>3. p = PlanFirewall(f)
  BY DEF Planned
<1>4. /\ ~f.enable => ManagedFirewall(f) = {}
      /\ f.enable => ManagedFirewall(f) = DeclaredZones(f)
  BY <1>2, ManagedIs DEF Base
<1> HIDE DEF p, f
<1>5. ResolvedBackend(f, ownedFirewall) = "firewalld"
  <2>1. ~LooksLikeUfwItems(ownedFirewall)
    BY <1>2 DEF LooksLikeUfwItems
  <2> QED
    BY <1>2, <2>1 DEF ResolvedBackend
<1>6. CASE f.enable
  <2>1. p = [backend |-> "firewalld", add |-> {z \in DeclaredZones(f) : ~SameZone(f, z)},
             drop |-> (ownedFirewall \ DeclaredZones(f)) \cap CustomisedZones]
    BY <1>3, <1>5, <1>6 DEF PlanFirewall
  <2>2. /\ p.backend = "firewalld" /\ p.add \subseteq ManagedFirewall(f)
        /\ p.drop = (ownedFirewall \ ManagedFirewall(f)) \cap CustomisedZones
    BY <1>4, <1>6, <2>1
  <2> QED
    BY <1>1, <1>2, <1>6, <2>2 DEF PlannedFor, p, f
<1>7. CASE ~f.enable
  <2>1. p = PlanFirewalldDisabled(ownedFirewall)
    BY <1>3, <1>5, <1>7 DEF PlanFirewall
  <2>2. p.backend = "firewalld" /\ p.add = {} /\ p.drop = ownedFirewall \cap CustomisedZones
    BY <2>1 DEF PlanFirewalldDisabled
  <2> QED
    BY <1>1, <2>2 DEF PlannedFor, p, f
<1> QED
  BY <1>6, <1>7

LEMMA ClosingStarts ==
  ASSUME Base, Closing, StartApply
  PROVE  Closing'
<1> DEFINE f == doc.firewall
           p == Planned(doc).firewall
<1>1. /\ UNCHANGED <<docs, doc, everOwned, ownedFirewall, recorded, zones, userRules, ufwOn, installed>>
      /\ settled' = FALSE /\ pc = "idle" /\ pc' = "running"
      /\ todo' = StepsOf(Planned(doc)) /\ backend' = p.backend
  BY DEF StartApply, firewallDisk, ghosts
<1>2. PICK t : t = StepsOf(Planned(doc))
  OBVIOUS
<1>3. PlannedFor(p, f)
  BY UfwPlan, ZonePlan DEF Closing
<1>4. InTurn(t, f) /\ Prepared(t) /\ Carries(t, p)
  BY <1>2, <1>3, FinitePlan, PlanTurns
<1>5. UfwSide => UfwSide'
  <2> SUFFICES ASSUME UfwSide
               PROVE  UfwSide'
    OBVIOUS
  <2>1. /\ f.present \/ ownedFirewall # {} \/ ManagedFirewall(f) # {} => p.backend = "ufw"
        /\ ManagedFirewall(f) # {} /\ p.add = {} => "ufw" \in installed /\ ufwOn
    BY UfwPlan
  <2>2. ManagedFirewall(f) # {} => /\ "ufw" \in installed \/ Installs(t)
                                   /\ ufwOn \/ Enables(t)
    BY <1>4, <2>1 DEF Carries
  <2> HIDE DEF p
  <2>3. UfwReady'
    BY <1>1, <1>2, <1>4, <2>1, <2>2 DEF UfwReady
  <2> QED
    BY <1>1, <2>3 DEF UfwSide
<1>6. ZoneSide => ZoneSide'
  <2> SUFFICES ASSUME ZoneSide
               PROVE  ZoneSide'
    OBVIOUS
  <2>1. p.backend = "firewalld"
    BY ZonePlan
  <2> QED
    BY <1>1, <2>1 DEF ZoneSide
<1>7. ASSUME NEW i \in ownedFirewall, i \in userRules \cup CustomisedZones
      PROVE  i \in ManagedFirewall(f) \/ Has(t, Removal(i), i)
  <2>1. CASE UfwSide
    <3>1. i \in UfwRules /\ i \in ownedFirewall \cap userRules
      BY <1>7, <2>1 DEF UfwSide, CustomisedZones
    <3>2. i \in ManagedFirewall(f) \/ i \in p.drop
      BY <2>1, <3>1, UfwPlan
    <3>3. p.backend = "ufw"
      BY <2>1, <3>1, UfwPlan
    <3> HIDE DEF p
    <3> QED
      BY <1>4, <3>1, <3>2, <3>3 DEF Carries, Removal
  <2>2. CASE ZoneSide
    <3>1. i \notin UfwRules /\ i \in ownedFirewall \cap CustomisedZones
      BY <1>7, <2>2 DEF ZoneSide, CustomisedZones
    <3>2. i \in ManagedFirewall(f) \/ i \in p.drop
      BY <2>2, <3>1, ZonePlan
    <3>3. p.backend = "firewalld"
      BY <2>2, ZonePlan
    <3> HIDE DEF p
    <3> QED
      BY <1>4, <3>1, <3>2, <3>3 DEF Carries, Removal
  <2> QED
    BY <2>1, <2>2 DEF Closing
<1> HIDE DEF p
<1>8. Accounted(t, f, StillThere(ownedFirewall)')
  BY <1>1, <1>7 DEF Accounted, StillThere, CustomisedZones
<1>9. Accounted(todo, doc.firewall, StillThere(ownedFirewall))'
  BY <1>1, <1>2, <1>8 DEF Accounted
<1> QED
  BY <1>1, <1>2, <1>4, <1>5, <1>6, <1>9 DEF Closing

\* A manifest that is written when the firewall is done names what the document declares.
LEMMA ClosingRecords ==
  ASSUME Base, Closing, pc = "running", todo = <<>> \/ Head(todo).action \in Late,
         NEW done, NEW partial, "firewall" \in done, Record(done, partial), pc' = "idle",
         UNCHANGED <<docs, doc, zones, userRules, ufwOn, installed>>
  PROVE  Closing'
<1>1. PICK f : f = doc.firewall
  OBVIOUS
<1>2. InTurn(todo, f)
  BY <1>1 DEF Closing
<1>3. ~Installs(todo) /\ ~Enables(todo) /\ \A item : ~Has(todo, Removal(item), item)
  BY <1>2, FirewallDone
<1>4. \A i \in ownedFirewall : i \in userRules \cup DOMAIN zones => i \in ManagedFirewall(f)
  BY <1>1, <1>3 DEF Closing, Accounted, StillThere, CustomisedZones
<1>5. /\ ownedFirewall' = ManagedFirewall(f)
      /\ FirewallTakesPart => recorded' = backend
      /\ ~FirewallTakesPart => recorded' \in {recorded, "none"}
      /\ everOwned' = StillThere(everOwned \cup ownedFirewall')
  BY <1>1 DEF Record
<1>6. everOwned' \subseteq ownedFirewall'
  BY <1>4, <1>5 DEF StillThere, CustomisedZones, Closing
<1>7. UfwSide => UfwSide'
  <2> SUFFICES ASSUME UfwSide
               PROVE  UfwSide'
    OBVIOUS
  <2>1. UfwReady
    BY DEF UfwSide
  <2>2. ManagedFirewall(f) \subseteq UfwRules
    BY <1>1 DEF UfwSide, ForUfw
  <2>3. ManagedFirewall(f) # {} => "ufw" \in installed /\ ufwOn
    BY <1>1, <1>3, <2>1 DEF UfwReady
  <2>4. recorded' # "firewalld"
    BY <1>5, <2>1 DEF UfwReady, UfwSide, FirewallTakesPart
  <2> QED
    BY <1>1, <1>5, <2>2, <2>3, <2>4 DEF UfwSide
<1>8. ZoneSide => ZoneSide'
  <2> SUFFICES ASSUME ZoneSide
               PROVE  ZoneSide'
    OBVIOUS
  <2>1. ManagedFirewall(f) \cap UfwRules = {}
    BY <1>1 DEF ZoneSide, ForFirewalld
  <2>2. recorded' # "ufw"
    BY <1>5 DEF ZoneSide
  <2> QED
    BY <1>1, <1>5, <2>1, <2>2 DEF ZoneSide
<1> QED
  BY <1>1, <1>5, <1>6, <1>7, <1>8 DEF Closing

\* What is neither removed nor recorded anew when an apply stops is still owned.
LEMMA ClosingStops ==
  ASSUME Base, Closing, pc = "running", pc' = "idle", settled' = settled,
         UNCHANGED <<docs, doc, zones, userRules, ufwOn, installed, ownedFirewall, recorded>>,
         everOwned' \subseteq everOwned \cup ownedFirewall
  PROVE  Closing'
<1>1. settled = FALSE
  BY DEF Base
<1>2. UfwSide => UfwSide'
  BY DEF UfwSide
<1>3. ZoneSide => ZoneSide'
  BY DEF ZoneSide
<1> QED
  BY <1>1, <1>2, <1>3 DEF Closing

LEMMA ClosingEnds ==
  ASSUME Base, Closing, Finish \/ Fail \/ Die
  PROVE  Closing'
<1>1. CASE Finish
  <2>1. /\ pc = "running" /\ todo = <<>> /\ pc' = "idle"
        /\ Record({"snapper", "firewall", "packages", "units"}, FALSE)
        /\ UNCHANGED <<docs, doc, zones, userRules, ufwOn, installed>>
    BY <1>1 DEF Finish
  <2>2. PICK done : done = {"snapper", "firewall", "packages", "units"}
    OBVIOUS
  <2>3. PICK partial : partial = FALSE
    OBVIOUS
  <2>4. Record(done, partial)
    BY <2>1, <2>2, <2>3
  <2>5. "firewall" \in done
    BY <2>2
  <2> QED
    BY <2>1, <2>4, <2>5, ClosingRecords
<1>2. CASE Fail
  <2>1. /\ pc = "running" /\ todo # <<>> /\ pc' = "idle" /\ settled' = settled
        /\ Record(Completed(Head(todo).action), TRUE)
        /\ UNCHANGED <<docs, doc, zones, userRules, ufwOn, installed>>
    BY <1>2 DEF Fail, Stop, firewallDisk
  <2>2. Head(todo).action \in {"snapper", "firewall"} \cup Late
    BY <2>1, TurnLeft DEF Closing
  <2>3. CASE Head(todo).action \in Late
    <3>1. "firewall" \in Completed(Head(todo).action)
      BY <2>3 DEF Completed, Late
    <3> QED
      BY <2>1, <2>3, <3>1, ClosingRecords
  <2>4. CASE Head(todo).action \in {"snapper", "firewall"}
    <3>1. "firewall" \notin Completed(Head(todo).action)
      BY <2>4 DEF Completed
    <3>2. /\ ownedFirewall' = ownedFirewall /\ recorded' = recorded
          /\ everOwned' \subseteq everOwned \cup ownedFirewall
      BY <2>1, <3>1 DEF Record, StillThere
    <3> QED
      BY <2>1, <3>2, ClosingStops
  <2> QED
    BY <2>2, <2>3, <2>4
<1>3. CASE Die
  <2>1. /\ pc = "running" /\ pc' = "idle" /\ settled' = settled
        /\ UNCHANGED <<docs, doc, zones, userRules, ufwOn, installed, ownedFirewall, recorded, everOwned>>
    BY <1>3 DEF Die, Stop, firewallDisk
  <2> QED
    BY <2>1, ClosingStops
<1> QED
  BY <1>1, <1>2, <1>3

LEMMA ClosingSync ==
  ASSUME Base, Closing, Sync
  PROVE  Closing'
<1>1. /\ UNCHANGED <<docs, zones, userRules, ufwOn, installed, recorded>>
      /\ settled' = FALSE /\ pc' = "idle"
      /\ ownedFirewall' = OwnedAfterSync(ownedFirewall, ManagedFirewall(doc.firewall), ActualFirewall(doc.firewall))
      /\ everOwned' = StillThere(everOwned \cup ownedFirewall')
  BY DEF Sync, Idle, firewallDisk
<1>2. PICK answers : /\ answers => "firewalld" \in installed
                     /\ doc'.firewall = ImportFirewall(doc.firewall, answers)
  <2>1. PICK answers \in {FALSE, "firewalld" \in installed} : \E captured :
          doc' = [firewall |-> ImportFirewall(doc.firewall, answers), snapper |-> captured]
    BY Zenon DEF Sync
  <2>2. answers => "firewalld" \in installed
    BY Zenon
  <2>3. doc'.firewall = ImportFirewall(doc.firewall, answers)
    BY <2>1
  <2> QED
    BY <2>2, <2>3
<1>3. DocumentOK(doc) /\ recorded \in {"none", "ufw", "firewalld"}
  BY DEF Base, FirewallTypes
<1>4. CASE UfwSide
  <2>1. LiveUfwRules \subseteq userRules /\ (LiveUfwRules # {} => "ufw" \in installed /\ ufwOn)
    BY DEF LiveUfwRules
  <2>2. ActualFirewall(doc.firewall) = LiveUfwRules
    <3>1. CustomisedZones = {} /\ recorded # "firewalld" /\ ForUfw(doc.firewall)
      BY <1>4 DEF UfwSide, CustomisedZones
    <3>2. doc.firewall.enable \/ doc.firewall.backend = "ufw" => doc.firewall.backend = "ufw"
      BY <3>1 DEF ForUfw
    <3> QED
      BY <3>1, <3>2 DEF ActualFirewall
  <2>3. ownedFirewall' \subseteq LiveUfwRules /\ ownedFirewall \cap LiveUfwRules \subseteq ownedFirewall'
    BY <1>1, <2>2 DEF OwnedAfterSync
  <2>4. \A i \in ownedFirewall : i \in userRules => i \in LiveUfwRules
    BY <1>4 DEF UfwSide, LiveUfwRules
  <2>5. everOwned' \subseteq ownedFirewall'
    BY <1>1, <1>4, <2>3, <2>4 DEF StillThere, CustomisedZones, UfwSide, Closing
  <2>6. ForUfw(doc'.firewall)
    <3>1. CASE LiveUfwRules # {}
      <4>1. PICK g : g = [Absent EXCEPT !.present = TRUE, !.enable = TRUE, !.backend = "ufw",
                                        !.rules = LiveUfwRules]
        OBVIOUS
      <4>2. g.enable /\ g.backend = "ufw" /\ g.rules = LiveUfwRules /\ g.allowed = {}
        BY <4>1 DEF Absent
      <4>3. ManagedFirewall(g) = LiveUfwRules
        BY <4>2 DEF ManagedFirewall, DesiredUfwRules
      <4>4. doc'.firewall = g
        BY <1>2, <3>1, <4>1 DEF ImportFirewall
      <4> QED
        BY <1>4, <2>1, <4>2, <4>3, <4>4 DEF ForUfw, UfwSide
    <3>2. CASE LiveUfwRules = {}
      <4>1. ~answers
        BY <1>2, <1>4 DEF UfwSide
      <4>2. doc'.firewall = doc.firewall
        BY <1>2, <3>2, <4>1 DEF ImportFirewall
      <4> QED
        BY <1>4, <4>2 DEF UfwSide
    <3> QED
      BY <3>1, <3>2
  <2>7. UfwSide'
    BY <1>1, <1>4, <2>1, <2>3, <2>6 DEF UfwSide
  <2> QED
    BY <1>1, <2>5, <2>7 DEF Closing
<1>5. CASE ZoneSide
  <2>1. LiveUfwRules = {}
    BY <1>5 DEF LiveUfwRules, ZoneSide
  <2>2. ActualFirewall(doc.firewall) = DOMAIN zones
    <3>1. recorded # "ufw" /\ doc.firewall.backend = "firewalld"
      BY <1>5 DEF ZoneSide, ForFirewalld
    <3> QED
      BY <2>1, <3>1 DEF ActualFirewall, CustomisedZones
  <2>3. ownedFirewall' \subseteq DOMAIN zones /\ ownedFirewall \cap DOMAIN zones \subseteq ownedFirewall'
    BY <1>1, <2>2 DEF OwnedAfterSync
  <2>4. everOwned' \subseteq ownedFirewall'
    BY <1>1, <1>5, <2>3 DEF StillThere, CustomisedZones, ZoneSide, Closing
  <2>5. ForFirewalld(doc'.firewall)
    <3>1. CASE answers
      <4>1. doc'.firewall = ImportFirewalld
        BY <1>2, <2>1, <3>1 DEF ImportFirewall
      <4>2. PICK public : ImportFirewalld =
              [Absent EXCEPT !.present = TRUE, !.enable = TRUE, !.allowed = public \ DefaultServices,
                             !.removed = DefaultServices \ public,
                             !.zones = Restrict(zones, DOMAIN zones \ {"public"})]
        BY DEF ImportFirewalld
      <4>3. PICK g : g = ImportFirewalld
        OBVIOUS
      <4>4. g.enable /\ g.backend = "firewalld" /\ g.zones = Restrict(zones, DOMAIN zones \ {"public"})
        BY <4>2, <4>3 DEF Absent
      <4>5. DOMAIN g.zones \subseteq DOMAIN zones
        BY <4>4 DEF Restrict
      <4>6. ManagedFirewall(g) \subseteq {"public"} \cup DOMAIN zones
        BY <4>4, <4>5 DEF ManagedFirewall, DeclaredZones
      <4>7. "public" \notin UfwRules
        BY RuleAssumption, Zenon
      <4> QED
        BY <1>5, <4>1, <4>3, <4>4, <4>6, <4>7 DEF ForFirewalld, ZoneSide
    <3>2. CASE ~answers
      <4>1. doc'.firewall = doc.firewall
        BY <1>2, <2>1, <3>2 DEF ImportFirewall
      <4> QED
        BY <1>5, <4>1 DEF ZoneSide
    <3> QED
      BY <3>1, <3>2
  <2>6. ZoneSide'
    BY <1>1, <1>5, <2>3, <2>5 DEF ZoneSide
  <2> QED
    BY <1>1, <2>4, <2>6 DEF Closing
<1> QED
  BY <1>4, <1>5 DEF Closing

LEMMA ClosingHand ==
  ASSUME Base, Closing, Hand
  PROVE  Closing'
<1>1. /\ UNCHANGED <<docs, doc, ownedFirewall, recorded, everOwned>>
      /\ settled' = FALSE /\ pc' = "idle"
  BY DEF Hand, Idle, ManifestStays
<1>2. PICK r \in UfwRules :
        \/ "firewalld" \in installed /\ installed' = installed /\ userRules' = userRules /\ ufwOn' = ufwOn
           /\ DOMAIN (zones') = DOMAIN zones \cup {"theirs"}
        \/ LiveUfwRules # {} /\ userRules' = userRules \cup {r} /\ UNCHANGED <<installed, zones, ufwOn>>
        \/ installed' = installed \ {"firewalld"} /\ UNCHANGED <<zones, userRules, ufwOn>>
        \/ UNCHANGED <<installed, zones, userRules, ufwOn>>
  <2>1. PICK r : r = "allow 9/tcp"
    OBVIOUS
  <2>2. r \in UfwRules
    BY <2>1, RuleAssumption, Zenon
  <2>3. \/ /\ "firewalld" \in installed /\ UNCHANGED <<installed, userRules, ufwOn>>
           /\ zones' = [z \in DOMAIN zones \cup {"theirs"} |-> IF z = "theirs" THEN {"ssh"} ELSE zones[z]]
        \/ LiveUfwRules # {} /\ userRules' = userRules \cup {r} /\ UNCHANGED <<installed, zones, ufwOn>>
        \/ installed' = installed \ {"firewalld"} /\ UNCHANGED <<zones, userRules, ufwOn>>
        \/ UNCHANGED <<installed, zones, userRules, ufwOn>>
    BY <2>1, Zenon DEF Hand
  <2> QED
    BY <2>2, <2>3
<1>3. UfwSide => UfwSide'
  <2> SUFFICES ASSUME UfwSide
               PROVE  UfwSide'
    OBVIOUS
  <2>1. /\ UNCHANGED <<zones, ufwOn>> /\ userRules' \subseteq userRules \cup {r}
        /\ "firewalld" \notin installed' /\ ("ufw" \in installed => "ufw" \in installed')
        /\ userRules' = userRules \/ "ufw" \in installed'
    BY <1>2 DEF UfwSide, LiveUfwRules
  <2> QED
    BY <1>1, <1>2, <2>1 DEF UfwSide
<1>4. ZoneSide => ZoneSide'
  <2> SUFFICES ASSUME ZoneSide
               PROVE  ZoneSide'
    OBVIOUS
  <2>1. LiveUfwRules = {}
    BY DEF LiveUfwRules, ZoneSide
  <2>2. userRules' = userRules /\ DOMAIN (zones') \subseteq DOMAIN zones \cup {"theirs"}
    BY <1>2, <2>1
  <2>3. "theirs" \notin UfwRules
    BY RuleAssumption, Zenon
  <2> QED
    BY <1>1, <2>2, <2>3 DEF ZoneSide
<1> QED
  BY <1>1, <1>3, <1>4 DEF Closing

LEMMA ClosingNext == Base /\ Closing /\ [Next]_vars => Closing'
<1> SUFFICES ASSUME Base, Closing, [Next]_vars
             PROVE  Closing'
  OBVIOUS
<1>1. CASE EditDoc \/ Snapshot \/ Reboot
  <2>1. /\ UNCHANGED <<docs, ownedFirewall, recorded, everOwned, zones, userRules, ufwOn, installed>>
        /\ pc = "idle" /\ pc' = pc /\ doc' \in docs \cup {doc} /\ (settled' => settled /\ doc' = doc)
    BY <1>1 DEF EditDoc, Snapshot, Reboot, Idle, ManifestStays, firewallDisk, ghosts, systemVars
  <2>2. UfwSide => UfwSide'
    BY <2>1 DEF UfwSide
  <2>3. ZoneSide => ZoneSide'
    BY <2>1 DEF ZoneSide
  <2> QED
    BY <2>1, <2>2, <2>3 DEF Closing
<1>2. CASE UNCHANGED vars
  <2>1. UNCHANGED <<docs, doc, ownedFirewall, recorded, everOwned, zones, userRules, ufwOn, installed,
                    backend, todo, pc, settled>>
    BY <1>2 DEF vars, firewallVars, firewallDisk, ghosts
  <2>2. StillThere(ownedFirewall)' = StillThere(ownedFirewall)
    BY <2>1 DEF StillThere, CustomisedZones
  <2>3. Accounted(todo, doc.firewall, StillThere(ownedFirewall)) =>
          Accounted(todo, doc.firewall, StillThere(ownedFirewall))'
    BY <2>1, <2>2 DEF Accounted
  <2>4. UfwReady => UfwReady'
    BY <2>1 DEF UfwReady
  <2>5. UfwSide => UfwSide'
    BY <2>1, <2>4 DEF UfwSide
  <2>6. ZoneSide => ZoneSide'
    BY <2>1 DEF ZoneSide
  <2> QED
    BY <2>1, <2>3, <2>5, <2>6 DEF Closing
<1> QED
  BY <1>1, <1>2, ClosingStarts, ClosingEnds, ClosingWorks, ClosingUnfolds, ClosingSync, ClosingHand,
     Actions DEF Resting

\* On a machine that keeps to one firewall, a rule or a zone dasik has owned does not outlive its
\* declaration: after an apply that ended well what is left of them is declared.
THEOREM WhatIsDroppedIsClosed == ScenariosKeepFirewall => (Spec => []UndeclaredIsClosed)
<1>1. Base /\ Closing => UndeclaredIsClosed
  <2> SUFFICES ASSUME Base, Closing, settled, NEW item \in everOwned
               PROVE  Declares(doc.firewall, item)
    BY DEF UndeclaredIsClosed
  <2>1. item \in ManagedFirewall(doc.firewall)
    BY DEF Closing
  <2>2. doc.firewall.enable
    BY <2>1, ManagedIs DEF Base
  <2> QED
    BY <2>1, <2>2 DEF Declares
<1>2. ScenariosKeepFirewall /\ Init => Closing
  BY ClosingInit
<1> QED
  BY <1>1, <1>2, BaseInit, BaseNext, ClosingNext, PTL DEF Spec
=============================================================================
