---------------------------- MODULE Visit_proofs ----------------------------
(* Proofs about Request and Visit.                                         *)
EXTENDS Visit, Paths_proofs, Keys_proofs

(* What a request becomes keeps its form, path and object.                 *)
LEMMA ReadFields ==
  ASSUME NEW r \in AnyRequest, NEW d \in BOOLEAN, NEW q \in Governed(r, d)
  PROVE  /\ q.form = r.form /\ q.get = r.get /\ q.safe = r.safe
         /\ q.object = r.object /\ q.slash = r.slash
<1>1. q = r \/ \E x \in Descriptor, p \in Page : q = By(r, x, p)
  <2>1. CASE Beside(r) # "there"
    <3>1. q = By(r, "none", r.page) /\ "none" \in Descriptor /\ r.page \in Page
      BY <2>1 DEF Governed, AnyRequest, Descriptor
    <3> QED
      BY <3>1
  <2>2. CASE Beside(r) = "there" /\ ~d
    BY <2>2 DEF Governed, Descriptor
  <2>3. CASE Beside(r) = "there" /\ d /\ r.descriptor = "directory"
    BY <2>3 DEF Governed, Descriptor
  <2>4. CASE Beside(r) = "there" /\ d /\ r.descriptor # "directory"
    BY <2>4 DEF Governed
  <2> QED
    BY <2>1, <2>2, <2>3, <2>4
<1> QED
  BY <1>1 DEF By, AnyRequest

(* Only a path without a slash at its end is redirected.                   *)
LEMMA RedirectedUnslashed ==
  ASSUME NEW r \in AnyRequest, NEW e, 301 \in Responses(r, e, FALSE) PROVE ~r.slash
<1>1. 301 \notin Fatal(r)
  BY DEF Fatal, Crash
<1>2. PICK q \in Readings(r, FALSE) : 301 \in Outcomes(q, e, FALSE)
  BY <1>1 DEF Responses
<1>3. PICK d \in MayOpen(Beside(r), FALSE) : q \in Governed(r, d)
  BY <1>2 DEF Readings
<1>4. d \in BOOLEAN
  BY <1>3 DEF MayOpen
<1>5. q.slash = r.slash
  BY <1>3, <1>4, ReadFields
<1>6. PICK o \in MayOpen(Served(q, e), FALSE) : 301 \in Answers(q, e, o)
  BY <1>2 DEF Outcomes
<1>7. ~q.slash
  BY <1>6 DEF Answers, Crash
<1> QED
  BY <1>5, <1>7

(* A directory without the slash is redirected.                            *)
LEMMA UnslashedRedirected ==
  ASSUME NEW r \in AnyRequest, NEW e, NEW s \in Responses(r, e, FALSE),
         r.form = "line", r.get, r.safe, r.object = "directory", ~r.slash
  PROVE  s = 301
<1>1. Beside(r) = "none"
  BY DEF Beside, Reaches, IsDirectory
<1>2. s \notin Fatal(r)
  BY <1>1 DEF Fatal
<1>3. PICK q \in Readings(r, FALSE) : s \in Outcomes(q, e, FALSE)
  BY <1>2 DEF Responses
<1>4. PICK d \in MayOpen(Beside(r), FALSE) : q \in Governed(r, d)
  BY <1>3 DEF Readings
<1>5. d \in BOOLEAN
  BY <1>4 DEF MayOpen
<1>6. q.form = "line" /\ q.get /\ q.safe /\ q.object = "directory" /\ ~q.slash
  BY <1>4, <1>5, ReadFields
<1>7. PICK o \in MayOpen(Served(q, e), FALSE) : s \in Answers(q, e, o)
  BY <1>3 DEF Outcomes
<1> QED
  BY <1>6, <1>7 DEF Answers, IsDirectory

(* A descriptor that is none, or a file, is read as it is.                 *)
LEMMA ReadAsIs ==
  ASSUME NEW r \in AnyRequest, r.object # "absent",
         r.descriptor \in {"none", "hides", "shows"},
         NEW e, NEW s \in Responses(r, e, FALSE),
         r.form = "line", r.get, r.safe, IsDirectory(r) => r.slash
  PROVE  \E o \in MayOpen(Served(r, e), FALSE) : s \in Answers(r, e, o)
<1>1. Beside(r) = IF r.descriptor = "none" THEN "none" ELSE "there"
  BY DEF Beside, Reaches
<1>2. s \notin Fatal(r)
  BY DEF Fatal
<1>3. PICK q \in Readings(r, FALSE) : s \in Outcomes(q, e, FALSE)
  BY <1>2 DEF Responses
<1>4. PICK d \in MayOpen(Beside(r), FALSE) : q \in Governed(r, d)
  BY <1>3 DEF Readings
<1>5. q = r
  <2>1. CASE r.descriptor = "none"
    <3>1. q = By(r, "none", r.page)
      BY <1>1, <1>4, <2>1 DEF Governed
    <3> QED
      BY <2>1, <3>1 DEF By, AnyRequest
  <2>2. CASE r.descriptor # "none"
    <3>1. d = TRUE
      BY <1>1, <1>4, <2>2 DEF MayOpen
    <3> QED
      BY <1>1, <1>4, <2>2, <3>1 DEF Governed
  <2> QED
    BY <2>1, <2>2
<1> QED
  BY <1>3, <1>5 DEF Outcomes

(* The first target with a slash ends before the path's array does.        *)
Fits == Len(visit.target) + 1 < PathSize

(* A target that a redirect has led to is the first one and a slash.       *)
HopInv ==
  /\ visit \in Visits
  /\ target \in Seq(Piece) \ {<<>>} /\ hops \in Nat
  /\ Fits => target = IF hops = 0 THEN visit.target ELSE Append(visit.target, "/")
  /\ answer = 301 => Last(target) # "/"

(* What is received of a target is a target, and a short one is the same.  *)
LEMMA ReceivedIs ==
  ASSUME NEW t \in Seq(Piece), t # <<>>
  PROVE  /\ Received(t) \in Seq(Piece) \ {<<>>}
         /\ Len(t) < PathSize => Received(t) = t
<1>1. PathSize \in Nat \ {0} /\ VersionSize \in Nat /\ {"/", "HTTP", "1.1"} \subseteq Piece
  BY VisitAssumption
<1>2. Len(t) \in Nat \ {0}
  OBVIOUS
<1>3. CASE Len(t) = PathSize
  <2> DEFINE v == Version
  <2>1. v \in Seq(Piece)
    BY <1>1 DEF Version
  <2>2. Received(t) = t \o v
    BY <1>3 DEF Received
  <2> HIDE DEF v
  <2>3. t \o v \in Seq(Piece) /\ Len(t \o v) = Len(t) + Len(v) /\ Len(v) \in Nat
    BY <2>1
  <2>4. t \o v # <<>>
    BY <1>2, <2>3
  <2> QED
    BY <1>1, <1>2, <1>3, <2>2, <2>3, <2>4
<1>4. CASE Len(t) # PathSize /\ Len(t) <= PathSize + VersionSize
  BY <1>4 DEF Received
<1>5. CASE Len(t) # PathSize /\ ~(Len(t) <= PathSize + VersionSize)
  <2> DEFINE n == PathSize + VersionSize
             w == SubSeq(t, 1, n)
  <2>1. n \in 1 .. Len(t) /\ ~(Len(t) < PathSize)
    BY <1>1, <1>2, <1>5
  <2>2. Received(t) = w
    BY <1>5 DEF Received
  <2> HIDE DEF n
  <2>3. w \in Seq(Piece) /\ Len(w) = n
    BY <2>1
  <2>4. w # <<>>
    BY <2>1, <2>3
  <2> QED
    BY <2>1, <2>2, <2>3, <2>4
<1> QED
  BY <1>3, <1>4, <1>5

LEMMA KindIs == ASSUME NEW p PROVE Kind(p) \in Object
BY DEF Kind, Object

LEMMA FeaturesType ==
  ASSUME NEW t
  PROVE  Features(t) \in AnyRequest /\ Features(t).slash = (Last(t) = "/")
<1>1. \A p : Kind(p) \in Object
  BY KindIs
<1>2. Governs(FilePath(t)) \in Descriptor
  BY <1>1 DEF Governs, HasDescriptor, Object, Descriptor
<1>3. PageKind(FilePath(t)) \in Page
  BY <1>1 DEF PageKind, Object, Page
<1> QED
  BY <1>1, <1>2, <1>3 DEF Features, AnyRequest, EndsInSlash

LEMMA HopInit == Init => HopInv
<1> SUFFICES ASSUME Init PROVE HopInv
  OBVIOUS
<1>1. visit \in Visits /\ target = Received(visit.target) /\ answer = None /\ hops = 0
  BY DEF Init
<1>2. visit.target \in Seq(Piece) /\ visit.target # <<>> /\ PathSize \in Nat /\ None # 301
  BY <1>1, VisitAssumption
<1>3. Fits => Len(visit.target) < PathSize
  BY <1>2 DEF Fits
<1> QED
  BY <1>1, <1>2, <1>3, ReceivedIs DEF HopInv

LEMMA HopNext == HopInv /\ [Next]_vars => HopInv'
<1> SUFFICES ASSUME HopInv, [Next]_vars PROVE HopInv'
  OBVIOUS
<1>1. CASE Ask
  <2>1. answer' = 301 => Last(target) # "/"
    <3>1. Features(target) \in AnyRequest /\ Features(target).slash = (Last(target) = "/")
      BY FeaturesType
    <3>2. answer' \in Responses(Features(target), visit.enforce, FALSE)
      BY <1>1 DEF Ask
    <3>3. ASSUME answer' = 301 PROVE ~Features(target).slash
      <4> DEFINE r == Features(target)
                 e == visit.enforce
      <4>1. r \in AnyRequest /\ 301 \in Responses(r, e, FALSE)
        BY <3>1, <3>2, <3>3
      <4> HIDE DEF r, e
      <4>2. ~r.slash
        BY <4>1, RedirectedUnslashed
      <4> QED
        BY <4>2 DEF r
    <3> QED
      BY <3>1, <3>3
  <2> QED
    BY <1>1, <2>1 DEF Ask, HopInv, Fits
<1>2. CASE Follow
  <2> DEFINE t == Append(target, "/")
  <2>1. /\ target' = Received(t) /\ answer' = None /\ hops' = hops + 1 /\ visit' = visit
        /\ answer = 301
    BY <1>2 DEF Follow
  <2>2. t \in Seq(Piece) /\ t # <<>> /\ Last(t) = "/" /\ Len(t) = Len(target) + 1
    <3>1. "/" \in Piece
      BY VisitAssumption
    <3>2. target \in Seq(Piece)
      BY DEF HopInv
    <3> QED
      BY <3>1, <3>2, AppendFacts
  <2>3. /\ visit \in Visits /\ hops \in Nat /\ (answer = 301 => Last(target) # "/")
        /\ Fits => target = IF hops = 0 THEN visit.target ELSE Append(visit.target, "/")
    BY DEF HopInv
  <2>4. visit.target \in Seq(Piece) /\ "/" \in Piece /\ PathSize \in Nat /\ None # 301
    <3>1. visit \in Visits
      BY DEF HopInv
    <3> QED
      BY <3>1, VisitAssumption
  <2>5. Fits => t = Append(visit.target, "/") /\ Len(t) < PathSize
    <3>1. Last(Append(visit.target, "/")) = "/"
      BY <2>4, AppendFacts
    <3>2. Fits => target = visit.target
      <4>1. Last(target) # "/"
        BY <2>1, <2>3
      <4>2. target # Append(visit.target, "/")
        BY <3>1, <4>1
      <4> QED
        BY <2>3, <4>2
    <3> QED
      BY <2>2, <3>2 DEF Fits
  <2> HIDE DEF t
  <2>6. Received(t) \in Seq(Piece) \ {<<>>} /\ (Fits => Received(t) = t)
    BY <2>2, <2>5, ReceivedIs
  <2>7. (Fits' <=> Fits) /\ hops' \in Nat /\ hops' # 0
    <3>1. hops' \in Nat /\ hops' # 0
      <4>1. hops \in Nat /\ hops' = hops + 1
        BY <2>1, <2>3
      <4> QED
        BY <4>1
    <3>2. Fits' <=> Fits
      BY <2>1 DEF Fits
    <3> QED
      BY <3>1, <3>2
  <2> QED
    BY <2>1, <2>3, <2>4, <2>5, <2>6, <2>7 DEF HopInv
<1>3. CASE UNCHANGED vars
  BY <1>3 DEF vars, HopInv, Fits
<1> QED
  BY <1>1, <1>2, <1>3 DEF Next

(* A redirect leads to an answer: no target that ends before the path's    *)
(* array, with a slash added, is redirected twice, whatever the disk and   *)
(* the descriptors are.                                                    *)
THEOREM NoSecondRedirect == Spec => []OneRedirect
<1>1. HopInv => OneRedirect
  <2> SUFFICES ASSUME HopInv, Fits, answer = 301, hops # 0 PROVE FALSE
    BY DEF OneRedirect, Fits
  <2>1. visit.target \in Seq(Piece) /\ "/" \in Piece
    BY VisitAssumption DEF HopInv
  <2>2. Last(Append(visit.target, "/")) = "/"
    BY <2>1, AppendFacts
  <2> QED
    BY <2>2 DEF HopInv
<1> QED
  BY <1>1, HopInit, HopNext, PTL DEF Spec
----------------------------------------------------------------------------
(* The names a path leads through.                                         *)

LEMMA WithType ==
  ASSUME NEW S, NEW names \in Seq(Seq(S)), NEW begins, NEW x \in S
  PROVE  With(names, begins, x) \in Seq(Seq(S))
<1>1. <<x>> \in Seq(S)
  OBVIOUS
<1>2. Append(names, <<x>>) \in Seq(Seq(S))
  BY <1>1
<1>3. [names EXCEPT ![Len(names)] = Append(@, x)] \in Seq(Seq(S))
  <2>1. CASE names = <<>>
    <3>1. Len(names) \notin DOMAIN names
      BY <2>1
    <3>2. [names EXCEPT ![Len(names)] = Append(@, x)] = names
      BY <3>1
    <3> QED
      BY <3>2
  <2>2. CASE names # <<>>
    <3>1. Len(names) \in DOMAIN names /\ names[Len(names)] \in Seq(S)
      BY <2>2
    <3>2. Append(names[Len(names)], x) \in Seq(S)
      BY <3>1
    <3> QED
      BY <3>1, <3>2
  <2> QED
    BY <2>1, <2>2
<1> QED
  BY <1>2, <1>3 DEF With

Begins(p, n) == n = 1 \/ p[n - 1] = "/"

LEMMA NamesDef ==
  ASSUME NEW S, NEW p \in Seq(S)
  PROVE  \E f \in [0 .. Len(p) -> Seq(Seq(S))] :
           /\ f[0] = <<>>
           /\ \A n \in 1 .. Len(p) : f[n] = With(f[n - 1], Begins(p, n), p[n])
           /\ Names(p) = f[Len(p)]
<1> DEFINE m == Len(p)
           A == Seq(Seq(S))
           step == [n \in 1 .. m |-> [q \in A |-> With(q, Begins(p, n), p[n])]]
           Def(f) == f = [n \in 0 .. m |->
                            IF n = 0 THEN <<>>
                            ELSE With(f[n - 1], n = 1 \/ p[n - 1] = "/", p[n])]
           g == CHOOSE f : Def(f)
<1>1. m \in Nat /\ <<>> \in A
  OBVIOUS
<1>2. ASSUME NEW n \in 1 .. m, NEW q \in A PROVE With(q, Begins(p, n), p[n]) \in A
  <2>1. p[n] \in S
    OBVIOUS
  <2> QED
    BY <2>1, WithType
<1>3. Names(p) = g[m]
  BY Zenon DEF Names
<1> HIDE DEF m, A
<1>4. /\ \A n \in 1 .. m, q \in A : step[n][q] = With(q, Begins(p, n), p[n])
      /\ \A n \in 1 .. m, q \in A : step[n][q] \in A
  BY <1>2
<1> HIDE DEF step
<1>5. PICK f \in [0 .. m -> A] : f[0] = <<>> /\ \A n \in 1 .. m : f[n] = step[n][f[n - 1]]
  <2>1. PICK f : Iterates(f, m, A, <<>>, step)
    BY <1>1, <1>4, Recursion
  <2> QED
    BY <2>1 DEF Iterates
<1>6. ASSUME NEW n \in 1 .. m PROVE f[n] = With(f[n - 1], Begins(p, n), p[n])
  <2>1. n - 1 \in 0 .. m
    BY <1>1
  <2> QED
    BY <1>4, <1>5, <2>1
<1>7. Def(f)
  BY <1>1, <1>5, <1>6 DEF Begins
<1>8. Def(g)
  BY <1>7
<1> HIDE DEF g
<1>9. g[0] = <<>>
  BY <1>1, <1>8
<1>10. ASSUME NEW n \in 1 .. m PROVE g[n] = With(g[n - 1], Begins(p, n), p[n])
  <2>1. n \in 0 .. m /\ n # 0
    BY <1>1
  <2> QED
    BY <1>8, <2>1 DEF Begins
<1>11. ASSUME NEW n \in 0 .. m PROVE g[n] = f[n]
  <2>1. \A i \in 1 .. n : g[i - 1] = f[i - 1] => g[i] = f[i]
    BY <1>1, <1>6, <1>10
  <2>2. n \in Nat /\ g[0] = f[0]
    BY <1>1, <1>5, <1>9
  <2> QED
    BY <2>1, <2>2, OneRecursion
<1>12. Names(p) = f[m]
  BY <1>1, <1>3, <1>11
<1> QED
  BY <1>5, <1>6, <1>12 DEF m, A

LEMMA NamesType == ASSUME NEW S, NEW p \in Seq(S) PROVE Names(p) \in Seq(Seq(S))
<1>1. PICK f \in [0 .. Len(p) -> Seq(Seq(S))] : Names(p) = f[Len(p)]
  BY NamesDef
<1> QED
  BY <1>1

LEMMA NamesNil == Names(<<>>) = <<>>
<1>1. <<>> \in Seq({}) /\ Len(<<>>) = 0
  OBVIOUS
<1>2. PICK f \in [0 .. Len(<<>>) -> Seq(Seq({}))] : f[0] = <<>> /\ Names(<<>>) = f[Len(<<>>)]
  <2> DEFINE e == <<>>
  <2> HIDE DEF e
  <2>1. e \in Seq({})
    BY <1>1 DEF e
  <2>2. \E f \in [0 .. Len(e) -> Seq(Seq({}))] : f[0] = <<>> /\ Names(e) = f[Len(e)]
    BY <2>1, NamesDef
  <2> QED
    BY <2>2 DEF e
<1> QED
  BY <1>1, <1>2

LEMMA NamesAppend ==
  ASSUME NEW S, NEW q \in Seq(S), NEW x \in S
  PROVE  Names(Append(q, x)) = With(Names(q), EndsOpen(q), x)
<1> DEFINE p == Append(q, x)
<1>1. /\ p \in Seq(S) /\ Len(p) = Len(q) + 1 /\ Len(q) \in Nat /\ p[Len(q) + 1] = x
      /\ \A i \in 1 .. Len(q) : p[i] = q[i]
  BY AppendFacts
<1> HIDE DEF p
<1>2. PICK f \in [0 .. Len(p) -> Seq(Seq(S))] :
        /\ f[0] = <<>>
        /\ \A n \in 1 .. Len(p) : f[n] = With(f[n - 1], Begins(p, n), p[n])
        /\ Names(p) = f[Len(p)]
  BY <1>1, NamesDef
<1>3. PICK g \in [0 .. Len(q) -> Seq(Seq(S))] :
        /\ g[0] = <<>>
        /\ \A n \in 1 .. Len(q) : g[n] = With(g[n - 1], Begins(q, n), q[n])
        /\ Names(q) = g[Len(q)]
  BY NamesDef
<1>4. ASSUME NEW n \in 1 .. Len(q), f[n - 1] = g[n - 1] PROVE f[n] = g[n]
  <2>1. Begins(p, n) = Begins(q, n)
    <3>1. n # 1 => n - 1 \in 1 .. Len(q)
      BY <1>1
    <3>2. n # 1 => p[n - 1] = q[n - 1]
      BY <1>1, <3>1
    <3> QED
      BY <3>2 DEF Begins
  <2>2. n \in 1 .. Len(p) /\ p[n] = q[n]
    BY <1>1
  <2> QED
    BY <1>2, <1>3, <1>4, <2>1, <2>2
<1>5. f[Len(q)] = g[Len(q)]
  <2>1. f[0] = g[0]
    BY <1>2, <1>3
  <2> QED
    BY <1>1, <1>4, <2>1, OneRecursion
<1>6. Begins(p, Len(q) + 1) = EndsOpen(q)
  <2>1. Len(q) + 1 = 1 <=> q = <<>>
    BY <1>1
  <2>2. q # <<>> => p[(Len(q) + 1) - 1] = q[Len(q)]
    <3>1. (Len(q) + 1) - 1 = Len(q) /\ (q # <<>> => Len(q) \in 1 .. Len(q))
      BY <1>1, <2>1
    <3> QED
      BY <1>1, <3>1
  <2> QED
    BY <2>1, <2>2 DEF Begins, EndsOpen, Last
<1>7. f[Len(q) + 1] = With(f[Len(q)], EndsOpen(q), x)
  <2> DEFINE n == Len(q) + 1
  <2>1. n \in 1 .. Len(p) /\ n - 1 = Len(q) /\ p[n] = x /\ Begins(p, n) = EndsOpen(q)
    BY <1>1, <1>6
  <2> HIDE DEF n
  <2>2. f[n] = With(f[n - 1], Begins(p, n), p[n])
    BY <1>2, <2>1
  <2> QED
    BY <2>1, <2>2 DEF n
<1> QED
  BY <1>1, <1>2, <1>3, <1>5, <1>7 DEF p

(* A path that does not end in a slash ends in a name.                     *)
LEMMA NamesLast ==
  ASSUME NEW S, NEW p \in Seq(S), Names(p) = <<>> PROVE EndsOpen(p)
<1> DEFINE T == {q \in Seq(S) : Names(q) = <<>> => EndsOpen(q)}
<1>1. <<>> \in T
  BY DEF EndsOpen
<1>2. ASSUME NEW q \in Seq(S), NEW x \in S, q \in T PROVE Append(q, x) \in T
  <2> DEFINE r == Append(q, x)
  <2>1. r \in Seq(S) /\ Last(r) = x /\ Names(r) = With(Names(q), EndsOpen(q), x)
    BY AppendFacts, NamesAppend
  <2> HIDE DEF r
  <2>2. CASE x = "/"
    BY <2>1, <2>2 DEF EndsOpen, r
  <2>3. CASE x # "/"
    <3>1. Names(q) \in Seq(Seq(S))
      BY NamesType
    <3>2. CASE EndsOpen(q)
      <4>1. Names(r) = Append(Names(q), <<x>>)
        BY <2>1, <2>3, <3>2 DEF With
      <4>2. Append(Names(q), <<x>>) # <<>>
        BY <3>1, AppendFacts
      <4> QED
        BY <2>1, <4>1, <4>2 DEF r
    <3>3. CASE ~EndsOpen(q)
      <4>1. Names(q) # <<>>
        BY <1>2, <3>3
      <4>2. Names(r) = [Names(q) EXCEPT ![Len(Names(q))] = Append(@, x)]
        BY <2>1, <2>3, <3>3 DEF With
      <4>3. DOMAIN Names(r) = DOMAIN Names(q) /\ DOMAIN Names(q) # {}
        BY <3>1, <4>1, <4>2
      <4>4. Names(r) # <<>>
        BY <4>3
      <4> QED
        BY <2>1, <4>4 DEF r
    <3> QED
      BY <3>2, <3>3
  <2> QED
    BY <2>2, <2>3
<1> HIDE DEF T
<1>3. Seq(S) \subseteq T
  BY <1>1, <1>2, SeqInduction
<1> QED
  BY <1>3 DEF T

(* However many slashes stand behind one another, the names are the same.  *)
LEMMA NamesNormalised ==
  ASSUME NEW S, NEW p \in Seq(S) PROVE Names(Normalised(p)) = Names(p)
<1> DEFINE T == {q \in Seq(S) : Names(Normalised(q)) = Names(q)}
<1>1. <<>> \in T
  BY NormalisedNil
<1>2. ASSUME NEW q \in Seq(S), NEW x \in S, q \in T PROVE Append(q, x) \in T
  <2> DEFINE r == Append(q, x)
             k == Normalised(q)
  <2>1. /\ k \in Seq(S) /\ r \in Seq(S) /\ Normalised(r) = Copied(k, x)
        /\ Names(r) = With(Names(q), EndsOpen(q), x)
        /\ Names(k) = Names(q)
    BY <1>2, NormalisedType, NormalisedAppend, AppendFacts, NamesAppend
  <2>2. EndsOpen(k) = EndsOpen(q)
    BY NormalisedIs DEF CopyOf, EndsOpen
  <2> HIDE DEF r, k
  <2>3. Names(Copied(k, x)) = Names(r)
    <3>1. CASE x = "/" /\ k # <<>> /\ Last(k) = "/"
      BY <2>1, <3>1 DEF Copied, With
    <3>2. CASE ~(x = "/" /\ k # <<>> /\ Last(k) = "/")
      <4>1. Copied(k, x) = Append(k, x)
        BY <3>2 DEF Copied
      <4> QED
        BY <2>1, <2>2, <4>1, NamesAppend
    <3> QED
      BY <3>1, <3>2
  <2> QED
    BY <2>1, <2>3 DEF r
<1> HIDE DEF T
<1>3. Seq(S) \subseteq T
  BY <1>1, <1>2, SeqInduction
<1> QED
  BY <1>3 DEF T

LEMMA JoinedIs ==
  ASSUME NEW S, NEW a \in Seq(S), NEW b \in Seq(S)
  PROVE  /\ a \o b \in Seq(S) /\ Len(a \o b) = Len(a) + Len(b)
         /\ \A i \in 1 .. Len(a) : (a \o b)[i] = a[i]
         /\ \A i \in 1 .. Len(b) : (a \o b)[Len(a) + i] = b[i]
OBVIOUS

LEMMA WithJoined ==
  ASSUME NEW S, NEW a \in Seq(Seq(S)), NEW b \in Seq(Seq(S)), NEW begins, NEW x \in S,
         b = <<>> => begins \/ x = "/"
  PROVE  With(a \o b, begins, x) = a \o With(b, begins, x)
<1>1. CASE x = "/"
  BY <1>1 DEF With
<1>2. CASE x # "/" /\ begins
  <2>1. <<x>> \in Seq(S)
    OBVIOUS
  <2>2. a \o Append(b, <<x>>) = Append(a \o b, <<x>>)
    BY <2>1, AppendJoined
  <2> QED
    BY <1>2, <2>2 DEF With
<1>3. CASE x # "/" /\ ~begins
  <2> DEFINE w == a \o b
             c == [b EXCEPT ![Len(b)] = Append(@, x)]
             d == [w EXCEPT ![Len(w)] = Append(@, x)]
             e == Append(b[Len(b)], x)
             m == Len(a)
             n == Len(b)
  <2>1. m \in Nat /\ n \in Nat \ {0}
    BY <1>3
  <2>2. /\ w \in Seq(Seq(S)) /\ Len(w) = m + n
        /\ \A i \in 1 .. m : w[i] = a[i]
        /\ \A i \in 1 .. n : w[m + i] = b[i]
    OBVIOUS
  <2> HIDE DEF w
  <2>3. c \in Seq(Seq(S)) /\ d \in Seq(Seq(S))
    <3>1. With(b, FALSE, x) \in Seq(Seq(S)) /\ With(w, FALSE, x) \in Seq(Seq(S))
      BY <2>2, WithType
    <3> QED
      BY <1>3, <3>1 DEF With
  <2>4. Len(c) = n /\ c[n] = e /\ \A i \in 1 .. n - 1 : c[i] = b[i]
    BY <2>1
  <2>5. /\ Len(d) = m + n /\ d[m + n] = Append(w[m + n], x)
        /\ \A i \in 1 .. m + n - 1 : d[i] = w[i]
    BY <2>1, <2>2
  <2>6. w[m + n] = b[n]
    BY <2>1, <2>2
  <2> DEFINE v == a \o c
  <2> HIDE DEF c, d
  <2>7. /\ v \in Seq(Seq(S)) /\ Len(v) = m + n
        /\ \A i \in 1 .. m : v[i] = a[i]
        /\ \A i \in 1 .. n : v[m + i] = c[i]
    <3>1. Len(c) = n /\ c \in Seq(Seq(S)) /\ a \in Seq(Seq(S))
      BY <2>3, <2>4
    <3>2. /\ v \in Seq(Seq(S)) /\ Len(v) = Len(a) + Len(c)
          /\ \A i \in 1 .. Len(a) : v[i] = a[i]
          /\ \A i \in 1 .. Len(c) : v[Len(a) + i] = c[i]
      <4> HIDE DEF m, n
      <4>1. c \in Seq(Seq(S)) /\ a \in Seq(Seq(S))
        BY <3>1
      <4> QED
        BY <4>1, JoinedIs
    <3> HIDE DEF v
    <3> QED
      BY <3>1, <3>2
  <2> HIDE DEF v, m, n
  <2>8. ASSUME NEW i \in 1 .. m + n PROVE d[i] = v[i]
    <3>1. CASE i <= m
      <4>1. i \in 1 .. m /\ i \in 1 .. m + n - 1
        BY <2>1, <3>1
      <4> QED
        BY <2>2, <2>5, <2>7, <4>1
    <3>2. CASE i > m /\ i # m + n
      <4>1. i - m \in 1 .. n /\ i - m \in 1 .. n - 1 /\ m + (i - m) = i /\ i \in 1 .. m + n - 1
        BY <2>1, <3>2
      <4>2. d[i] = b[i - m]
        BY <2>2, <2>5, <4>1
      <4>3. v[i] = b[i - m]
        BY <2>4, <2>7, <4>1
      <4> QED
        BY <4>2, <4>3
    <3>3. CASE i = m + n
      <4>1. d[i] = e
        BY <2>5, <2>6, <3>3 DEF n
      <4>2. n \in 1 .. n
        BY <2>1
      <4>3. v[m + n] = c[n] /\ c[n] = e
        BY <2>4, <2>7, <4>2
      <4> QED
        BY <3>3, <4>1, <4>3
    <3> QED
      BY <2>1, <3>1, <3>2, <3>3
  <2>9. d = v
    <3>1. Len(d) = Len(v) /\ \A i \in 1 .. Len(d) : d[i] = v[i]
      BY <2>5, <2>7, <2>8
    <3> QED
      BY <2>3, <2>7, <3>1
  <2> QED
    BY <1>3, <2>9 DEF With, c, d, v, w
<1> QED
  BY <1>1, <1>2, <1>3

(* One path below another leads through the names of both.                 *)
LEMMA NamesJoined ==
  ASSUME NEW S, NEW r \in Seq(S), NEW s \in Seq(S), "/" \in S
  PROVE  Names(Append(r, "/") \o s) = Names(r) \o Names(s)
<1> DEFINE d == Append(r, "/")
           T == {q \in Seq(S) : Names(d \o q) = Names(r) \o Names(q)}
<1>1. d \in Seq(S) /\ d # <<>> /\ Last(d) = "/" /\ Names(d) = Names(r)
  BY AppendFacts, NamesAppend DEF With
<1> HIDE DEF d
<1>2. <<>> \in T
  <2>1. d \o <<>> = d
    BY <1>1
  <2> DEFINE e == Names(r)
  <2>2. e \in Seq(Seq(S))
    BY NamesType
  <2> HIDE DEF e
  <2>3. e \o <<>> = e
    BY <2>2
  <2>4. Names(d \o <<>>) = e
    BY <1>1, <2>1 DEF e
  <2>5. Names(r) \o Names(<<>>) = e
    BY <2>3, NamesNil DEF e
  <2>6. <<>> \in Seq(S)
    OBVIOUS
  <2> QED
    BY <2>4, <2>5, <2>6
<1>3. ASSUME NEW q \in Seq(S), NEW x \in S, q \in T PROVE Append(q, x) \in T
  <2>1. /\ d \o q \in Seq(S) /\ d \o Append(q, x) = Append(d \o q, x)
        /\ d \o q # <<>>
        /\ q # <<>> => Last(d \o q) = Last(q)
        /\ Append(q, x) \in Seq(S)
    BY <1>1, AppendJoined, AppendFacts
  <2>2. EndsOpen(d \o q) = EndsOpen(q)
    <3>1. q = <<>> => d \o q = d
      BY <1>1
    <3> QED
      BY <1>1, <2>1, <3>1 DEF EndsOpen
  <2>3. Names(Append(d \o q, x)) = With(Names(r) \o Names(q), EndsOpen(q), x)
    BY <1>3, <2>1, <2>2, NamesAppend
  <2>4. Names(q) = <<>> => EndsOpen(q)
    BY NamesLast
  <2>5. With(Names(r) \o Names(q), EndsOpen(q), x)
          = Names(r) \o With(Names(q), EndsOpen(q), x)
    <3> DEFINE a == Names(r)
               b == Names(q)
    <3>1. /\ a \in Seq(Seq(S)) /\ b \in Seq(Seq(S))
          /\ b = <<>> => EndsOpen(q)
      BY <2>4, NamesType
    <3> DEFINE open == EndsOpen(q)
    <3> HIDE DEF a, b, open
    <3>2. b = <<>> => open \/ x = "/"
      BY <3>1 DEF open
    <3>3. With(a \o b, open, x) = a \o With(b, open, x)
      BY <3>1, <3>2, WithJoined
    <3> QED
      BY <3>3 DEF a, b, open
  <2> QED
    BY <2>1, <2>3, <2>5, NamesAppend
<1> HIDE DEF T
<1>4. Seq(S) \subseteq T
  BY <1>2, <1>3, SeqInduction
<1> QED
  BY <1>4 DEF T, d

(* What a target asks for, and what is looked for below the root.          *)
Asked(t) == IF t = <<"/">> THEN <<"index.html">> ELSE Stripped(t)

LEMMA BelowIsAsked ==
  ASSUME NEW S, NEW t \in Seq(S), t # <<>>, {"/", "index.html"} \subseteq S
  PROVE  /\ Names(Stripped(Below(t))) = Names(Asked(t))
         /\ EndsOpen(Stripped(Below(t))) = EndsOpen(Asked(t))
<1>1. CASE t = <<"/">>
  <2>1. Below(t) = <<"index.html">> /\ Asked(t) = <<"index.html">>
    BY <1>1 DEF Below, Asked
  <2>2. <<"index.html">> \in Seq(S) /\ ~In(Mark, <<"index.html">>)
    BY DEF In, Mark
  <2> QED
    BY <2>1, <2>2, Unmarked
<1>2. CASE Head(t) = "/" /\ t # <<"/">>
  <2> DEFINE s == Tail(t)
  <2>1. s \in Seq(S) /\ s # <<>> /\ t = <<"/">> \o s
    <3>1. /\ s \in Seq(S) /\ Len(s) = Len(t) - 1 /\ Len(t) \in Nat \ {0} /\ t[1] = "/"
          /\ \A i \in 1 .. Len(s) : s[i] = t[i + 1]
      BY <1>2
    <3>2. Len(t) # 1
      BY <1>2, <3>1
    <3> DEFINE slash == <<"/">>
    <3>3. slash \in Seq(S) /\ Len(slash) = 1 /\ slash[1] = "/"
      OBVIOUS
    <3> HIDE DEF s, slash
    <3>4. /\ slash \o s \in Seq(S) /\ Len(slash \o s) = 1 + Len(s)
          /\ (slash \o s)[1] = "/" /\ \A i \in 1 .. Len(s) : (slash \o s)[1 + i] = s[i]
      <4> DEFINE v == slash \o s
      <4>1. s \in Seq(S) /\ slash \in Seq(S)
        BY <3>1, <3>3
      <4>2. /\ v \in Seq(S) /\ Len(v) = Len(slash) + Len(s)
            /\ \A i \in 1 .. Len(slash) : v[i] = slash[i]
            /\ \A i \in 1 .. Len(s) : v[Len(slash) + i] = s[i]
        BY <4>1, JoinedIs
      <4> HIDE DEF v
      <4> QED
        BY <3>3, <4>2 DEF v
    <3>5. ASSUME NEW i \in 1 .. Len(t) PROVE (slash \o s)[i] = t[i]
      <4>1. i # 1 => i - 1 \in 1 .. Len(s) /\ 1 + (i - 1) = i /\ (i - 1) + 1 = i
        BY <3>1
      <4> QED
        BY <3>1, <3>4, <4>1
    <3>6. t = slash \o s
      BY <3>1, <3>4, <3>5
    <3> QED
      BY <3>1, <3>2, <3>6 DEF slash
  <2> HIDE DEF s
  <2>2. Below(t) = s /\ Asked(t) = Stripped(t)
    BY <1>2, <2>1 DEF Below, Asked, s
  <2> DEFINE slash == <<"/">>
             u == Stripped(s)
  <2>3. /\ slash \in Seq(S) /\ ~In(Mark, slash) /\ slash # <<>> /\ Last(slash) = "/"
        /\ slash = Append(<<>>, "/") /\ <<>> \in Seq(S)
    BY DEF In, Mark, Last
  <2>4. u \in Seq(S)
    BY <2>1, StrippedType
  <2> HIDE DEF slash, u
  <2>5. Stripped(t) = slash \o u
    <3>1. t = slash \o s
      BY <2>1 DEF slash
    <3> QED
      BY <2>1, <2>3, <3>1, StrippedJoined DEF u
  <2>6. Names(slash \o u) = Names(u)
    <3>1. Names(slash \o u) = Names(<<>>) \o Names(u)
      BY <2>3, <2>4, NamesJoined
    <3> DEFINE b == Names(u)
    <3>2. b \in Seq(Seq(S))
      BY <2>4, NamesType
    <3> HIDE DEF b
    <3>3. <<>> \o b = b
      BY <3>2
    <3> QED
      BY <3>1, <3>3, NamesNil DEF b
  <2>7. EndsOpen(slash \o u) = EndsOpen(u)
    <3> "/" \in S
      OBVIOUS
    <3>1. /\ slash \o u # <<>>
          /\ u # <<>> => Last(slash \o u) = Last(u)
      <4>1. slash \in Seq(S) /\ slash # <<>>
        BY <2>3
      <4> QED
        BY <2>4, <4>1, AppendJoined
    <3>2. u = <<>> => slash \o u = slash
      BY <2>3
    <3> QED
      BY <2>3, <3>1, <3>2 DEF EndsOpen
  <2> QED
    BY <2>2, <2>5, <2>6, <2>7 DEF u
<1>3. CASE Head(t) # "/"
  <2>1. Below(t) = t
    BY <1>3 DEF Below
  <2>2. t # <<"/">>
    BY <1>3
  <2> QED
    BY <2>1, <2>2 DEF Asked
<1> QED
  BY <1>1, <1>2, <1>3

(* No question mark in the configuration: the file path would be cut off   *)
(* within the root.                                                        *)
RootsUnmarked ==
  /\ ~In(Mark, Home)
  /\ \A v \in Visits : ~In(Mark, v.root)

LEMMA Spelling == ASSUME RootsUnmarked, HopInv PROVE OneSpelling
<1> DEFINE root == RootPath(visit.root, Home)
           t == target
           d == Append(root, "/")
           u == Stripped(Below(t))
           p == FilePath(t)
<1>1. /\ t \in Seq(Piece) /\ t # <<>> /\ {"/", "index.html"} \subseteq Piece
      /\ Home \in Seq(Piece) /\ Home # <<>> /\ visit \in Visits
      /\ visit.root \in Seq(Piece) /\ visit.root # <<>>
      /\ ~In(Mark, Home) /\ ~In(Mark, visit.root)
  BY VisitAssumption DEF HopInv, RootsUnmarked
<1>2. root \in Seq(Piece) /\ root # <<>> /\ ~In(Mark, root)
  BY <1>1, RootPathIs
<1> HIDE DEF root, t
<1>3. Below(t) \in Seq(Piece) /\ p = Normalised(d \o u)
  BY <1>1, <1>2, BuildFilePathIs DEF FilePath, root, t
<1>4. u \in Seq(Piece)
  BY <1>3, StrippedType
<1>5. Names(u) = Names(Asked(t)) /\ EndsOpen(u) = EndsOpen(Asked(t))
  BY <1>1, BelowIsAsked
<1>6. Names(d \o u) = Names(root) \o Names(u)
  BY <1>1, <1>2, <1>4, NamesJoined
<1>7. d \in Seq(Piece) /\ d # <<>> /\ Last(d) = "/"
  BY <1>1, <1>2, AppendFacts
<1> HIDE DEF d, u, p
<1>8. /\ d \o u \in Seq(Piece) /\ d \o u # <<>>
      /\ u # <<>> => Last(d \o u) = Last(u)
      /\ u = <<>> => d \o u = d
  BY <1>4, <1>7, AppendJoined
<1>9. Names(p) = Names(d \o u) /\ CopyOf(p, d \o u)
  BY <1>3, <1>8, NamesNormalised, NormalisedIs
<1>10. \A i \in 1 .. Len(p) - 1 : <<p[i], p[i + 1]>> # <<"/", "/">>
  BY <1>9 DEF CopyOf, Single
<1>11. EndsOpen(p) = EndsOpen(u)
  BY <1>7, <1>8, <1>9 DEF CopyOf, EndsOpen
<1> QED
  BY <1>5, <1>6, <1>9, <1>10, <1>11 DEF OneSpelling, Asked, root, t, p

(* Every way to write a target leads to one spelling of its names below    *)
(* the root, for targets and roots of any length.                          *)
THEOREM OneSpellingEach == ASSUME RootsUnmarked PROVE Spec => []OneSpelling
<1>1. HopInv => OneSpelling
  BY Spelling
<1> QED
  BY <1>1, HopInit, HopNext, PTL DEF Spec

----------------------------------------------------------------------------
(* The descriptor of a directory and of a file.                            *)

Slashless(a) == \A i \in 1 .. Len(a) : a[i] # "/"

LEMMA ReplacedLast ==
  ASSUME NEW S, NEW s \in Seq(S), NEW x \in S, NEW y \in S
  PROVE  [Append(s, x) EXCEPT ![Len(s) + 1] = y] = Append(s, y)
<1> DEFINE a == Append(s, x)
           b == Append(s, y)
           c == [a EXCEPT ![Len(s) + 1] = y]
<1>1. /\ a \in Seq(S) /\ b \in Seq(S) /\ Len(a) = Len(s) + 1 /\ Len(b) = Len(s) + 1
      /\ b[Len(s) + 1] = y /\ \A i \in 1 .. Len(s) : a[i] = s[i] /\ b[i] = s[i]
      /\ Len(s) \in Nat
  BY AppendFacts
<1> HIDE DEF a, b
<1>2. /\ c \in Seq(S) /\ Len(c) = Len(s) + 1 /\ c[Len(s) + 1] = y
      /\ \A i \in 1 .. Len(s) : c[i] = a[i]
  BY <1>1
<1> HIDE DEF c
<1>3. \A i \in 1 .. Len(s) + 1 : c[i] = b[i]
  BY <1>1, <1>2
<1>4. c = b
  BY <1>1, <1>2, <1>3
<1> QED
  BY <1>4 DEF a, b, c

(* A name behind a slash is one more name.                                 *)
LEMMA NamesNamed ==
  ASSUME NEW S, NEW h \in Seq(S), NEW a \in Seq(S), EndsOpen(h), a # <<>>, Slashless(a)
  PROVE  Names(h \o a) = Append(Names(h), a)
<1> DEFINE N == Names(h)
           T == {q \in Seq(S) : Slashless(q) /\ q # <<>> => Names(h \o q) = Append(N, q)}
<1>1. <<>> \in T
  OBVIOUS
<1>2. ASSUME NEW q \in Seq(S), NEW x \in S, q \in T PROVE Append(q, x) \in T
  <2> DEFINE r == Append(q, x)
             e == h \o q
  <2>1. /\ r \in Seq(S) /\ Len(r) = Len(q) + 1 /\ Len(q) \in Nat /\ r[Len(q) + 1] = x
        /\ \A i \in 1 .. Len(q) : r[i] = q[i]
    BY AppendFacts
  <2>2. /\ e \in Seq(S) /\ h \o r = Append(e, x)
        /\ q # <<>> => Last(e) = Last(q)
        /\ e = <<>> <=> h = <<>> /\ q = <<>>
        /\ q = <<>> => e = h
    BY AppendJoined
  <2> SUFFICES ASSUME Slashless(r) PROVE Names(h \o r) = Append(N, r)
    BY <2>1
  <2>3. x # "/" /\ Slashless(q)
    <3> HIDE DEF r
    <3>1. Len(q) + 1 \in 1 .. Len(r) /\ \A i \in 1 .. Len(q) : i \in 1 .. Len(r)
      BY <2>1
    <3> QED
      BY <2>1, <3>1 DEF Slashless
  <2>4. Names(h \o r) = With(Names(e), EndsOpen(e), x)
    <3> HIDE DEF e, r
    <3> QED
      BY <2>2, NamesAppend
  <2>5. N \in Seq(Seq(S))
    BY NamesType
  <2> HIDE DEF N, e
  <2>6. CASE q = <<>>
    <3>1. e = h /\ r = <<x>>
      BY <2>2, <2>6
    <3>2. Names(h \o r) = Append(N, <<x>>)
      BY <2>3, <2>4, <3>1 DEF With, N
    <3> QED
      BY <3>1, <3>2
  <2>7. CASE q # <<>>
    <3>1. ~EndsOpen(e)
      <4>1. Last(q) # "/"
        <5>1. Len(q) \in 1 .. Len(q)
          BY <2>1, <2>7
        <5> QED
          BY <2>3, <5>1 DEF Slashless, Last
      <4> QED
        BY <2>2, <2>7, <4>1 DEF EndsOpen
    <3>2. Names(e) = Append(N, q)
      BY <1>2, <2>3, <2>7 DEF N, e
    <3> DEFINE M == Append(N, q)
    <3>3. M \in Seq(Seq(S)) /\ Len(M) = Len(N) + 1 /\ M[Len(M)] = q /\ Len(N) \in Nat
      BY <2>5, AppendFacts
    <3>4. Names(h \o r) = [M EXCEPT ![Len(M)] = Append(@, x)]
      BY <2>3, <2>4, <3>1, <3>2 DEF With
    <3>5. [M EXCEPT ![Len(M)] = Append(@, x)] = Append(N, r)
      <4>1. [M EXCEPT ![Len(M)] = Append(@, x)] = [M EXCEPT ![Len(M)] = r]
        BY <3>3
      <4> HIDE DEF r
      <4>2. [Append(N, q) EXCEPT ![Len(N) + 1] = r] = Append(N, r)
        BY <2>1, <2>5, ReplacedLast
      <4> QED
        BY <3>3, <4>1, <4>2
    <3> QED
      BY <3>4, <3>5
  <2> QED
    BY <2>6, <2>7
<1> HIDE DEF T
<1>3. Seq(S) \subseteq T
  BY <1>1, <1>2, SeqInduction
<1> QED
  BY <1>3 DEF T, N

(* A path is what leads to its last slash and what stands behind it.       *)
UpTo(p) == SubSeq(p, 1, LastSlash(p))

LEMMA AfterSlashIs ==
  ASSUME NEW S, NEW p \in Seq(S)
  PROVE  /\ UpTo(p) \in Seq(S) /\ AfterSlash(p) \in Seq(S)
         /\ p = UpTo(p) \o AfterSlash(p)
         /\ EndsOpen(UpTo(p)) /\ Slashless(AfterSlash(p))
         /\ AfterSlash(p) = <<>> <=> EndsOpen(p)
<1> DEFINE k == LastSlash(p)
           h == UpTo(p)
           a == AfterSlash(p)
<1>1. /\ k \in 0 .. Len(p) /\ (k # 0 => p[k] = "/") /\ Len(p) \in Nat
      /\ \A i \in k + 1 .. Len(p) : p[i] # "/"
  BY LastSlashIs
<1>2. h = SubSeq(p, 1, k) /\ a = SubSeq(p, k + 1, Len(p))
  BY DEF UpTo, AfterSlash
<1> HIDE DEF k, h, a
<1>3. /\ h \in Seq(S) /\ Len(h) = k /\ \A i \in 1 .. k : h[i] = p[i]
  BY <1>1, <1>2
<1>4. /\ a \in Seq(S) /\ Len(a) = Len(p) - k
      /\ \A i \in 1 .. Len(p) - k : a[i] = p[k + i]
  BY <1>1, <1>2
<1>5. EndsOpen(h)
  BY <1>1, <1>3 DEF EndsOpen, Last
<1>6. Slashless(a)
  <2> SUFFICES ASSUME NEW i \in 1 .. Len(a) PROVE a[i] # "/"
    BY DEF Slashless
  <2>1. i \in 1 .. Len(p) - k /\ k + i \in k + 1 .. Len(p)
    BY <1>1, <1>4
  <2> QED
    BY <1>1, <1>4, <2>1
<1>7. p = h \o a
  <2> DEFINE c == h \o a
  <2>1. /\ c \in Seq(S) /\ Len(c) = Len(h) + Len(a)
        /\ \A i \in 1 .. Len(h) : c[i] = h[i]
        /\ \A i \in 1 .. Len(a) : c[Len(h) + i] = a[i]
    <3>1. h \in Seq(S) /\ a \in Seq(S)
      BY <1>3, <1>4
    <3> QED
      BY <3>1, JoinedIs
  <2> HIDE DEF c
  <2>2. Len(c) = Len(p)
    BY <1>1, <1>3, <1>4, <2>1
  <2>3. ASSUME NEW i \in 1 .. Len(p) PROVE c[i] = p[i]
    <3>1. CASE i <= k
      <4>1. i \in 1 .. k
        BY <1>1, <3>1
      <4> QED
        BY <1>3, <2>1, <4>1
    <3>2. CASE i > k
      <4>1. i - k \in 1 .. Len(p) - k /\ k + (i - k) = i
        BY <1>1, <3>2
      <4>2. c[k + (i - k)] = a[i - k] /\ a[i - k] = p[k + (i - k)]
        BY <1>3, <1>4, <2>1, <4>1
      <4> QED
        BY <4>1, <4>2
    <3> QED
      BY <1>1, <3>1, <3>2
  <2>4. p = c
    BY <2>1, <2>2, <2>3
  <2> QED
    BY <2>4 DEF c
<1>8. a = <<>> <=> EndsOpen(p)
  <2>1. a = <<>> <=> Len(p) = k
    BY <1>1, <1>4
  <2>2. CASE Len(p) = k
    BY <1>1, <2>1, <2>2 DEF EndsOpen, Last
  <2>3. CASE Len(p) # k
    <3>1. Len(p) \in k + 1 .. Len(p)
      BY <1>1, <2>3
    <3>2. p # <<>> /\ Last(p) # "/"
      BY <1>1, <3>1 DEF Last
    <3> QED
      BY <2>1, <2>3, <3>2 DEF EndsOpen
  <2> QED
    BY <2>2, <2>3
<1> QED
  BY <1>3, <1>4, <1>5, <1>6, <1>7, <1>8 DEF h, a

(* The last name of a path is what stands behind its last slash.           *)
LastName(p) == IF Names(p) = <<>> THEN <<>> ELSE Last(Names(p))

LEMMA LastNameIs ==
  ASSUME NEW S, NEW p \in Seq(S), p # <<>>, Last(p) # "/"
  PROVE  /\ Names(p) = Append(Names(UpTo(p)), AfterSlash(p))
         /\ Names(p) # <<>> /\ Last(Names(p)) = AfterSlash(p)
<1>1. Names(p) = Append(Names(UpTo(p)), AfterSlash(p))
  <2> DEFINE h == UpTo(p)
             a == AfterSlash(p)
  <2>1. h \in Seq(S) /\ a \in Seq(S) /\ p = h \o a /\ EndsOpen(h) /\ Slashless(a) /\ a # <<>>
    <3>1. ~EndsOpen(p)
      BY DEF EndsOpen
    <3> QED
      BY <3>1, AfterSlashIs
  <2> HIDE DEF h, a
  <2>2. Names(h \o a) = Append(Names(h), a)
    BY <2>1, NamesNamed
  <2> QED
    BY <2>1, <2>2 DEF h, a
<1>2. Names(UpTo(p)) \in Seq(Seq(S))
  BY AfterSlashIs, NamesType
<1> QED
  BY <1>1, <1>2, AppendFacts

(* What stands behind a slash, in a directory of that name: its name       *)
(* again, and the ending.                                                  *)
LEMMA DescriptorBehind ==
  ASSUME NEW S, NEW g \in Seq(S), EndsOpen(g) => g = <<>>, {"/", ".cfg"} \subseteq S
  PROVE  /\ Append(g, "/") \in Seq(S) /\ Names(Append(g, "/")) = Names(g)
         /\ LastName(g) = AfterSlash(g)
         /\ Names((Append(g, "/") \o AfterSlash(g)) \o <<".cfg">>)
              = Append(Names(g), Append(LastName(g), ".cfg"))
<1> DEFINE h == Append(g, "/")
           a == AfterSlash(g)
           b == Append(a, ".cfg")
<1>1. h \in Seq(S) /\ h # <<>> /\ Last(h) = "/" /\ Names(h) = Names(g)
  BY AppendFacts, NamesAppend DEF With
<1>2. LastName(g) = a
  <2>1. CASE g = <<>>
    BY <2>1, AfterSlashIs, NamesNil DEF LastName, EndsOpen
  <2>2. CASE g # <<>>
    <3>1. Last(g) # "/"
      BY <2>2 DEF EndsOpen
    <3> QED
      BY <2>2, <3>1, LastNameIs DEF LastName
  <2> QED
    BY <2>1, <2>2
<1>3. a \in Seq(S) /\ Slashless(a)
  BY AfterSlashIs
<1> HIDE DEF h, a
<1>4. b \in Seq(S) /\ b # <<>> /\ Slashless(b)
  <2>1. /\ b \in Seq(S) /\ b # <<>> /\ Len(b) = Len(a) + 1 /\ b[Len(a) + 1] = ".cfg"
        /\ \A i \in 1 .. Len(a) : b[i] = a[i]
        /\ Len(a) \in Nat
    BY <1>3, AppendFacts
  <2> HIDE DEF b
  <2>2. ASSUME NEW i \in 1 .. Len(b) PROVE b[i] # "/"
    <3>1. i \in 1 .. Len(a) \/ i = Len(a) + 1
      BY <2>1
    <3> QED
      BY <1>3, <2>1, <3>1 DEF Slashless
  <2> QED
    BY <2>1, <2>2 DEF Slashless
<1>5. (h \o a) \o <<".cfg">> = h \o b
  <2>1. h \o b = Append(h \o a, ".cfg") /\ h \o a \in Seq(S)
    BY <1>1, <1>3, AppendJoined
  <2> DEFINE c == h \o a
  <2> HIDE DEF c
  <2>2. c \in Seq(S) /\ h \o b = Append(c, ".cfg")
    BY <2>1 DEF c
  <2>3. c \o <<".cfg">> = Append(c, ".cfg")
    BY <2>2
  <2> QED
    BY <2>2, <2>3 DEF c
<1> HIDE DEF b
<1>6. Names(h \o b) = Append(Names(h), b)
  <2>1. EndsOpen(h)
    BY <1>1 DEF EndsOpen
  <2> QED
    BY <1>1, <1>4, <2>1, NamesNamed
<1> QED
  BY <1>1, <1>2, <1>5, <1>6 DEF h, a, b

LEMMA LastSlashAtEnd ==
  ASSUME NEW S, NEW p \in Seq(S), p # <<>>, Last(p) = "/" PROVE LastSlash(p) = Len(p)
<1> DEFINE k == LastSlash(p)
<1>1. k \in 0 .. Len(p) /\ \A i \in k + 1 .. Len(p) : p[i] # "/"
  BY LastSlashIs
<1> HIDE DEF k
<1>2. k # Len(p) => Len(p) \in k + 1 .. Len(p)
  BY <1>1
<1>3. k = Len(p)
  BY <1>1, <1>2 DEF Last
<1> QED
  BY <1>3 DEF k

(* No two slashes: what stands before one does not end in one.             *)
LEMMA BeforeSlash ==
  ASSUME NEW S, NEW p \in Seq(S), Single(p), NEW k \in 1 .. Len(p), p[k] = "/"
  PROVE  /\ SubSeq(p, 1, k - 1) \in Seq(S)
         /\ EndsOpen(SubSeq(p, 1, k - 1)) => SubSeq(p, 1, k - 1) = <<>>
         /\ SubSeq(p, 1, k) = Append(SubSeq(p, 1, k - 1), "/")
<1> DEFINE g == SubSeq(p, 1, k - 1)
<1>1. /\ g \in Seq(S) /\ Len(g) = k - 1 /\ \A i \in 1 .. k - 1 : g[i] = p[i]
      /\ k - 1 \in Nat
  OBVIOUS
<1>2. SubSeq(p, 1, k) = Append(g, "/")
  OBVIOUS
<1> HIDE DEF g
<1>3. g # <<>> => Last(g) # "/"
  <2> SUFFICES ASSUME g # <<>> PROVE Last(g) # "/"
    OBVIOUS
  <2>1. k - 1 \in 1 .. k - 1 /\ k - 1 \in 1 .. Len(p) - 1 /\ (k - 1) + 1 = k
    BY <1>1
  <2> QED
    BY <1>1, <2>1 DEF Last, Single
<1> QED
  BY <1>1, <1>2, <1>3 DEF g, EndsOpen

LEMMA DirectoryDescriptor ==
  ASSUME NEW S, NEW p \in Seq(S), p # <<>>, Single(p), Last(p) = "/",
         {"/", ".cfg"} \subseteq S
  PROVE  Names(DescriptorPath(p, TRUE)) = Append(Names(p), Append(LastName(p), ".cfg"))
<1> DEFINE n == Len(p)
           g == SubSeq(p, 1, n - 1)
<1>1. n \in 1 .. Len(p) /\ p[n] = "/" /\ SubSeq(p, 1, n) = p
  BY DEF Last
<1>2. g \in Seq(S) /\ (EndsOpen(g) => g = <<>>) /\ p = Append(g, "/")
  BY <1>1, BeforeSlash
<1>3. LastSlash(p) = n
  BY LastSlashAtEnd
<1>4. ParentDirectory(p) = p /\ AfterSlash(Trimmed(p)) = AfterSlash(g)
  <2>1. CASE n = 1
    <3>1. Trimmed(p) = p
      BY <2>1, TrimmedSingle
    <3>2. g = <<>>
      BY <2>1
    <3>3. AfterSlash(p) = <<>> /\ AfterSlash(g) = <<>>
      BY <1>2, <3>2, AfterSlashIs DEF EndsOpen
    <3> QED
      BY <1>1, <1>3, <2>1, <3>1, <3>3 DEF ParentDirectory
  <2>2. CASE n # 1
    <3>1. Trimmed(p) = g
      BY <2>2, TrimmedSingle
    <3>2. g # p
      <4> HIDE DEF g
      <4>1. Len(Append(g, "/")) = Len(g) + 1 /\ Len(g) \in Nat
        BY <1>2, AppendFacts
      <4> QED
        BY <1>2, <4>1
    <3> HIDE DEF n, g
    <3> QED
      BY <1>1, <1>2, <1>3, <3>1, <3>2 DEF ParentDirectory
  <2> QED
    BY <2>1, <2>2
<1>5. DescriptorPath(p, TRUE) = (p \o AfterSlash(g)) \o <<".cfg">>
  BY <1>4 DEF DescriptorPath, DirectoryName
<1> HIDE DEF n, g
<1>6. /\ Names(p) = Names(g)
      /\ Names((p \o AfterSlash(g)) \o <<".cfg">>) = Append(Names(g), Append(LastName(g), ".cfg"))
  BY <1>2, DescriptorBehind
<1>7. LastName(p) = LastName(g)
  BY <1>6 DEF LastName
<1> QED
  BY <1>5, <1>6, <1>7

LEMMA FileDescriptor ==
  ASSUME NEW S, NEW p \in Seq(S), p # <<>>, Single(p), p[1] = "/", Last(p) # "/",
         {"/", ".cfg"} \subseteq S,
         NEW at, at = Front(Names(p))
  PROVE  Names(DescriptorPath(p, FALSE))
           = Append(at, Append(IF at = <<>> THEN <<>> ELSE Last(at), ".cfg"))
<1> DEFINE k == LastSlash(p)
           g == SubSeq(p, 1, k - 1)
           h == SubSeq(p, 1, k)
<1>1. k \in 1 .. Len(p) /\ p[k] = "/"
  <2>1. k \in 0 .. Len(p) /\ (k # 0 => p[k] = "/") /\ \A i \in k + 1 .. Len(p) : p[i] # "/"
    BY LastSlashIs
  <2>2. Len(p) \in Nat \ {0}
    OBVIOUS
  <2> HIDE DEF k
  <2>3. k = 0 => 1 \in k + 1 .. Len(p)
    BY <2>2
  <2> QED
    BY <2>1, <2>3
<1>2. g \in Seq(S) /\ (EndsOpen(g) => g = <<>>) /\ h = Append(g, "/")
  BY <1>1, BeforeSlash
<1>3. Trimmed(p) = p
  BY TrimmedSingle
<1>4. ParentDirectory(p) = h /\ DirectoryName(p, FALSE) = AfterSlash(g)
  BY <1>1, <1>3 DEF ParentDirectory, DirectoryName
<1>5. DescriptorPath(p, FALSE) = (h \o AfterSlash(g)) \o <<".cfg">>
  BY <1>4 DEF DescriptorPath
<1>6. Names(p) = Append(Names(h), AfterSlash(p))
  BY LastNameIs DEF UpTo
<1> HIDE DEF k, g, h
<1>7. /\ Names(h) = Names(g)
      /\ Names((h \o AfterSlash(g)) \o <<".cfg">>) = Append(Names(g), Append(LastName(g), ".cfg"))
  BY <1>2, DescriptorBehind
<1>8. at = Names(g)
  <2> DEFINE N == Names(g)
             a == AfterSlash(p)
  <2>1. N \in Seq(Seq(S)) /\ a \in Seq(S)
    BY <1>2, NamesType, AfterSlashIs
  <2> HIDE DEF N, a
  <2>2. SubSeq(Append(N, a), 1, Len(Append(N, a)) - 1) = N
    BY <2>1
  <2> QED
    BY <1>6, <1>7, <2>2 DEF Front, N, a
<1> QED
  BY <1>5, <1>7, <1>8 DEF LastName

----------------------------------------------------------------------------
(* The descriptor a request is answered by.                                *)

LEMMA FilePathIs ==
  ASSUME RootsUnmarked, HopInv
  PROVE  LET p == FilePath(target)
         IN  /\ p \in Seq(Piece) /\ p # <<>> /\ Single(p)
             /\ EndsOpen(p) = EndsOpen(Asked(target))
             /\ target = <<"/">> =>
                  \E q \in Seq(Piece) : q # <<>> /\ Last(q) = "/" /\ p = Append(q, "index.html")
<1> DEFINE root == RootPath(visit.root, Home)
           t == target
           d == Append(root, "/")
           u == Stripped(Below(t))
           p == FilePath(t)
<1>1. /\ t \in Seq(Piece) /\ t # <<>> /\ {"/", "index.html"} \subseteq Piece
      /\ Home \in Seq(Piece) /\ Home # <<>> /\ visit \in Visits
      /\ visit.root \in Seq(Piece) /\ visit.root # <<>>
      /\ ~In(Mark, Home) /\ ~In(Mark, visit.root)
  BY VisitAssumption DEF HopInv, RootsUnmarked
<1>2. root \in Seq(Piece) /\ root # <<>> /\ ~In(Mark, root)
  BY <1>1, RootPathIs
<1>3. t = <<"/">> => Below(t) = <<"index.html">>
  BY DEF Below
<1> HIDE DEF root, t
<1>4. Below(t) \in Seq(Piece) /\ p = Normalised(d \o u)
  BY <1>1, <1>2, BuildFilePathIs DEF FilePath, root, t
<1>5. u \in Seq(Piece) /\ EndsOpen(u) = EndsOpen(Asked(t))
  BY <1>1, <1>4, StrippedType, BelowIsAsked
<1>6. d \in Seq(Piece) /\ d # <<>> /\ Last(d) = "/"
  BY <1>1, <1>2, AppendFacts
<1>7. t = <<"/">> => u = <<"index.html">>
  <2>1. <<"index.html">> \in Seq(Piece) /\ ~In(Mark, <<"index.html">>)
    BY <1>1 DEF In, Mark
  <2> QED
    BY <1>3, <2>1, Unmarked
<1> HIDE DEF d, u, p
<1>8. /\ d \o u \in Seq(Piece) /\ d \o u # <<>>
      /\ u # <<>> => Last(d \o u) = Last(u)
      /\ u = <<>> => d \o u = d
  BY <1>5, <1>6, AppendJoined
<1>9. CopyOf(p, d \o u) /\ p \in Seq(Piece)
  BY <1>4, <1>8, NormalisedIs, NormalisedType
<1>10. p # <<>> /\ Single(p) /\ EndsOpen(p) = EndsOpen(u)
  BY <1>6, <1>8, <1>9 DEF CopyOf, EndsOpen
<1>11. ASSUME t = <<"/">>
       PROVE  \E q \in Seq(Piece) : q # <<>> /\ Last(q) = "/" /\ p = Append(q, "index.html")
  <2> DEFINE q == Normalised(d)
  <2>1. q \in Seq(Piece) /\ q # <<>> /\ Last(q) = "/"
    <3>1. CopyOf(q, d) /\ q \in Seq(Piece)
      BY <1>6, NormalisedIs, NormalisedType
    <3> QED
      BY <1>6, <3>1 DEF CopyOf
  <2>2. d \o <<"index.html">> = Append(d, "index.html")
    BY <1>6
  <2>3. p = Copied(q, "index.html")
    <3>1. p = Normalised(Append(d, "index.html"))
      BY <1>4, <1>7, <1>11, <2>2
    <3> QED
      BY <1>1, <1>6, <3>1, NormalisedAppend
  <2> HIDE DEF q
  <2> QED
    BY <2>1, <2>3 DEF Copied
<1> QED
  BY <1>5, <1>9, <1>10, <1>11 DEF p, t

(* No directory is called index.html: the bare slash would lead to it and  *)
(* would not be redirected, and its descriptor is looked for beside it.    *)
PagesAreFiles ==
  \A v \in Visits : \A f \in DOMAIN v.disk : \A i \in 2 .. Len(f) - 1 :
    ~(f[i - 1] = "/" /\ f[i] = "index.html" /\ f[i + 1] = "/")

(* The answers a request can get, as a function.                           *)
Possible == [r \in AnyRequest |-> [e \in BOOLEAN |-> Responses(r, e, FALSE)]]

(* An answer is one that the target has now: nothing changes after it.     *)
AnswerInv == answer = None \/ answer \in Possible[Features(target)][visit.enforce]

LEMMA PossibleIs ==
  ASSUME HopInv
  PROVE  /\ Features(target) \in AnyRequest
         /\ Possible[Features(target)][visit.enforce]
              = Responses(Features(target), visit.enforce, FALSE)
<1> DEFINE r == Features(target)
           e == visit.enforce
<1>1. r \in AnyRequest
  BY FeaturesType
<1>2. e \in BOOLEAN
  <2>1. visit \in Visits
    BY DEF HopInv
  <2> QED
    BY <2>1, VisitAssumption
<1> HIDE DEF r, e
<1>3. Possible[r][e] = Responses(r, e, FALSE)
  BY <1>1, <1>2 DEF Possible
<1> QED
  BY <1>1, <1>3 DEF r, e

LEMMA AnswerInit == Init => AnswerInv
BY DEF Init, AnswerInv

LEMMA AnswerNext == HopInv /\ AnswerInv /\ [Next]_vars => AnswerInv'
<1> SUFFICES ASSUME HopInv, AnswerInv, [Next]_vars PROVE AnswerInv'
  OBVIOUS
<1>1. visit' = visit /\ target' = target => Features(target)' = Features(target)
  BY DEF Features, FilePath, Kind, Files, Directories, Governs, HasDescriptor, DescriptorFile,
         DescriptorText, PageKind, PagePath, EndsInSlash
<1>2. AnswerInv' <=> answer' = None \/ answer' \in Possible[Features(target)'][visit'.enforce]
  BY DEF AnswerInv
<1>3. CASE Ask
  <2>1. /\ answer' \in Responses(Features(target), visit.enforce, FALSE)
        /\ visit' = visit /\ target' = target
    BY <1>3 DEF Ask
  <2>2. answer' \in Possible[Features(target)][visit.enforce]
    BY <2>1, PossibleIs
  <2> QED
    BY <1>1, <1>2, <2>1, <2>2
<1>4. CASE Follow
  <2>1. answer' = None
    BY <1>4 DEF Follow
  <2> QED
    BY <1>2, <2>1
<1>5. CASE UNCHANGED vars
  <2>1. answer' = answer /\ visit' = visit /\ target' = target
    BY <1>5 DEF vars
  <2> QED
    BY <1>1, <1>2, <2>1 DEF AnswerInv
<1> QED
  BY <1>3, <1>4, <1>5 DEF Next

(* A directory that is answered, not redirected, is asked for with a slash *)
(* at the end of the target.                                               *)
LEMMA AnsweredWithSlash ==
  ASSUME HopInv, AnswerInv, answer \notin {None, 301}, Features(target).safe,
         Kind(FilePath(target)) = "directory"
  PROVE  Last(target) = "/"
<1> DEFINE r == Features(target)
<1>1. /\ r.form = "line" /\ r.get = TRUE /\ r.safe /\ r.object = "directory"
      /\ r.slash = (Last(target) = "/")
  BY DEF Features, EndsInSlash
<1>2. answer \in Responses(r, visit.enforce, FALSE) /\ r \in AnyRequest
  BY PossibleIs DEF AnswerInv
<1> HIDE DEF r
<1>3. ~r.slash => answer = 301
  BY <1>1, <1>2, UnslashedRedirected
<1> QED
  BY <1>1, <1>3

(* A directory that answers is written with a slash at its end.            *)
LEMMA DirectoryEndsOpen ==
  ASSUME RootsUnmarked, PagesAreFiles, HopInv, Plain, Last(target) = "/",
         Kind(FilePath(target)) = "directory"
  PROVE  Last(FilePath(target)) = "/"
<1> DEFINE p == FilePath(target)
<1>1. /\ p \in Seq(Piece) /\ p # <<>> /\ Single(p)
      /\ EndsOpen(p) = EndsOpen(Asked(target))
      /\ target = <<"/">> =>
           \E q \in Seq(Piece) : q # <<>> /\ Last(q) = "/" /\ p = Append(q, "index.html")
  BY FilePathIs
<1>2. visit \in Visits /\ target \in Seq(Piece) /\ target # <<>>
  BY DEF HopInv
<1>3. CASE target # <<"/">>
  <2>1. ~In(Mark, target)
    BY DEF Plain, ToSet, In, Mark
  <2>2. Asked(target) = target
    BY <1>2, <1>3, <2>1, Unmarked DEF Asked
  <2> HIDE DEF p
  <2>3. EndsOpen(p)
    BY <1>1, <2>2 DEF EndsOpen
  <2> QED
    BY <1>1, <2>3 DEF EndsOpen, p
<1>4. CASE target = <<"/">>
  <2>1. Normalised(p) = p
    BY <1>1, NormalisedSingle
  <2>2. Trimmed(p) \in Directories
    BY <2>1 DEF Kind
  <2> HIDE DEF p
  <2>3. PICK q \in Seq(Piece) : q # <<>> /\ Last(q) = "/" /\ p = Append(q, "index.html")
    BY <1>1, <1>4
  <2> DEFINE n == Len(q)
  <2>4. /\ n \in Nat \ {0} /\ Len(p) = n + 1 /\ p[n + 1] = "index.html" /\ p[n] = "/"
        /\ Last(p) = "index.html"
    <3>1. Len(p) = n + 1 /\ p[n + 1] = "index.html" /\ Last(p) = "index.html"
      BY <2>3, AppendFacts
    <3>2. n \in Nat \ {0} /\ n \in 1 .. Len(q) /\ q[n] = "/"
      BY <2>3 DEF Last
    <3>3. p[n] = q[n]
      BY <2>3, <3>2, AppendFacts
    <3> QED
      BY <3>1, <3>2, <3>3
  <2> HIDE DEF n
  <2>5. Trimmed(p) = p
    BY <1>1, <2>4, TrimmedSingle
  <2>6. p # <<"/">>
    <3> DEFINE slash == <<"/">>
    <3>1. Last(slash) = "/"
      BY DEF Last
    <3> HIDE DEF slash
    <3>2. p # slash
      BY <2>4, <3>1
    <3> QED
      BY <3>2 DEF slash
  <2>7. PICK f \in Files : p \in {SubSeq(f, 1, i - 1) : i \in {j \in 2 .. Len(f) : f[j] = "/"}}
    BY <2>2, <2>5, <2>6, Zenon DEF Directories
  <2>8. PICK i \in {j \in 2 .. Len(f) : f[j] = "/"} : p = SubSeq(f, 1, i - 1)
    BY <2>7, Zenon
  <2>9. f \in Seq(Piece) /\ f \in DOMAIN visit.disk /\ i \in 2 .. Len(f) /\ f[i] = "/"
    BY <1>2, <2>7, <2>8, VisitAssumption DEF Files
  <2>10. Len(p) = i - 1 /\ \A j \in 1 .. i - 1 : p[j] = f[j]
    BY <2>8, <2>9
  <2>11. n + 1 = i - 1 /\ n + 1 \in 2 .. Len(f) - 1 /\ n \in 1 .. i - 1 /\ n + 1 \in 1 .. i - 1
         /\ (n + 1) - 1 = n /\ (n + 1) + 1 = i
    BY <2>4, <2>9, <2>10
  <2>12. f[(n + 1) - 1] = "/" /\ f[n + 1] = "index.html" /\ f[(n + 1) + 1] = "/"
    BY <2>4, <2>9, <2>10, <2>11
  <2> QED
    BY <1>2, <2>9, <2>11, <2>12 DEF PagesAreFiles
<1> QED
  BY <1>3, <1>4

LEMMA Governing ==
  ASSUME RootsUnmarked, PagesAreFiles, HopInv, AnswerInv PROVE OwnDirectory
<1> DEFINE p == FilePath(target)
           at == IF Kind(p) = "directory" THEN Names(p) ELSE Front(Names(p))
           name == IF at = <<>> THEN <<>> ELSE Last(at)
<1> SUFFICES ASSUME Plain, Kind(p) # "absent", answer \notin {None, 301}
             PROVE  Names(DescriptorFile(p)) = Append(at, Append(name, ".cfg"))
  BY DEF OwnDirectory
<1>1. p \in Seq(Piece) /\ p # <<>> /\ Single(p) /\ {"/", ".cfg"} \subseteq Piece
  BY FilePathIs, VisitAssumption
<1>2. CASE Kind(p) = "directory"
  <2>1. Last(p) = "/"
    BY <1>2, AnsweredWithSlash, DirectoryEndsOpen DEF Plain
  <2>2. at = Names(p) /\ name = LastName(p) /\ DescriptorFile(p) = DescriptorPath(p, TRUE)
    BY <1>2 DEF LastName, DescriptorFile
  <2> HIDE DEF p, at, name
  <2> QED
    BY <1>1, <2>1, <2>2, DirectoryDescriptor
<1>3. CASE Kind(p) # "directory"
  <2>1. p \in Files
    <3>1. Normalised(p) = p
      BY <1>1, NormalisedSingle
    <3> QED
      BY <1>3, <3>1 DEF Kind
  <2>2. p[1] = "/" /\ Last(p) # "/"
    BY <2>1, VisitAssumption DEF Files, HopInv
  <2>3. at = Front(Names(p)) /\ DescriptorFile(p) = DescriptorPath(p, FALSE)
    BY <1>3 DEF DescriptorFile
  <2> HIDE DEF p, at
  <2> QED
    BY <1>1, <2>2, <2>3, FileDescriptor
<1> QED
  BY <1>2, <1>3

(* A request for a directory is governed by the descriptor inside it, one  *)
(* for a file by the descriptor beside it, however deep the directory is   *)
(* and however the root and the target are spelt.                          *)
THEOREM OwnDirectoryEach == ASSUME RootsUnmarked, PagesAreFiles PROVE Spec => []OwnDirectory
<1>1. HopInv /\ AnswerInv => OwnDirectory
  BY Governing
<1> QED
  BY <1>1, HopInit, HopNext, AnswerInit, AnswerNext, PTL DEF Spec

----------------------------------------------------------------------------
(* The lines of a text.                                                    *)

LEMMA IntoType ==
  ASSUME NEW S, NEW ls \in Seq(Seq(S)), NEW x \in S PROVE Into(ls, x) \in Seq(Seq(S))
<1>1. [ls EXCEPT ![Len(ls)] = Append(@, x)] \in Seq(Seq(S))
  <2>1. CASE ls = <<>>
    <3>1. Len(ls) \notin DOMAIN ls
      BY <2>1
    <3>2. [ls EXCEPT ![Len(ls)] = Append(@, x)] = ls
      BY <3>1
    <3> QED
      BY <3>2
  <2>2. CASE ls # <<>>
    <3>1. Len(ls) \in DOMAIN ls /\ ls[Len(ls)] \in Seq(S)
      BY <2>2
    <3>2. Append(ls[Len(ls)], x) \in Seq(S)
      BY <3>1
    <3> QED
      BY <3>1, <3>2
  <2> QED
    BY <2>1, <2>2
<1>2. Append(ls, <<>>) \in Seq(Seq(S))
  <2>1. <<>> \in Seq(S)
    OBVIOUS
  <2> QED
    BY <2>1
<1> QED
  BY <1>1, <1>2 DEF Into

LEMMA LinesDef ==
  ASSUME NEW S, NEW p \in Seq(S)
  PROVE  \E f \in [0 .. Len(p) -> Seq(Seq(S))] :
           /\ f[0] = << <<>> >> /\ \A n \in 1 .. Len(p) : f[n] = Into(f[n - 1], p[n])
           /\ Lines(p) = f[Len(p)]
<1> DEFINE m == Len(p)
           A == Seq(Seq(S))
           step == [n \in 1 .. m |-> [q \in A |-> Into(q, p[n])]]
           Def(f) == f = [n \in 0 .. m |-> IF n = 0 THEN << <<>> >> ELSE Into(f[n - 1], p[n])]
           g == CHOOSE f : Def(f)
<1>1. m \in Nat /\ << <<>> >> \in A
  OBVIOUS
<1>2. ASSUME NEW n \in 1 .. m, NEW q \in A PROVE Into(q, p[n]) \in A
  <2>1. p[n] \in S
    OBVIOUS
  <2> QED
    BY <2>1, IntoType
<1>3. Lines(p) = g[m]
  BY Zenon DEF Lines
<1> HIDE DEF m, A
<1>4. /\ \A n \in 1 .. m, q \in A : step[n][q] = Into(q, p[n])
      /\ \A n \in 1 .. m, q \in A : step[n][q] \in A
  BY <1>2
<1> HIDE DEF step
<1>5. PICK f \in [0 .. m -> A] : f[0] = << <<>> >> /\ \A n \in 1 .. m : f[n] = step[n][f[n - 1]]
  <2>1. PICK f : Iterates(f, m, A, << <<>> >>, step)
    BY <1>1, <1>4, Recursion
  <2> QED
    BY <2>1 DEF Iterates
<1>6. ASSUME NEW n \in 1 .. m PROVE f[n] = Into(f[n - 1], p[n])
  <2>1. n - 1 \in 0 .. m
    BY <1>1
  <2> QED
    BY <1>4, <1>5, <2>1
<1>7. Def(f)
  BY <1>1, <1>5, <1>6
<1>8. Def(g)
  BY <1>7
<1> HIDE DEF g
<1>9. g[0] = << <<>> >>
  BY <1>1, <1>8
<1>10. ASSUME NEW n \in 1 .. m PROVE g[n] = Into(g[n - 1], p[n])
  <2>1. n \in 0 .. m /\ n # 0
    BY <1>1
  <2> QED
    BY <1>8, <2>1
<1>11. ASSUME NEW n \in 0 .. m PROVE g[n] = f[n]
  <2>1. ASSUME NEW i \in 1 .. n, g[i - 1] = f[i - 1] PROVE g[i] = f[i]
    <3>1. i \in 1 .. m
      BY <1>1
    <3> QED
      BY <1>6, <1>10, <2>1, <3>1
  <2>2. n \in Nat /\ g[0] = f[0]
    BY <1>1, <1>5, <1>9
  <2> QED
    BY <2>1, <2>2, OneRecursion
<1>12. Lines(p) = f[m]
  BY <1>1, <1>3, <1>11
<1> QED
  BY <1>5, <1>6, <1>12 DEF m, A

LEMMA LinesType == ASSUME NEW S, NEW p \in Seq(S) PROVE Lines(p) \in Seq(Seq(S))
<1>1. PICK f \in [0 .. Len(p) -> Seq(Seq(S))] : Lines(p) = f[Len(p)]
  BY LinesDef
<1> QED
  BY <1>1

LEMMA LinesNil == Lines(<<>>) = << <<>> >>
<1>1. <<>> \in Seq({}) /\ Len(<<>>) = 0
  OBVIOUS
<1> DEFINE e == <<>>
<1> HIDE DEF e
<1>2. PICK f \in [0 .. Len(e) -> Seq(Seq({}))] : f[0] = << <<>> >> /\ Lines(e) = f[Len(e)]
  <2>1. e \in Seq({})
    BY <1>1 DEF e
  <2>2. \E f \in [0 .. Len(e) -> Seq(Seq({}))] : f[0] = << <<>> >> /\ Lines(e) = f[Len(e)]
    BY <2>1, LinesDef
  <2> QED
    BY <2>2
<1> QED
  BY <1>1, <1>2 DEF e

LEMMA LinesAppend ==
  ASSUME NEW S, NEW q \in Seq(S), NEW x \in S
  PROVE  Lines(Append(q, x)) = Into(Lines(q), x)
<1> DEFINE p == Append(q, x)
<1>1. /\ p \in Seq(S) /\ Len(p) = Len(q) + 1 /\ Len(q) \in Nat /\ p[Len(q) + 1] = x
      /\ \A i \in 1 .. Len(q) : p[i] = q[i]
  BY AppendFacts
<1> HIDE DEF p
<1>2. PICK f \in [0 .. Len(p) -> Seq(Seq(S))] :
        /\ f[0] = << <<>> >> /\ \A n \in 1 .. Len(p) : f[n] = Into(f[n - 1], p[n])
        /\ Lines(p) = f[Len(p)]
  BY <1>1, LinesDef
<1>3. PICK g \in [0 .. Len(q) -> Seq(Seq(S))] :
        /\ g[0] = << <<>> >> /\ \A n \in 1 .. Len(q) : g[n] = Into(g[n - 1], q[n])
        /\ Lines(q) = g[Len(q)]
  BY LinesDef
<1>4. \A i \in 1 .. Len(q) : f[i - 1] = g[i - 1] => f[i] = g[i]
  BY <1>1, <1>2, <1>3
<1>5. f[Len(q)] = g[Len(q)]
  <2>1. f[0] = g[0]
    BY <1>2, <1>3
  <2> QED
    BY <1>1, <1>4, <2>1, OneRecursion
<1>6. f[Len(q) + 1] = Into(f[Len(q)], x)
  BY <1>1, <1>2
<1> QED
  BY <1>1, <1>2, <1>3, <1>5, <1>6 DEF p


(* The line l of a text begins at its place i.                             *)
Within(l, i, text) ==
  /\ i + Len(l) <= Len(text) + 1
  /\ \A j \in 1 .. Len(l) : text[i + j - 1] = l[j]

(* The places st of m lines are in their order.                            *)
Rising(st, m) == \A j, k \in 1 .. m : j < k => st[j] < st[k]

(* The lines ls of a text begin at the places st, at its beginning and     *)
(* behind every line end, and reach to the next one.                       *)
Split(ls, st, text) ==
  /\ Len(ls) >= 1
  /\ st \in [1 .. Len(ls) -> 1 .. Len(text) + 1]
  /\ \A k \in 1 .. Len(ls) :
       /\ Within(ls[k], st[k], text)
       /\ st[k] = 1 \/ text[st[k] - 1] = "\n"
       /\ k < Len(ls) =>
            st[k] + Len(ls[k]) <= Len(text) /\ text[st[k] + Len(ls[k])] = "\n"
       /\ k = Len(ls) => st[k] + Len(ls[k]) = Len(text) + 1
  /\ \A i \in 1 .. Len(text) + 1 :
       i = 1 \/ text[i - 1] = "\n" => \E k \in 1 .. Len(ls) : st[k] = i
  /\ Rising(st, Len(ls))

LEMMA SplitNil == \E st : Split(<< <<>> >>, st, <<>>)
<1> DEFINE ls == << <<>> >>
           e  == <<>>
           st == [k \in 1 .. 1 |-> 1]
<1>1. Len(ls) = 1 /\ Len(ls[1]) = 0 /\ Len(e) = 0
  OBVIOUS
<1>2. st \in [1 .. 1 -> 1 .. 1] /\ st[1] = 1
  OBVIOUS
<1> HIDE DEF ls, e, st
<1>3. Split(ls, st, e)
  BY <1>1, <1>2 DEF Split, Within, Rising
<1> QED
  BY <1>3 DEF ls, e

(* What becomes of a split text when it grows to r.                        *)
Grown(ls, st, q, r) ==
  /\ st \in [1 .. Len(ls) -> 1 .. Len(q) + 1] /\ Len(ls) \in Nat \ {0} /\ Len(q) \in Nat
  /\ \A k \in 1 .. Len(ls) :
       /\ st[k] \in 1 .. Len(q) + 1 /\ Len(ls[k]) \in Nat
       /\ Within(ls[k], st[k], r)
       /\ st[k] = 1 \/ r[st[k] - 1] = "\n"
       /\ k < Len(ls) =>
            st[k] + Len(ls[k]) <= Len(q) /\ r[st[k] + Len(ls[k])] = "\n"
       /\ k = Len(ls) => st[k] + Len(ls[k]) = Len(q) + 1
  /\ \A i \in 1 .. Len(q) + 1 :
       i = 1 \/ r[i - 1] = "\n" => \E k \in 1 .. Len(ls) : st[k] = i
  /\ Rising(st, Len(ls))

LEMMA SplitMore ==
  ASSUME NEW S, NEW q \in Seq(S), NEW r \in Seq(S), Len(r) = Len(q) + 1,
         \A i \in 1 .. Len(q) : r[i] = q[i],
         NEW ls \in Seq(Seq(S)), NEW st, Split(ls, st, q)
  PROVE  Grown(ls, st, q, r)
<1>1. /\ st \in [1 .. Len(ls) -> 1 .. Len(q) + 1] /\ Len(ls) \in Nat \ {0}
      /\ Len(q) \in Nat
  BY DEF Split
<1>2. ASSUME NEW k \in 1 .. Len(ls)
      PROVE  /\ st[k] \in 1 .. Len(q) + 1 /\ Len(ls[k]) \in Nat
             /\ Within(ls[k], st[k], r)
             /\ st[k] = 1 \/ r[st[k] - 1] = "\n"
             /\ k < Len(ls) =>
                  st[k] + Len(ls[k]) <= Len(q) /\ r[st[k] + Len(ls[k])] = "\n"
             /\ k = Len(ls) => st[k] + Len(ls[k]) = Len(q) + 1
  <2> DEFINE l == ls[k]
             i == st[k]
  <2>1. Len(l) \in Nat /\ i \in 1 .. Len(q) + 1
    <3>1. l \in Seq(S)
      OBVIOUS
    <3>2. i \in 1 .. Len(q) + 1
      BY <1>1
    <3> HIDE DEF l
    <3>3. Len(l) \in Nat
      BY <3>1
    <3> QED
      BY <3>2, <3>3
  <2>2. /\ Within(l, i, q)
        /\ i = 1 \/ q[i - 1] = "\n"
        /\ k < Len(ls) => i + Len(l) <= Len(q) /\ q[i + Len(l)] = "\n"
        /\ k = Len(ls) => i + Len(l) = Len(q) + 1
    BY DEF Split
  <2> HIDE DEF l, i
  <2>3. Within(l, i, r)
    <3>1. i + Len(l) <= Len(q) + 1 /\ \A j \in 1 .. Len(l) : q[i + j - 1] = l[j]
      BY <2>2 DEF Within
    <3>2. i + Len(l) <= Len(r) + 1
      BY <1>1, <2>1, <3>1
    <3>3. ASSUME NEW j \in 1 .. Len(l) PROVE r[i + j - 1] = l[j]
      <4>1. i + j - 1 \in 1 .. Len(q)
        BY <1>1, <2>1, <3>1
      <4> QED
        BY <3>1, <4>1
    <3> QED
      BY <3>2, <3>3 DEF Within
  <2>4. i = 1 \/ r[i - 1] = "\n"
    <3>1. i # 1 => i - 1 \in 1 .. Len(q)
      BY <1>1, <2>1
    <3> QED
      BY <2>2, <3>1
  <2>5. k < Len(ls) => i + Len(l) <= Len(q) /\ r[i + Len(l)] = "\n"
    <3>1. i + Len(l) <= Len(q) => i + Len(l) \in 1 .. Len(q)
      BY <1>1, <2>1
    <3> QED
      BY <2>2, <3>1
  <2> QED
    BY <2>1, <2>2, <2>3, <2>4, <2>5 DEF l, i
<1>3. ASSUME NEW i \in 1 .. Len(q) + 1, i = 1 \/ r[i - 1] = "\n"
      PROVE  \E k \in 1 .. Len(ls) : st[k] = i
  <2>1. i # 1 => i - 1 \in 1 .. Len(q)
    BY <1>1
  <2>2. i = 1 \/ q[i - 1] = "\n"
    BY <1>3, <2>1
  <2> QED
    BY <2>2 DEF Split
<1>4. Rising(st, Len(ls))
  BY DEF Split
<1> QED
  BY <1>1, <1>2, <1>3, <1>4 DEF Grown

LEMMA SplitLineEnd ==
  ASSUME NEW S, NEW q \in Seq(S), NEW r \in Seq(S), Len(r) = Len(q) + 1,
         \A i \in 1 .. Len(q) : r[i] = q[i], r[Len(q) + 1] = "\n",
         NEW ls \in Seq(Seq(S)), NEW st, Split(ls, st, q)
  PROVE  \E u : Split(Append(ls, <<>>), u, r)
<1> DEFINE m == Len(ls)
           n == Len(q)
           e == <<>>
           ls2 == Append(ls, e)
           u == [k \in 1 .. m + 1 |-> IF k = m + 1 THEN n + 2 ELSE st[k]]
<1>1. /\ st \in [1 .. m -> 1 .. n + 1] /\ m \in Nat \ {0} /\ n \in Nat
      /\ \A k \in 1 .. m :
           /\ st[k] \in 1 .. n + 1 /\ Len(ls[k]) \in Nat
           /\ Within(ls[k], st[k], r)
           /\ st[k] = 1 \/ r[st[k] - 1] = "\n"
           /\ k < m => st[k] + Len(ls[k]) <= n /\ r[st[k] + Len(ls[k])] = "\n"
           /\ k = m => st[k] + Len(ls[k]) = n + 1
      /\ \A i \in 1 .. n + 1 :
           i = 1 \/ r[i - 1] = "\n" => \E k \in 1 .. m : st[k] = i
      /\ Rising(st, m)
  <2>1. Grown(ls, st, q, r)
    BY SplitMore
  <2> QED
    BY <2>1 DEF Grown
<1>2. e \in Seq(S) /\ Len(e) = 0
  OBVIOUS
<1> HIDE DEF e
<1>3. /\ ls2 \in Seq(Seq(S)) /\ Len(ls2) = m + 1 /\ ls2[m + 1] = e
      /\ \A k \in 1 .. m : ls2[k] = ls[k]
  BY <1>2, AppendFacts
<1>4. u \in [1 .. m + 1 -> 1 .. n + 2] /\ u[m + 1] = n + 2 /\ \A k \in 1 .. m : u[k] = st[k]
  <2>1. ASSUME NEW k \in 1 .. m + 1
        PROVE  (IF k = m + 1 THEN n + 2 ELSE st[k]) \in 1 .. n + 2
    <3>1. k # m + 1 => k \in 1 .. m
      BY <1>1
    <3>2. k # m + 1 => st[k] \in 1 .. n + 1
      BY <1>1, <3>1
    <3> QED
      BY <1>1, <3>2
  <2>2. m + 1 \in 1 .. m + 1 /\ \A k \in 1 .. m : k \in 1 .. m + 1 /\ k # m + 1
    BY <1>1
  <2> QED
    BY <2>1, <2>2
<1>5. Len(r) = n + 1 /\ r[n + 1] = "\n"
  OBVIOUS
<1> HIDE DEF m, n, ls2, u
<1>6. ASSUME NEW k \in 1 .. m + 1
      PROVE  /\ Within(ls2[k], u[k], r)
             /\ u[k] = 1 \/ r[u[k] - 1] = "\n"
             /\ k < m + 1 =>
                  u[k] + Len(ls2[k]) <= Len(r) /\ r[u[k] + Len(ls2[k])] = "\n"
             /\ k = m + 1 => u[k] + Len(ls2[k]) = Len(r) + 1
  <2>1. CASE k = m + 1
    <3>1. ls2[k] = e /\ u[k] = n + 2 /\ (n + 2) - 1 = n + 1 /\ Len(r) + 1 = (n + 2) + 0
      <4>1. (n + 2) - 1 = n + 1 /\ Len(r) + 1 = (n + 2) + 0
        BY <1>1, <1>5
      <4> QED
        BY <1>3, <1>4, <2>1, <4>1
    <3>2. Within(e, n + 2, r)
      <4>1. (n + 2) + 0 <= Len(r) + 1 /\ 1 .. 0 = {}
        BY <1>1, <1>5
      <4> QED
        BY <1>2, <4>1 DEF Within
    <3>3. ~(k < m + 1)
      BY <1>1, <2>1
    <3>4. r[u[k] - 1] = "\n"
      BY <1>5, <3>1
    <3>5. u[k] + Len(ls2[k]) = Len(r) + 1
      BY <1>2, <3>1
    <3>6. Within(ls2[k], u[k], r)
      BY <3>1, <3>2
    <3> QED
      BY <3>3, <3>4, <3>5, <3>6
  <2>2. CASE k # m + 1
    <3>1. k \in 1 .. m
      BY <1>1, <2>2
    <3>2. ls2[k] = ls[k] /\ u[k] = st[k]
      BY <1>3, <1>4, <3>1
    <3> DEFINE i == st[k]
               w == Len(ls[k])
    <3>3. /\ i \in 1 .. n + 1 /\ w \in Nat
          /\ Within(ls[k], i, r)
          /\ i = 1 \/ r[i - 1] = "\n"
          /\ k < m => i + w <= n /\ r[i + w] = "\n"
          /\ k = m => i + w = n + 1
      BY <1>1, <3>1
    <3> HIDE DEF i, w
    <3>4. i + w <= Len(r) /\ r[i + w] = "\n"
      <4>1. CASE k < m
        BY <1>1, <1>5, <3>3, <4>1
      <4>2. CASE k = m
        BY <1>1, <1>5, <3>3, <4>2
      <4> QED
        BY <1>1, <3>1, <4>1, <4>2
    <3> QED
      BY <2>2, <3>2, <3>3, <3>4 DEF i, w
  <2> QED
    BY <2>1, <2>2
<1>7. ASSUME NEW i \in 1 .. Len(r) + 1, i = 1 \/ r[i - 1] = "\n"
      PROVE  \E k \in 1 .. m + 1 : u[k] = i
  <2>1. CASE i = n + 2
    <3>1. m + 1 \in 1 .. m + 1
      BY <1>1
    <3> QED
      BY <1>4, <2>1, <3>1
  <2>2. CASE i # n + 2
    <3>1. i \in 1 .. n + 1
      BY <1>1, <1>5, <2>2
    <3>2. PICK k \in 1 .. m : st[k] = i
      BY <1>1, <1>7, <3>1
    <3>3. k \in 1 .. m + 1 /\ u[k] = i
      BY <1>1, <1>4, <3>2
    <3> QED
      BY <3>3
  <2> QED
    BY <2>1, <2>2
<1>8. Rising(u, m + 1)
  <2> SUFFICES ASSUME NEW j \in 1 .. m + 1, NEW k \in 1 .. m + 1, j < k PROVE u[j] < u[k]
    BY DEF Rising
  <2>1. j \in 1 .. m /\ u[j] = st[j] /\ st[j] \in 1 .. n + 1
    <3>1. j \in 1 .. m
      BY <1>1
    <3> QED
      BY <1>1, <1>4, <3>1
  <2>2. CASE k = m + 1
    BY <1>1, <1>4, <2>1, <2>2
  <2>3. CASE k # m + 1
    <3>1. k \in 1 .. m
      BY <1>1, <2>3
    <3>2. u[k] = st[k] /\ st[j] < st[k]
      BY <1>1, <1>4, <2>1, <3>1 DEF Rising
    <3> QED
      BY <2>1, <3>2
  <2> QED
    BY <2>2, <2>3
<1>9. Split(ls2, u, r)
  <2>1. Len(ls2) = m + 1 /\ m + 1 >= 1 /\ Len(r) + 1 = n + 2
    BY <1>1, <1>3, <1>5
  <2> QED
    BY <1>4, <1>6, <1>7, <1>8, <2>1 DEF Split
<1> QED
  BY <1>9 DEF ls2, e

LEMMA SplitInLine ==
  ASSUME NEW S, NEW q \in Seq(S), NEW r \in Seq(S), Len(r) = Len(q) + 1,
         \A i \in 1 .. Len(q) : r[i] = q[i], NEW x \in S, r[Len(q) + 1] = x, x # "\n",
         NEW ls \in Seq(Seq(S)), NEW st, Split(ls, st, q)
  PROVE  Split([ls EXCEPT ![Len(ls)] = Append(@, x)], st, r)
<1> DEFINE m == Len(ls)
           n == Len(q)
           l == Append(ls[m], x)
           ls2 == [ls EXCEPT ![m] = l]
<1>1. /\ st \in [1 .. m -> 1 .. n + 1] /\ m \in Nat \ {0} /\ n \in Nat
      /\ \A k \in 1 .. m :
           /\ st[k] \in 1 .. n + 1 /\ Len(ls[k]) \in Nat
           /\ Within(ls[k], st[k], r)
           /\ st[k] = 1 \/ r[st[k] - 1] = "\n"
           /\ k < m => st[k] + Len(ls[k]) <= n /\ r[st[k] + Len(ls[k])] = "\n"
           /\ k = m => st[k] + Len(ls[k]) = n + 1
      /\ \A i \in 1 .. n + 1 :
           i = 1 \/ r[i - 1] = "\n" => \E k \in 1 .. m : st[k] = i
      /\ Rising(st, m)
  <2>1. Grown(ls, st, q, r)
    BY SplitMore
  <2> QED
    BY <2>1 DEF Grown
<1>2. /\ l \in Seq(S) /\ Len(l) = Len(ls[m]) + 1 /\ l[Len(ls[m]) + 1] = x
      /\ \A j \in 1 .. Len(ls[m]) : l[j] = ls[m][j]
      /\ m \in 1 .. m
  <2>1. m \in 1 .. m
    BY <1>1
  <2>2. ls[m] \in Seq(S)
    BY <2>1
  <2> QED
    BY <2>1, <2>2, AppendFacts
<1> HIDE DEF l
<1>3. Len(ls2) = m /\ ls2[m] = l /\ \A k \in 1 .. m : k # m => ls2[k] = ls[k]
  BY <1>2
<1>4. Len(r) = n + 1 /\ r[n + 1] = x
  OBVIOUS
<1>5. [ls EXCEPT ![Len(ls)] = Append(@, x)] = ls2
  BY <1>2 DEF l
<1> HIDE DEF m, n, ls2
<1>6. ASSUME NEW k \in 1 .. m
      PROVE  /\ Within(ls2[k], st[k], r)
             /\ st[k] = 1 \/ r[st[k] - 1] = "\n"
             /\ k < m => st[k] + Len(ls2[k]) <= Len(r) /\ r[st[k] + Len(ls2[k])] = "\n"
             /\ k = m => st[k] + Len(ls2[k]) = Len(r) + 1
  <2>1. CASE k = m
    <3> DEFINE i == st[m]
               w == Len(ls[m])
    <3>1. /\ i \in 1 .. n + 1 /\ w \in Nat /\ i + w = n + 1
          /\ Within(ls[m], i, r)
          /\ i = 1 \/ r[i - 1] = "\n"
      BY <1>1, <2>1
    <3>2. Len(l) = w + 1 /\ l[w + 1] = x /\ \A j \in 1 .. w : l[j] = ls[m][j]
      BY <1>2
    <3>3. \A j \in 1 .. w : r[i + j - 1] = ls[m][j]
      BY <3>1 DEF Within
    <3> HIDE DEF i, w
    <3>4. i + Len(l) = Len(r) + 1
      BY <1>1, <1>4, <3>1, <3>2
    <3>5. ASSUME NEW j \in 1 .. Len(l) PROVE r[i + j - 1] = l[j]
      <4>1. CASE j = w + 1
        <5>1. i + j - 1 = n + 1
          BY <1>1, <3>1, <4>1
        <5> QED
          BY <1>4, <3>2, <4>1, <5>1
      <4>2. CASE j # w + 1
        <5>1. j \in 1 .. w
          BY <3>1, <3>2, <4>2
        <5> QED
          BY <3>2, <3>3, <5>1
      <4> QED
        BY <4>1, <4>2
    <3>6. Within(l, i, r)
      <4>1. i + Len(l) <= Len(r) + 1
        BY <1>1, <1>4, <3>1, <3>4
      <4> QED
        BY <3>5, <4>1 DEF Within
    <3>7. ~(k < m)
      BY <1>1, <2>1
    <3> QED
      BY <1>3, <2>1, <3>1, <3>4, <3>6, <3>7 DEF i
  <2>2. CASE k # m
    <3>1. k < m
      BY <1>1, <2>2
    <3>2. ls2[k] = ls[k]
      BY <1>3, <2>2
    <3> DEFINE i == st[k]
               w == Len(ls[k])
    <3>3. /\ i \in 1 .. n + 1 /\ w \in Nat
          /\ Within(ls[k], i, r)
          /\ i = 1 \/ r[i - 1] = "\n"
          /\ i + w <= n /\ r[i + w] = "\n"
      BY <1>1, <3>1
    <3> HIDE DEF i, w
    <3>4. i + w <= Len(r)
      BY <1>1, <1>4, <3>3
    <3> QED
      BY <2>2, <3>2, <3>3, <3>4 DEF i, w
  <2> QED
    BY <2>1, <2>2
<1>7. ASSUME NEW i \in 1 .. Len(r) + 1, i = 1 \/ r[i - 1] = "\n"
      PROVE  \E k \in 1 .. m : st[k] = i
  <2>1. i # n + 2
    <3>1. i = n + 2 => i # 1 /\ i - 1 = n + 1
      BY <1>1
    <3> QED
      BY <1>4, <1>7, <3>1
  <2>2. i \in 1 .. n + 1
    BY <1>1, <1>4, <2>1
  <2> QED
    BY <1>1, <1>7, <2>2
<1>8. st \in [1 .. m -> 1 .. Len(r) + 1]
  <2>1. \A k \in 1 .. m : st[k] \in 1 .. Len(r) + 1
    <3>1. \A i \in 1 .. n + 1 : i \in 1 .. Len(r) + 1
      BY <1>1, <1>4
    <3> QED
      BY <1>1, <3>1
  <2> QED
    BY <1>1, <2>1
<1>9. Split(ls2, st, r)
  <2>1. Len(ls2) = m /\ m >= 1 /\ Rising(st, m)
    BY <1>1, <1>3
  <2> QED
    BY <1>6, <1>7, <1>8, <2>1 DEF Split
<1> QED
  BY <1>5, <1>9 DEF m

LEMMA LinesSplit ==
  ASSUME NEW S, NEW text \in Seq(S) PROVE \E st : Split(Lines(text), st, text)
<1> DEFINE T == {q \in Seq(S) : \E st : Split(Lines(q), st, q)}
<1>1. <<>> \in T
  <2>1. \E st : Split(Lines(<<>>), st, <<>>)
    BY LinesNil, SplitNil
  <2> QED
    BY <2>1
<1>2. ASSUME NEW q \in Seq(S), NEW x \in S, q \in T PROVE Append(q, x) \in T
  <2> DEFINE r == Append(q, x)
             ls == Lines(q)
  <2>1. /\ r \in Seq(S) /\ Len(r) = Len(q) + 1 /\ r[Len(q) + 1] = x
        /\ \A i \in 1 .. Len(q) : r[i] = q[i]
    BY AppendFacts
  <2>2. ls \in Seq(Seq(S)) /\ Lines(r) = Into(ls, x)
    BY LinesType, LinesAppend
  <2>3. PICK st : Split(ls, st, q)
    BY <1>2
  <2> HIDE DEF r, ls
  <2>4. CASE x = "\n"
    <3>1. Lines(r) = Append(ls, <<>>)
      BY <2>2, <2>4 DEF Into
    <3>2. \E u : Split(Append(ls, <<>>), u, r)
      BY <2>1, <2>2, <2>3, <2>4, SplitLineEnd
    <3> QED
      BY <2>1, <3>1, <3>2 DEF r
  <2>5. CASE x # "\n"
    <3>1. Lines(r) = [ls EXCEPT ![Len(ls)] = Append(@, x)]
      BY <2>2, <2>5 DEF Into
    <3>2. Split([ls EXCEPT ![Len(ls)] = Append(@, x)], st, r)
      BY <2>1, <2>2, <2>3, <2>5, SplitInLine
    <3>3. Split(Lines(r), st, r)
      BY <3>1, <3>2
    <3> QED
      BY <2>1, <3>3 DEF r
  <2> QED
    BY <2>4, <2>5
<1> HIDE DEF T
<1>3. Seq(S) \subseteq T
  BY <1>1, <1>2, SeqInduction
<1> QED
  BY <1>3 DEF T

----------------------------------------------------------------------------
(* What an owner writes.                                                   *)

LEMMA WithoutThree ==
  ASSUME NEW S, NEW s \in Seq(S), NEW e, NEW x, NEW y, NEW z,
         NEW w, w = <<x, y, z>>, Without(s, e) = w
  PROVE  \E b, c, d \in 1 .. Len(s) :
           /\ b < c /\ c < d /\ s[b] = x /\ s[c] = y /\ s[d] = z
           /\ \A j \in 1 .. Len(s) : s[j] # e => j \in {b, c, d}
<1> DEFINE T == {s[i] : i \in DOMAIN s} \ {e}
           K == Kept(s, T)
<1>1. \E h : Picks(Kept(s, T), s, Len(s), T, h)
  <2> HIDE DEF T
  <2> QED
    BY KeptPicks
<1>2. PICK h : Picks(K, s, Len(s), T, h)
  BY <1>1
<1>3. K = <<x, y, z>>
  BY DEF Without
<1>4. \A j \in 1 .. Len(s) : s[j] # e => s[j] \in T
  OBVIOUS
<1> HIDE DEF T, K
<1>5. Len(K) = 3 /\ K[1] = x /\ K[2] = y /\ K[3] = z
  BY <1>3
<1>6. 1 \in 1 .. Len(K) /\ 2 \in 1 .. Len(K) /\ 3 \in 1 .. Len(K)
  BY <1>5
<1>7. /\ h[1] \in 1 .. Len(s) /\ h[2] \in 1 .. Len(s) /\ h[3] \in 1 .. Len(s)
      /\ h[1] < h[2] /\ h[2] < h[3]
      /\ s[h[1]] = x /\ s[h[2]] = y /\ s[h[3]] = z
  BY <1>2, <1>5, <1>6 DEF Picks
<1>8. ASSUME NEW j \in 1 .. Len(s), s[j] # e PROVE j \in {h[1], h[2], h[3]}
  <2>1. PICK i \in 1 .. Len(K) : h[i] = j
    BY <1>2, <1>4, <1>8 DEF Picks
  <2>2. i \in {1, 2, 3}
    BY <1>5, <2>1
  <2> QED
    BY <2>1, <2>2
<1> QED
  BY <1>7, <1>8

(* A line of three pieces but for blanks, as it stands in the text.        *)
LineOf(text, s, l, key, v) ==
  /\ key # " " /\ Len(l) # 0 /\ l[1] = key
  /\ Without(l, " ") = <<key, "=", v>>
  /\ Within(l, s, text)
  /\ \/ s + Len(l) = Len(text) + 1
     \/ s + Len(l) <= Len(text) /\ text[s + Len(l)] = "\n"

LEMMA LineAssigns ==
  ASSUME NEW S, NEW text \in Seq(S), NEW l \in Seq(S), NEW s \in 1 .. Len(text) + 1,
         NEW key, NEW v, LineOf(text, s, l, key, v)
  PROVE  \E a, q, e : Assigns(text, s, key, v, a, q, e)
<1> DEFINE E == Len(text)
           L == Len(l)
<1>1. L \in Nat /\ L # 0 /\ E \in Nat /\ s \in Int /\ 1 <= s
  <2>1. L # 0
    BY DEF LineOf
  <2> QED
    BY <2>1
<1>2. /\ s + L <= E + 1
      /\ \A j \in 1 .. L : text[s + j - 1] = l[j]
  BY DEF LineOf, Within
<1>3. s + L = E + 1 \/ (s + L <= E /\ text[s + L] = "\n")
  BY DEF LineOf
<1>4. \E b, c, d \in 1 .. L :
        /\ b < c /\ c < d /\ l[b] = key /\ l[c] = "=" /\ l[d] = v
        /\ \A j \in 1 .. L : l[j] # " " => j \in {b, c, d}
  <2> DEFINE w == <<key, "=", v>>
             eq == "="
             blank == " "
  <2>1. w = <<key, eq, v>> /\ Without(l, blank) = w
    BY DEF LineOf
  <2> HIDE DEF w, eq, blank, L
  <2>2. \E b, c, d \in 1 .. Len(l) :
          /\ b < c /\ c < d /\ l[b] = key /\ l[c] = eq /\ l[d] = v
          /\ \A j \in 1 .. Len(l) : l[j] # blank => j \in {b, c, d}
    BY <2>1, WithoutThree
  <2> QED
    BY <2>2 DEF eq, blank, L
<1> HIDE DEF E, L
<1>5. PICK b \in 1 .. L, c \in 1 .. L, d \in 1 .. L :
        /\ b < c /\ c < d /\ l[b] = key /\ l[c] = "=" /\ l[d] = v
        /\ \A j \in 1 .. L : l[j] # " " => j \in {b, c, d}
  BY <1>4
<1>6. 1 \in {b, c, d}
  <2>1. 1 \in 1 .. L
    BY <1>1
  <2>2. l[1] # " "
    BY DEF LineOf
  <2> QED
    BY <1>5, <2>1, <2>2
<1>7. b < c /\ c < d
  BY <1>5
<1>8. b = 1 /\ 2 <= c /\ c + 1 <= d /\ d <= L /\ c \in Int /\ d \in Int
  BY <1>1, <1>6, <1>7
<1> DEFINE a == s + c - 1
           q == s + d - 1
           e == s + L
<1>9. s \in 1 .. E /\ a \in s + 1 .. E /\ q \in a + 1 .. E
  <2>1. s + L <= E + 1
    BY <1>2
  <2> QED
    BY <1>1, <1>8, <2>1
<1>10. text[s] = key /\ text[a] = "=" /\ text[q] = v
  <2>1. s + 1 - 1 = s /\ 1 \in 1 .. L
    BY <1>1
  <2>2. text[s] = l[1] /\ text[a] = l[c] /\ text[q] = l[d]
    BY <1>2, <2>1
  <2>3. l[1] = key
    BY DEF LineOf
  <2> QED
    BY <1>5, <2>2, <2>3
<1>11. ASSUME NEW k \in s + 1 .. e - 1, k # a, k # q PROVE text[k] = " "
  <2> DEFINE j == k - s + 1
  <2>1. j \in 1 .. L /\ j # b /\ j # c /\ j # d /\ s + j - 1 = k
    BY <1>1, <1>8, <1>11
  <2> HIDE DEF j
  <2>2. l[j] = " "
    BY <1>5, <2>1
  <2>3. text[s + j - 1] = l[j]
    BY <1>2, <2>1
  <2> QED
    BY <2>1, <2>2, <2>3
<1>12. /\ e \in q + 1 .. E + 1
       /\ e <= E => text[e] = "\n"
  <2>1. e \in q + 1 .. E + 1
    BY <1>1, <1>2, <1>8
  <2>2. s + L = E + 1 => ~(e <= E)
    BY <1>1
  <2> QED
    BY <1>3, <2>1, <2>2
<1>13. /\ \A k \in s + 1 .. a - 1 : k \in s + 1 .. e - 1 /\ k # a /\ k # q
       /\ \A k \in a + 1 .. q - 1 : k \in s + 1 .. e - 1 /\ k # a /\ k # q
       /\ \A k \in q + 1 .. e - 1 : k \in s + 1 .. e - 1 /\ k # a /\ k # q
  BY <1>1, <1>2, <1>8
<1> HIDE DEF a, q, e
<1>14. /\ \A k \in s + 1 .. a - 1 : text[k] = " "
       /\ \A k \in a + 1 .. q - 1 : text[k] = " "
       /\ \A k \in q + 1 .. e - 1 : text[k] = " "
  BY <1>11, <1>13
<1>15. Assigns(text, s, key, v, a, q, e)
  BY <1>9, <1>10, <1>12, <1>14 DEF Assigns, E
<1> QED
  BY <1>15

IsKey(key) == key # " " /\ key # "\n"

(* The first line that begins with the key reads as the owner means it.    *)
LEMMA SaysIs ==
  ASSUME NEW S, NEW text \in Seq(S), NEW key, IsKey(key), NEW v, Says(text, key, v)
  PROVE  \E s, a, q, e : AssignsFirst(text, s, key, v, a, q, e)
<1> DEFINE ls == Lines(text)
<1>1. ls \in Seq(Seq(S)) /\ Len(ls) \in Nat
  BY LinesType
<1>2. DOMAIN ls = 1 .. Len(ls)
  BY <1>1
<1>3. \A k \in 1 .. Len(ls) : ls[k] \in Seq(S) /\ (ls[k] # <<>> <=> Len(ls[k]) # 0)
  <2>1. \A l \in Seq(S) : l # <<>> <=> Len(l) # 0
    OBVIOUS
  <2> QED
    BY <1>1, <2>1
<1>4. PICK st : Split(ls, st, text)
  BY LinesSplit
<1>5. \E n \in DOMAIN ls :
        /\ BeginsWith(ls[n], key) /\ Without(ls[n], " ") = <<key, "=", v>>
        /\ \A j \in 1 .. n - 1 : ~BeginsWith(ls[j], key)
  BY DEF Says
<1> HIDE DEF ls
<1>6. PICK n \in 1 .. Len(ls) :
        /\ BeginsWith(ls[n], key) /\ Without(ls[n], " ") = <<key, "=", v>>
        /\ \A j \in 1 .. n - 1 : ~BeginsWith(ls[j], key)
  BY <1>2, <1>5
<1> DEFINE l == ls[n]
           s == st[n]
<1>9. l \in Seq(S)
  BY <1>3
<1>10. l[1] = key /\ Len(l) # 0 /\ Without(l, " ") = <<key, "=", v>>
  BY <1>3, <1>6 DEF BeginsWith
<1>11. s \in 1 .. Len(text) + 1
  BY <1>4 DEF Split
<1>12. Within(l, s, text)
  BY <1>4 DEF Split
<1>13. \/ s + Len(l) = Len(text) + 1
       \/ s + Len(l) <= Len(text) /\ text[s + Len(l)] = "\n"
  <2>1. n < Len(ls) \/ n = Len(ls)
    BY <1>1
  <2> QED
    BY <1>4, <2>1 DEF Split
<1>14. s = 1 \/ text[s - 1] = "\n"
  BY <1>4 DEF Split
<1> HIDE DEF l, s
<1>15. PICK a, q, e : Assigns(text, s, key, v, a, q, e)
  <2>1. LineOf(text, s, l, key, v)
    BY <1>10, <1>12, <1>13 DEF LineOf, IsKey
  <2> QED
    BY <1>9, <1>11, <2>1, LineAssigns
<1>16. ASSUME NEW i \in 1 .. Len(text), i \in LineStarts(text), text[i] = key
       PROVE  s <= i
  <2>1. i = 1 \/ text[i - 1] = "\n"
    BY <1>16 DEF LineStarts
  <2>2. i \in 1 .. Len(text) + 1 /\ i # Len(text) + 1 /\ i \in Int /\ Len(text) \in Nat
    OBVIOUS
  <2>3. PICK k \in 1 .. Len(ls) : st[k] = i
    BY <1>4, <2>1, <2>2 DEF Split
  <2> DEFINE w == Len(ls[k])
  <2>4. ls[k] \in Seq(S)
    BY <1>3
  <2>5. w \in Nat
    BY <2>4
  <2>6. Within(ls[k], i, text)
    BY <1>4, <2>3 DEF Split
  <2>7. /\ k < Len(ls) => text[i + w] = "\n"
        /\ k = Len(ls) => i + w = Len(text) + 1
    BY <1>4, <2>3 DEF Split
  <2>8. k < Len(ls) \/ k = Len(ls)
    BY <1>1
  <2>9. key # "\n"
    BY DEF IsKey
  <2>10. \A j \in 1 .. w : text[i + j - 1] = ls[k][j]
    BY <2>6 DEF Within
  <2> HIDE DEF w
  <2>11. w # 0
    <3>1. i + 0 = i
      BY <2>2
    <3>2. w = 0 => text[i] = "\n" \/ i = Len(text) + 1
      BY <2>7, <2>8, <3>1
    <3> QED
      BY <1>16, <2>2, <2>9, <3>2
  <2>12. 1 \in 1 .. w /\ i + 1 - 1 = i
    BY <2>2, <2>5, <2>11
  <2>13. ls[k][1] = key
    BY <1>16, <2>10, <2>12
  <2>14. BeginsWith(ls[k], key)
    BY <1>3, <2>11, <2>13 DEF w, BeginsWith
  <2>15. ~(k < n)
    <3>1. k < n => k \in 1 .. n - 1
      BY <1>1
    <3> QED
      BY <1>6, <2>14, <3>1
  <2>16. CASE k = n
    BY <2>2, <2>3, <2>16 DEF s
  <2>17. CASE k # n
    <3>1. n < k
      BY <1>1, <2>15, <2>17
    <3>2. st[n] < st[k]
      BY <1>4, <3>1 DEF Split, Rising
    <3>3. st[n] \in Int /\ st[k] \in Int
      BY <2>2, <2>3, <1>11 DEF s
    <3> QED
      BY <2>3, <3>2, <3>3 DEF s
  <2> QED
    BY <2>16, <2>17
<1>17. s \in 1 .. Len(text) /\ text[s] = key
  BY <1>15 DEF Assigns
<1>18. s \in LineStarts(text)
  BY <1>14, <1>17 DEF LineStarts
<1>19. \A i \in LineStarts(text) : text[i] = key => s <= i
  BY <1>16, LinePlaces
<1>20. AssignsFirst(text, s, key, v, a, q, e)
  BY <1>15, <1>18, <1>19 DEF AssignsFirst
<1> QED
  BY <1>20

(* The server reads what the owner has written.                            *)
LEMMA SaysRead ==
  ASSUME NEW S, NEW text \in Seq(S), NEW v \in DOMAIN Digit, Says(text, "hidden", v)
  PROVE  FileInt(text, "hidden") = Digit[v]
<1> DEFINE key == "hidden"
<1>1. IsKey(key) /\ Says(text, key, v)
  BY DEF IsKey
<1> HIDE DEF key
<1>2. PICK s, a, q, e : AssignsFirst(text, s, key, v, a, q, e)
  BY <1>1, SaysIs
<1>3. FileInt(text, key) = Digit[v]
  BY <1>2, FileIntIs
<1> QED
  BY <1>3 DEF key

LEMMA PageRead ==
  ASSUME NEW S, NEW text \in Seq(S), NEW name, name \notin Blank, Says(text, "page", name)
  PROVE  TrimBlanks(FileValue(text, "page")) = <<name>>
<1> DEFINE key == "page"
<1>1. IsKey(key) /\ Says(text, key, name)
  BY DEF IsKey
<1> HIDE DEF key
<1>2. PICK s, a, q, e : AssignsFirst(text, s, key, name, a, q, e)
  BY <1>1, SaysIs
<1>3. TrimBlanks(FileValue(text, key)) = <<name>>
  BY <1>2, FileValueIs
<1> QED
  BY <1>3 DEF key

LEMMA TextType ==
  ASSUME HopInv, NEW p, HasDescriptor(p) PROVE DescriptorText(p) \in Seq(STRING)
<1> DEFINE f == Normalised(DescriptorFile(p))
<1>1. Kind(DescriptorFile(p)) = "file"
  BY DEF HasDescriptor
<1>2. f \in DOMAIN visit.disk
  BY <1>1, Zenon DEF Kind, Files
<1>3. visit \in Visits
  BY DEF HopInv
<1>4. DescriptorText(p) = visit.disk[f]
  BY DEF DescriptorText
<1> HIDE DEF f
<1> QED
  BY <1>2, <1>3, <1>4, VisitAssumption

LEMMA Hiding == ASSUME HopInv, AnswerInv PROVE HiddenAsWritten
<1> DEFINE p == FilePath(target)
           text == DescriptorText(p)
           r == Features(target)
<1> SUFFICES ASSUME Plain, HasDescriptor(p), answer \notin {None, 301}
             PROVE  /\ Says(text, "hidden", "1") => answer = 404
                    /\ Says(text, "hidden", "0") /\ Kind(p) = "file" => answer = 200
  BY DEF HiddenAsWritten
<1>1. /\ r.form = "line" /\ r.get = TRUE /\ r.safe /\ r.object = Kind(p)
      /\ r.descriptor = Governs(p) /\ r.object # "absent"
  BY DEF Features, Plain, HasDescriptor
<1>2. answer \in Responses(r, visit.enforce, FALSE) /\ r \in AnyRequest
  BY PossibleIs DEF AnswerInv
<1>3. text \in Seq(STRING)
  BY TextType
<1>4. Governs(p) = IF FileInt(text, "hidden") = 1 THEN "hides" ELSE "shows"
  BY DEF Governs, HasDescriptor
<1>5. "1" \in DOMAIN Digit /\ "0" \in DOMAIN Digit /\ Digit["1"] = 1 /\ Digit["0"] = 0
  BY DEF Digit
<1> HIDE DEF text, r
<1>8. IsDirectory(r) => r.slash
  BY <1>1, <1>2, UnslashedRedirected DEF IsDirectory
<1>9. \E o \in MayOpen(Served(r, visit.enforce), FALSE) : answer \in Answers(r, visit.enforce, o)
  BY <1>1, <1>2, <1>4, <1>8, ReadAsIs
<1>10. PICK o \in MayOpen(Served(r, visit.enforce), FALSE) : answer \in Answers(r, visit.enforce, o)
  BY <1>9
<1>6. ASSUME Says(text, "hidden", "1") PROVE answer = 404
  <2>1. r.descriptor = "hides"
    BY <1>1, <1>3, <1>4, <1>5, <1>6, SaysRead
  <2> QED
    BY <1>1, <1>8, <1>10, <2>1 DEF Answers, Denied
<1>7. ASSUME Says(text, "hidden", "0"), Kind(p) = "file" PROVE answer = 200
  <2>1. r.descriptor = "shows"
    BY <1>1, <1>3, <1>4, <1>5, <1>7, SaysRead
  <2>2. Reaches(r) /\ ~Denied(r, visit.enforce) /\ Content(r) = "there"
    BY <1>1, <1>7, <1>8, <2>1 DEF Reaches, Denied, Content
  <2>3. o = TRUE
    BY <1>10, <2>2 DEF Served, MayOpen
  <2> QED
    BY <1>1, <1>8, <1>10, <2>2, <2>3 DEF Answers
<1> QED
  BY <1>6, <1>7

(* What the owner of a directory writes in its descriptor holds, wherever  *)
(* the line stands in a text of any length, and for any target and disk.   *)
THEOREM HiddenAsWrittenEach == Spec => []HiddenAsWritten
<1>1. HopInv /\ AnswerInv => HiddenAsWritten
  BY Hiding
<1> QED
  BY <1>1, HopInit, HopNext, AnswerInit, AnswerNext, PTL DEF Spec

LEMMA Paging == ASSUME HopInv, AnswerInv PROVE PageAsWritten
<1> DEFINE p == FilePath(target)
           text == DescriptorText(p)
           r == Features(target)
<1> SUFFICES ASSUME Plain, Governs(p) = "shows", answer \notin {None, 301},
                    Kind(p) = "directory",
                    NEW name \in ToSet(text) \ Blank, Says(text, "page", name)
             PROVE  /\ Kind(p \o <<name>>) = "file" => answer = 200
                    /\ Kind(p \o <<name>>) \in {"absent", "locked"} => answer = 404
  BY DEF PageAsWritten
<1>1. /\ r.form = "line" /\ r.get = TRUE /\ r.safe /\ r.object = "directory"
      /\ r.descriptor = "shows" /\ r.page = PageKind(p)
  BY DEF Features, Plain
<1>2. answer \in Responses(r, visit.enforce, FALSE) /\ r \in AnyRequest
  BY PossibleIs DEF AnswerInv
<1>3. HasDescriptor(p)
  BY KindIs DEF Governs, HasDescriptor, Object
<1>4. TrimBlanks(FileValue(text, "page")) = <<name>>
  <2>1. text \in Seq(STRING)
    BY <1>3, TextType
  <2> HIDE DEF text
  <2> QED
    BY <2>1, PageRead
<1> DEFINE w == <<name>>
<1> HIDE DEF w, r, p
<1>5. PagePath(p) = p \o w
  <2>1. TrimBlanks(FileValue(DescriptorText(p), "page")) = w
    BY <1>4 DEF w
  <2> QED
    BY <1>3, <2>1 DEF PagePath
<1>6. r.slash
  BY <1>1, <1>2, UnslashedRedirected
<1>9. PICK o \in MayOpen(Served(r, visit.enforce), FALSE) : answer \in Answers(r, visit.enforce, o)
  BY <1>1, <1>2, <1>6, ReadAsIs
<1>10. Reaches(r) /\ ~Denied(r, visit.enforce) /\ Content(r) = r.page
  BY <1>1, <1>6 DEF Reaches, Denied, Content
<1>7. Kind(p \o w) = "file" => answer = 200
  <2> SUFFICES ASSUME Kind(p \o w) = "file" PROVE answer = 200
    OBVIOUS
  <2>1. r.page = "there"
    BY <1>1, <1>5 DEF PageKind
  <2>2. o = TRUE
    BY <1>9, <1>10, <2>1 DEF Served, MayOpen
  <2> QED
    BY <1>1, <1>6, <1>9, <1>10, <2>1, <2>2 DEF Answers
<1>8. Kind(p \o w) \in {"absent", "locked"} => answer = 404
  <2> SUFFICES ASSUME Kind(p \o w) \in {"absent", "locked"} PROVE answer = 404
    OBVIOUS
  <2>1. r.page \in {"missing", "locked"}
    BY <1>1, <1>5 DEF PageKind
  <2>2. o = FALSE
    BY <1>9, <1>10, <2>1 DEF Served, MayOpen
  <2> QED
    BY <1>1, <1>6, <1>9, <1>10, <2>1, <2>2 DEF Answers
<1> QED
  BY <1>7, <1>8 DEF w

(* The page a directory's descriptor names is the one that is shown,       *)
(* wherever the line stands and however many blanks are around the name.   *)
THEOREM PageAsWrittenEach == Spec => []PageAsWritten
<1>1. HopInv /\ AnswerInv => PageAsWritten
  BY Paging
<1> QED
  BY <1>1, HopInit, HopNext, AnswerInit, AnswerNext, PTL DEF Spec
=============================================================================
