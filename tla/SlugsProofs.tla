---------------------------- MODULE SlugsProofs ----------------------------
(***************************************************************************)
(* Slugs are distinct and numbered in order, and only races refuse one, for  *)
(* any workers, names and number of businesses.                              *)
(***************************************************************************)
EXTENDS Slugs, FiniteSetTheorems, TLAPS

Shape ==
  [pc : {"idle", "look", "insert", "inserted", "created", "error"},
   base : Names \cup {Nameless}, suffix : Nat \ {0}, seen : Nat]

TypeInv == businesses \in Seq(Row) /\ req \in [Workers -> Shape]

(* A request that is looking has a name to look with. *)
Named == \A w \in InFlight : req[w].base \in Names

(* An inserted slug is nobody else's, committed or not. *)
Held ==
  \A w \in Workers : req[w].pc = "inserted" =>
    /\ Slug(req[w]) \notin Taken
    /\ \A v \in Workers \ {w} : req[v].pc = "inserted" => Slug(req[v]) # Slug(req[w])

(* The numbers a request has passed over are taken. *)
Searched ==
  \A w \in Workers : \A k \in 1..(req[w].suffix - 1) :
    \E j \in DOMAIN businesses :
      Slug(businesses[j]) = Slug([base |-> req[w].base, suffix |-> k])

(* When a request looked, its slug was free. *)
SawFree(r) == \A i \in DOMAIN businesses : i <= r.seen => Slug(businesses[i]) # Slug(r)

Looked ==
  \A w \in Workers : req[w].pc = "insert" =>
    req[w].seen <= Len(businesses) /\ SawFree(req[w])

IInv ==
  /\ TypeInv /\ Named /\ Held /\ Searched /\ Looked
  /\ SlugsDistinct /\ NumbersAreUsedInOrder /\ FailsOnlyInRaces

-----------------------------------------------------------------------------

USE DEF Shape

LEMMA Start == Init => IInv
<1> SUFFICES ASSUME Init PROVE IInv
  OBVIOUS
<1> USE DEF Init, Idle
<1>1. TypeInv
  BY DEF TypeInv
<1>2. Named /\ Held
  BY DEF Named, InFlight, Held
<1>3. Searched
  BY DEF Searched
<1>4. Looked /\ SlugsDistinct /\ NumbersAreUsedInOrder /\ FailsOnlyInRaces
  BY DEF Looked, SlugsDistinct, NumbersAreUsedInOrder, FailsOnlyInRaces
<1> QED
  BY <1>1, <1>2, <1>3, <1>4 DEF IInv

(* A step of one request that commits nothing and inserts nothing keeps the  *)
(* facts about the others.                                                   *)
LEMMA RequestStep ==
  ASSUME IInv, NEW w \in Workers, NEW r,
         r \in Shape,
         req' = [req EXCEPT ![w] = r],
         UNCHANGED businesses,
         r.pc \in {"look", "insert", "inserted"} => r.base \in Names,
         r.pc = "inserted" =>
           /\ Slug(r) \notin Taken
           /\ \A v \in Workers \ {w} : req[v].pc = "inserted" => Slug(req[v]) # Slug(r),
         \A k \in 1..(r.suffix - 1) : \E j \in DOMAIN businesses :
           Slug(businesses[j]) = Slug([base |-> r.base, suffix |-> k]),
         r.pc = "insert" => r.seen <= Len(businesses) /\ SawFree(r),
         r.pc = "error" /\ Fits(r) =>
           \E i \in (r.seen + 1)..Len(businesses) : Slug(businesses[i]) = Slug(r)
  PROVE  IInv'
<1> USE DEF IInv
<1>1. TypeInv'
  BY DEF TypeInv
<1>2. \A v \in Workers : req'[v] = IF v = w THEN r ELSE req[v]
  BY DEF TypeInv
<1>3. Named'
  BY <1>2 DEF Named, InFlight
<1>4. Taken' = Taken
  BY DEF Taken
<1>5. Held'
  BY <1>2, <1>4 DEF Held
<1>6. Searched'
  BY <1>2 DEF Searched
<1>7. SlugsDistinct' /\ NumbersAreUsedInOrder'
  BY DEF SlugsDistinct, NumbersAreUsedInOrder
<1>8. Looked'
  BY <1>2 DEF Looked, SawFree
<1>9. FailsOnlyInRaces'
  BY <1>2 DEF FailsOnlyInRaces
<1> QED
  BY <1>1, <1>3, <1>5, <1>6, <1>7, <1>8, <1>9

(* What is taken stays taken. *)
LEMMA CommitStep ==
  ASSUME IInv, NEW w \in Workers, Commit(w)
  PROVE  IInv'
<1> USE DEF IInv
<1> DEFINE row == [base |-> req[w].base, suffix |-> req[w].suffix]
           n == Len(businesses)
<1>1. row \in Row /\ Slug(row) = Slug(req[w])
  BY DEF TypeInv, Named, InFlight, Commit, Row, Slug
<1>2. /\ Len(businesses') = n + 1
      /\ \A i \in 1..n : businesses'[i] = businesses[i]
      /\ businesses'[n + 1] = row
      /\ businesses' \in Seq(Row)
      /\ DOMAIN businesses = 1..n /\ DOMAIN businesses' = 1..(n + 1)
      /\ n \in Nat
  BY <1>1 DEF Commit, TypeInv
<1>3. req' = [req EXCEPT ![w].pc = "created"]
  BY DEF Commit
<1>4. \A v \in Workers :
        /\ req'[v].pc = IF v = w THEN "created" ELSE req[v].pc
        /\ req'[v].base = req[v].base /\ req'[v].suffix = req[v].suffix
        /\ req'[v].seen = req[v].seen /\ req[v].seen \in Nat
        /\ Slug(req'[v]) = Slug(req[v]) /\ Fits(req'[v]) = Fits(req[v])
  BY <1>3 DEF TypeInv, Slug, Fits
<1>5. TypeInv'
  BY <1>2, <1>3 DEF TypeInv
<1>6. Named'
  BY <1>4 DEF Named, InFlight
<1>7. req[w].pc = "inserted"
  BY DEF Commit
<1>8. Taken' = Taken \cup {Slug(row)}
  BY <1>2 DEF Taken
<1>9. Held'
  BY <1>1, <1>4, <1>7, <1>8 DEF Held
<1>10. Searched'
  BY <1>2, <1>4 DEF Searched
<1>11. SlugsDistinct'
  <2>1. \A i \in 1..n : Slug(businesses[i]) # Slug(row)
    BY <1>1, <1>2, <1>7 DEF Held, Taken
  <2> QED
    BY <2>1, <1>2 DEF SlugsDistinct
<1>12. NumbersAreUsedInOrder'
  <2> SUFFICES ASSUME NEW i \in 1..(n + 1), NEW k \in 1..(businesses'[i].suffix - 1)
               PROVE \E j \in 1..(i - 1) :
                       Slug(businesses'[j]) = Slug([businesses'[i] EXCEPT !.suffix = k])
    BY <1>2 DEF NumbersAreUsedInOrder
  <2>1. CASE i \in 1..n
    BY <2>1, <1>2 DEF NumbersAreUsedInOrder
  <2>2. CASE i = n + 1
    <3>1. [businesses'[i] EXCEPT !.suffix = k] = [base |-> req[w].base, suffix |-> k]
      BY <2>2, <1>2
    <3>2. PICK j \in 1..n :
            Slug(businesses[j]) = Slug([base |-> req[w].base, suffix |-> k])
      BY <2>2, <1>2 DEF Searched
    <3> QED
      BY <3>1, <3>2, <2>2, <1>2
  <2> QED
    BY <2>1, <2>2
<1>13. Looked'
  BY <1>2, <1>4 DEF Looked, SawFree
<1>14. FailsOnlyInRaces'
  <2> SUFFICES ASSUME NEW v \in Workers, v # w, req[v].pc = "error", Fits(req[v])
               PROVE \E i \in (req[v].seen + 1)..(n + 1) :
                       Slug(businesses'[i]) = Slug(req[v])
    BY <1>2, <1>4 DEF FailsOnlyInRaces
  <2>1. PICK i \in (req[v].seen + 1)..n : Slug(businesses[i]) = Slug(req[v])
    BY DEF FailsOnlyInRaces
  <2> QED
    BY <2>1, <1>2, <1>4
<1> QED
  BY <1>5, <1>6, <1>9, <1>10, <1>11, <1>12, <1>13, <1>14

LEMMA Inductive == IInv /\ [Next]_vars => IInv'
<1> SUFFICES ASSUME IInv, [Next]_vars PROVE IInv'
  OBVIOUS
<1>1. ASSUME NEW w \in Workers, Post(w) PROVE IInv'
  <2>1. PICK name \in Names : req' = [req EXCEPT ![w] = Posted(name)]
    BY <1>1 DEF Post
  <2> DEFINE r == Posted(name)
  <2>2. /\ r.pc = "look" /\ r.base \in Names /\ r.suffix = 1
        /\ r \in Shape
    BY DEF Posted
  <2>3. 1..(r.suffix - 1) = {}
    BY <2>2
  <2> HIDE DEF r
  <2> QED
    BY <1>1, <2>1, <2>2, <2>3, RequestStep DEF Post, r
<1>2. ASSUME NEW w \in Workers, Look(w) PROVE IInv'
  <2> DEFINE q == req[w]
  <2>0. /\ q.pc = "look" /\ q.base \in Names /\ UNCHANGED businesses
        /\ q \in Shape
        /\ \A k \in 1..(q.suffix - 1) : \E j \in DOMAIN businesses :
             Slug(businesses[j]) = Slug([base |-> q.base, suffix |-> k])
        /\ Len(businesses) \in Nat
    BY <1>2 DEF Look, IInv, TypeInv, Named, InFlight, Searched
  <2>1. CASE ~Fits(q)
    <3> DEFINE r == [q EXCEPT !.pc = "error"]
    <3>1. req' = [req EXCEPT ![w] = r]
      BY <1>2, <2>1 DEF Look
    <3>2. ~Fits(r)
      BY <2>0, <2>1 DEF Fits
    <3> QED
      BY <3>1, <3>2, <2>0, RequestStep
  <2>2. CASE Fits(q) /\ Slug(q) \in Taken
    <3> DEFINE r == [q EXCEPT !.suffix = q.suffix + 1]
    <3>1. req' = [req EXCEPT ![w] = r]
      BY <1>2, <2>2 DEF Look
    <3>2. Slug(q) = Slug([base |-> q.base, suffix |-> q.suffix])
      BY DEF Slug
    <3>3. \E j \in DOMAIN businesses : Slug(businesses[j]) = Slug(q)
      BY <2>2 DEF Taken
    <3>4. \A k \in 1..(r.suffix - 1) : \E j \in DOMAIN businesses :
            Slug(businesses[j]) = Slug([base |-> r.base, suffix |-> k])
      <4> SUFFICES ASSUME NEW k \in 1..q.suffix
                   PROVE \E j \in DOMAIN businesses :
                           Slug(businesses[j]) = Slug([base |-> q.base, suffix |-> k])
        BY <2>0
      <4>1. k \in 1..(q.suffix - 1) \/ k = q.suffix
        BY <2>0
      <4> QED
        BY <4>1, <3>2, <3>3, <2>0
    <3>5. r.pc = "look" /\ r.base = q.base
      BY <2>0
    <3>6. r \in Shape
      BY <2>0
    <3> HIDE DEF r
    <3> QED
      BY <3>1, <3>4, <3>5, <3>6, <2>0, RequestStep
  <2>3. CASE Fits(q) /\ Slug(q) \notin Taken
    <3> DEFINE r == [q EXCEPT !.pc = "insert", !.seen = Len(businesses)]
    <3>1. req' = [req EXCEPT ![w] = r]
      BY <1>2, <2>3 DEF Look
    <3>2. r.pc = "insert" /\ r.base = q.base /\ r.suffix = q.suffix /\ r.seen = Len(businesses)
      BY <2>0
    <3>3. Slug(r) = Slug(q)
      BY <3>2 DEF Slug
    <3>4. SawFree(r)
      BY <3>3, <2>3 DEF SawFree, Taken
    <3>5. r \in Shape
      BY <2>0
    <3>6. /\ r.seen <= Len(businesses)
          /\ \A k \in 1..(r.suffix - 1) : \E j \in DOMAIN businesses :
               Slug(businesses[j]) = Slug([base |-> r.base, suffix |-> k])
      BY <3>2, <2>0
    <3>7. r.pc = "insert" /\ r.base \in Names /\ UNCHANGED businesses
      BY <3>2, <2>0
    <3> HIDE DEF r
    <3> QED
      BY <3>1, <3>4, <3>5, <3>6, <3>7, RequestStep
  <2> QED
    BY <2>1, <2>2, <2>3
<1>3. ASSUME NEW w \in Workers, Insert(w) PROVE IInv'
  <2> DEFINE q == req[w]
             r == [q EXCEPT !.pc = IF Slug(q) \in Taken THEN "error" ELSE "inserted"]
  <2>0. /\ q.pc = "insert" /\ q.base \in Names /\ UNCHANGED businesses
        /\ q \in Shape
        /\ \A k \in 1..(q.suffix - 1) : \E j \in DOMAIN businesses :
             Slug(businesses[j]) = Slug([base |-> q.base, suffix |-> k])
    BY <1>3 DEF Insert, IInv, TypeInv, Named, InFlight, Searched
  <2>a. /\ q.seen \in Nat /\ q.seen <= Len(businesses) /\ SawFree(q)
        /\ Len(businesses) \in Nat /\ DOMAIN businesses = 1..Len(businesses)
    BY <1>3 DEF Insert, IInv, TypeInv, Looked
  <2>1. req' = [req EXCEPT ![w] = r]
    BY <1>3 DEF Insert
  <2>2. Slug(r) = Slug(q)
    BY <2>0 DEF Slug
  <2>3. \A v \in Workers \ {w} : req[v].pc = "inserted" => Slug(req[v]) # Slug(r)
    BY <1>3, <2>2 DEF Insert
  <2>4. r.pc = "inserted" => Slug(r) \notin Taken
    BY <2>0, <2>2
  <2>5. r.base = q.base /\ r.suffix = q.suffix
    BY <2>0
  <2>6. r \in Shape
    BY <2>0
  <2>7. r.pc = "error" => \E i \in (r.seen + 1)..Len(businesses) : Slug(businesses[i]) = Slug(r)
    <3> SUFFICES ASSUME Slug(q) \in Taken
                 PROVE \E i \in (q.seen + 1)..Len(businesses) : Slug(businesses[i]) = Slug(q)
      BY <2>0, <2>2
    <3>1. PICK i \in DOMAIN businesses : Slug(businesses[i]) = Slug(q)
      BY DEF Taken
    <3>2. ~(i <= q.seen)
      BY <3>1, <2>a DEF SawFree
    <3> QED
      BY <3>1, <3>2, <2>a
  <2>8. r.pc # "insert"
    BY <2>0
  <2> HIDE DEF r
  <2> QED
    BY <2>0, <2>1, <2>3, <2>4, <2>5, <2>6, <2>7, <2>8, RequestStep
<1>4. ASSUME NEW w \in Workers, Commit(w) PROVE IInv'
  BY <1>4, CommitStep
<1>5. ASSUME NEW w \in Workers, Die(w) PROVE IInv'
  <2>1. req' = [req EXCEPT ![w] = Idle] /\ UNCHANGED businesses
    BY <1>5 DEF Die
  <2>2. /\ Idle.pc = "idle" /\ Idle.suffix = 1
        /\ Idle \in Shape
    BY DEF Idle
  <2>3. 1..(Idle.suffix - 1) = {}
    BY <2>2
  <2> QED
    BY <2>1, <2>2, <2>3, RequestStep
<1>6. CASE UNCHANGED vars
  BY <1>6 DEF vars, IInv, TypeInv, Named, InFlight, Held, Searched, Taken,
              Looked, SawFree, SlugsDistinct, NumbersAreUsedInOrder, FailsOnlyInRaces
<1> QED
  BY <1>1, <1>2, <1>3, <1>4, <1>5, <1>6 DEF Next, Serve

-----------------------------------------------------------------------------

(* No two committed businesses have one slug (the unique index of slug       *)
(* together with unique_slug), for any workers, names and interleaving.      *)
THEOREM Distinct == Spec => []SlugsDistinct
<1>1. IInv => SlugsDistinct
  BY DEF IInv
<1> QED
  BY <1>1, Start, Inductive, PTL DEF Spec

(* unique_slug skips no number, whatever the races and failures.             *)
THEOREM InOrder == Spec => []NumbersAreUsedInOrder
<1>1. IInv => NumbersAreUsedInOrder
  BY DEF IInv
<1> QED
  BY <1>1, Start, Inductive, PTL DEF Spec

(* A creation that fits is refused only if a row that was committed after    *)
(* its last look has its slug.                                               *)
THEOREM OnlyRacesFail == Spec => []FailsOnlyInRaces
<1>1. IInv => FailsOnlyInRaces
  BY DEF IInv
<1> QED
  BY <1>1, Start, Inductive, PTL DEF Spec

-----------------------------------------------------------------------------
(* The bounds.  Every number a request has passed over is taken by a row of   *)
(* its own, so that the search is never further than one past the number of    *)
(* rows; rows and requests in flight together are never more than             *)
(* MaxBusinesses.                                                             *)

BoundInv ==
  /\ \A w \in Workers : IF req[w].pc = "idle" THEN req[w] = Idle ELSE req[w].base \in Names
  /\ \A w \in Workers : req[w].seen <= Len(businesses)
  /\ IsFiniteSet(InFlight)
  /\ Len(businesses) + Cardinality(InFlight) <= MaxBusinesses

(* Two numbers under one name make two slugs. *)
LEMMA NumbersDiffer ==
  ASSUME NEW name \in Names, NEW j \in Nat \ {0}, NEW k \in Nat \ {0},
         Slug([base |-> name, suffix |-> j]) = Slug([base |-> name, suffix |-> k])
  PROVE  j = k
<1> DEFINE n == Len(name)
           S == {name[i] : i \in 1..n} \cup Nat
<1>1. n \in Nat /\ name = [i \in 1..n |-> name[i]]
  BY SlugsAssumption
<1>2. name \in Seq(S)
  <2> HIDE DEF n
  <2>1. [i \in 1..n |-> name[i]] \in Seq(S)
    BY <1>1
  <2> QED
    BY <1>1, <2>1
<1> HIDE DEF S, n
<1>a. j \in S /\ k \in S
  BY DEF S
<1>3. /\ Len(Append(name, j)) = Len(name) + 1 /\ Append(name, j)[Len(name) + 1] = j
      /\ Len(Append(name, k)) = Len(name) + 1 /\ Append(name, k)[Len(name) + 1] = k
      /\ Len(name) \in Nat
  BY <1>2, <1>a
<1>4. /\ Slug([base |-> name, suffix |-> j]) = IF j = 1 THEN name ELSE Append(name, j)
      /\ Slug([base |-> name, suffix |-> k]) = IF k = 1 THEN name ELSE Append(name, k)
  BY DEF Slug
<1>5. CASE j = 1 \/ k = 1
  BY <1>3, <1>4, <1>5
<1>6. CASE j # 1 /\ k # 1
  BY <1>3, <1>4, <1>6
<1> QED
  BY <1>5, <1>6

LEMMA UpTo ==
  ASSUME NEW m \in Nat
  PROVE  IsFiniteSet(1..m) /\ Cardinality(1..m) = m
<1>1. 1 \in Int /\ m \in Int
  OBVIOUS
<1>2. /\ IsFiniteSet(1..m)
      /\ Cardinality(1..m) = IF 1 > m THEN 0 ELSE m - 1 + 1
  BY <1>1, FS_Interval
<1> QED
  BY <1>2

(* A request has passed over at most as many numbers as there are rows. *)
LEMMA SearchBounded ==
  ASSUME IInv, BoundInv, NEW w \in Workers
  PROVE  req[w].suffix <= Len(businesses) + 1
<1> DEFINE q == req[w]
           n == Len(businesses)
           passed == 1..(q.suffix - 1)
           Has(j, k) == Slug(businesses[j]) = Slug([base |-> q.base, suffix |-> k])
<1>1. q \in Shape /\ n \in Nat /\ DOMAIN businesses = 1..n
  BY DEF IInv, TypeInv
<1>2. CASE q.pc = "idle"
  BY <1>1, <1>2 DEF BoundInv, Idle
<1>3. CASE q.pc # "idle"
  <2>1. q.base \in Names
    BY <1>3 DEF BoundInv
  <2> DEFINE row == [k \in passed |-> CHOOSE j \in 1..n : Has(j, k)]
  <2>2. \A k \in passed : row[k] \in 1..n /\ Has(row[k], k)
    <3>1. \A k \in passed : \E j \in 1..n : Has(j, k)
      BY <1>1 DEF IInv, Searched
    <3> QED
      BY <3>1
  <2>3. row \in [passed -> 1..n]
    BY <2>2
  <2>4. \A j, k \in passed : row[j] = row[k] => j = k
    <3> SUFFICES ASSUME NEW j \in passed, NEW k \in passed, row[j] = row[k]
                 PROVE  j = k
      OBVIOUS
    <3>1. j \in Nat \ {0} /\ k \in Nat \ {0}
      BY <1>1
    <3>2. Slug([base |-> q.base, suffix |-> j]) = Slug([base |-> q.base, suffix |-> k])
      BY <2>2
    <3> QED
      BY <2>1, <3>1, <3>2, NumbersDiffer
  <2> HIDE DEF row
  <2>5. row \in Injection(passed, 1..n)
    BY <2>3, <2>4 DEF Injection, IsInjective
  <2>6. IsFiniteSet(1..n) /\ Cardinality(1..n) = n
    BY <1>1, UpTo
  <2>7. Cardinality(passed) = q.suffix - 1
    <3> DEFINE m == q.suffix - 1
    <3>1. m \in Nat
      BY <1>1
    <3> HIDE DEF m
    <3>2. Cardinality(1..m) = m
      BY <3>1, UpTo
    <3> QED
      BY <3>2 DEF m
  <2>8. Cardinality(passed) <= n
    BY <2>5, <2>6, FS_Injection
  <2> QED
    BY <1>1, <2>7, <2>8
<1> QED
  BY <1>2, <1>3

LEMMA BoundStart == Init => BoundInv
<1> SUFFICES ASSUME Init PROVE BoundInv
  OBVIOUS
<1>1. InFlight = {}
  BY DEF Init, InFlight, Idle
<1> QED
  BY <1>1, FS_EmptySet, SlugsAssumption DEF Init, BoundInv, Idle

(* A request in flight goes on, or ends. *)
LEMMA BoundStep ==
  ASSUME IInv, BoundInv, NEW w \in InFlight, NEW r \in Shape,
         req' = [req EXCEPT ![w] = r],
         IF r.pc = "idle" THEN r = Idle ELSE r.base \in Names,
         r.seen <= Len(businesses'),
         Len(businesses') \in Nat,
         \/ businesses' = businesses
         \/ /\ r.pc \notin {"look", "insert", "inserted"}
            /\ Len(businesses') = Len(businesses) + 1
  PROVE  BoundInv'
<1>1. /\ w \in Workers /\ Len(businesses) \in Nat /\ MaxBusinesses \in Nat
      /\ \A v \in Workers : req'[v] = IF v = w THEN r ELSE req[v]
      /\ \A v \in Workers : req[v].seen \in Nat
  BY SlugsAssumption DEF InFlight, IInv, TypeInv
<1>2. CASE r.pc \in {"look", "insert", "inserted"}
  <2>1. InFlight' = InFlight
    BY <1>1, <1>2 DEF InFlight
  <2> QED
    BY <1>1, <1>2, <2>1 DEF BoundInv
<1>3. CASE r.pc \notin {"look", "insert", "inserted"}
  <2>1. InFlight' = InFlight \ {w}
    BY <1>1, <1>3 DEF InFlight
  <2>2. /\ IsFiniteSet(InFlight \ {w})
        /\ Cardinality(InFlight \ {w}) = Cardinality(InFlight) - 1
        /\ Cardinality(InFlight) \in Nat
    BY FS_RemoveElement, FS_CardinalityType DEF BoundInv
  <2>3. /\ IsFiniteSet(InFlight')
        /\ Len(businesses') + Cardinality(InFlight') <= MaxBusinesses
    BY <1>1, <2>1, <2>2 DEF BoundInv
  <2> QED
    BY <1>1, <2>3 DEF BoundInv
<1> QED
  BY <1>2, <1>3

LEMMA BoundKeeps == IInv /\ BoundInv /\ [Next]_vars => BoundInv'
<1> SUFFICES ASSUME IInv, BoundInv, [Next]_vars PROVE BoundInv'
  OBVIOUS
<1>1. ASSUME NEW w \in Workers, Post(w) PROVE BoundInv'
  <2>1. PICK name \in Names : req' = [req EXCEPT ![w] = Posted(name)]
    BY <1>1 DEF Post
  <2>2. Posted(name).pc = "look" /\ Posted(name).base = name /\ Posted(name).seen = 0
    BY DEF Posted
  <2>3. /\ \A v \in Workers : req'[v] = IF v = w THEN Posted(name) ELSE req[v]
        /\ businesses' = businesses /\ w \notin InFlight
        /\ Len(businesses) + Cardinality(InFlight) < MaxBusinesses
        /\ Len(businesses) \in Nat /\ MaxBusinesses \in Nat
    BY <1>1, <2>1, SlugsAssumption DEF Post, IInv, TypeInv
  <2>4. InFlight' = InFlight \cup {w}
    BY <2>2, <2>3 DEF InFlight
  <2>5. /\ IsFiniteSet(InFlight \cup {w})
        /\ Cardinality(InFlight \cup {w}) = Cardinality(InFlight) + 1
        /\ Cardinality(InFlight) \in Nat
    BY <2>3, FS_AddElement, FS_CardinalityType DEF BoundInv
  <2>6. /\ IsFiniteSet(InFlight')
        /\ Len(businesses') + Cardinality(InFlight') <= MaxBusinesses
    BY <2>3, <2>4, <2>5
  <2> QED
    BY <2>2, <2>3, <2>6 DEF BoundInv
<1>2. ASSUME NEW w \in Workers, Serve(w) \/ Die(w) PROVE BoundInv'
  <2> DEFINE q == req[w]
             n == Len(businesses)
  <2>1. /\ w \in InFlight /\ q \in Shape /\ q.base \in Names
        /\ q.seen <= n /\ n \in Nat
    BY <1>2 DEF Serve, Look, Insert, Commit, Die, InFlight, IInv, TypeInv, Named, BoundInv
  <2>2. CASE Look(w)
    <3>1. PICK r \in {[q EXCEPT !.pc = "error"], [q EXCEPT !.suffix = q.suffix + 1],
                      [q EXCEPT !.pc = "insert", !.seen = n]} :
            req' = [req EXCEPT ![w] = r]
      BY <2>2 DEF Look
    <3>2. r \in Shape /\ r.pc # "idle" /\ r.base = q.base /\ r.seen <= n
      <4>1. r = [q EXCEPT !.pc = "error"] => r \in Shape /\ r.pc = "error" /\ r.base = q.base /\ r.seen <= n
        BY <2>1
      <4>2. r = [q EXCEPT !.suffix = q.suffix + 1] =>
              r \in Shape /\ r.pc = "look" /\ r.base = q.base /\ r.seen <= n
        BY <2>1, <2>2 DEF Look
      <4>3. r = [q EXCEPT !.pc = "insert", !.seen = n] =>
              r \in Shape /\ r.pc = "insert" /\ r.base = q.base /\ r.seen <= n
        <5> DEFINE p == [q EXCEPT !.pc = "insert", !.seen = n]
        <5>1. p \in Shape
          BY <2>1
        <5>2. p.pc = "insert" /\ p.base = q.base /\ p.seen = n
          BY <2>1
        <5> HIDE DEF p
        <5>3. p.seen <= n
          BY <2>1, <5>2
        <5> QED
          BY <5>1, <5>2, <5>3 DEF p
      <4> QED
        BY <4>1, <4>2, <4>3
    <3>3. businesses' = businesses /\ Len(businesses') \in Nat /\ r.seen <= Len(businesses')
      BY <2>1, <2>2, <3>2 DEF Look
    <3> QED
      BY <2>1, <3>1, <3>2, <3>3, BoundStep
  <2>3. CASE Insert(w)
    <3> DEFINE r == [q EXCEPT !.pc = IF Slug(q) \in Taken THEN "error" ELSE "inserted"]
    <3>1. req' = [req EXCEPT ![w] = r] /\ businesses' = businesses
      BY <2>3 DEF Insert
    <3>2. /\ r \in Shape /\ r.pc # "idle" /\ r.base \in Names
          /\ r.seen <= Len(businesses') /\ Len(businesses') \in Nat
      BY <2>1, <3>1
    <3> HIDE DEF r
    <3> QED
      BY <2>1, <3>1, <3>2, BoundStep
  <2>4. CASE Commit(w)
    <3> DEFINE r == [q EXCEPT !.pc = "created"]
    <3>1. req' = [req EXCEPT ![w] = r] /\ Len(businesses') = n + 1
      BY <2>4 DEF Commit, IInv, TypeInv
    <3>2. /\ r \in Shape /\ r.pc = "created" /\ r.base \in Names
          /\ r.seen <= Len(businesses') /\ Len(businesses') \in Nat
      BY <2>1, <3>1
    <3>3. r.pc \notin {"look", "insert", "inserted"} /\ r.pc # "idle"
      BY <3>2
    <3> HIDE DEF r
    <3> QED
      BY <2>1, <3>1, <3>2, <3>3, BoundStep
  <2>5. CASE Die(w)
    <3>1. req' = [req EXCEPT ![w] = Idle] /\ businesses' = businesses
      BY <2>5 DEF Die
    <3>2. /\ Idle \in Shape /\ Idle.pc = "idle"
          /\ Idle.seen <= Len(businesses') /\ Len(businesses') \in Nat
      BY <2>1, <3>1 DEF Idle
    <3> QED
      BY <2>1, <3>1, <3>2, BoundStep
  <2> QED
    BY <1>2, <2>2, <2>3, <2>4, <2>5 DEF Serve
<1>3. CASE UNCHANGED vars
  <2>1. InFlight' = InFlight
    BY <1>3 DEF InFlight, vars
  <2> QED
    BY <1>3, <2>1 DEF vars, BoundInv
<1> QED
  BY <1>1, <1>2, <1>3 DEF Next

(* The types and the bounds the run checks: however many workers race for     *)
(* slugs of however many names, a search looks at most one number past the     *)
(* number of committed rows.                                                  *)
THEOREM TypeCorrect == Spec => []TypeOK
<1>1. IInv /\ BoundInv => TypeOK
  <2> SUFFICES ASSUME IInv, BoundInv PROVE TypeOK
    OBVIOUS
  <2>1. businesses \in Seq(Row) /\ Len(businesses) \in Nat /\ MaxBusinesses \in Nat
    BY SlugsAssumption DEF IInv, TypeInv
  <2>2. Len(businesses) <= MaxBusinesses
    BY <2>1, FS_CardinalityType DEF BoundInv
  <2>3. ASSUME NEW w \in Workers PROVE req[w] \in Request
    <3>1. req[w] \in Shape /\ req[w].suffix <= Len(businesses) + 1
      BY SearchBounded DEF IInv, TypeInv
    <3>2. req[w].suffix \in 1..(MaxBusinesses + 1) /\ req[w].seen \in 0..MaxBusinesses
      BY <2>1, <2>2, <3>1 DEF BoundInv
    <3> QED
      BY <3>1, <3>2 DEF Request
  <2> QED
    BY <2>1, <2>2, <2>3 DEF TypeOK, IInv, TypeInv
<1> QED
  BY <1>1, Start, Inductive, BoundStart, BoundKeeps, PTL DEF Spec

=============================================================================
