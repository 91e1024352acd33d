------------------------------- MODULE Slugs -------------------------------
(***************************************************************************)
(* The slugs of new businesses.  create_business looks for a free slug with  *)
(* one query per candidate and inserts the business later: the INSERT is     *)
(* flushed by the next query, that of get_system_role, before the try that   *)
(* turns a unique violation into a 409.  Requests run in several workers.    *)
(* A slug is the sequence of what it is joined from: "acme-2" is             *)
(* <<"acme", 2>>, whether unique_slug made it or the name is "Acme 2".       *)
(***************************************************************************)
EXTENDS Naturals, Sequences, FiniteSets

CONSTANTS
  Workers,
  Names,         \* slugify(name) of the names that are posted
  LongNames,     \* those that leave no room for "-2" in 255 characters
  Nameless,      \* no name
  MaxBusinesses  \* bound: how many businesses are created or being created

ASSUME SlugsAssumption ==
  /\ \A name \in Names :      \* a sequence of words and numbers, not empty
       Len(name) \in Nat \ {0} /\ name = [i \in 1..Len(name) |-> name[i]]
  /\ LongNames \subseteq Names
  /\ Nameless \notin Names
  /\ MaxBusinesses \in Nat

VARIABLES
  businesses,  \* the committed rows, in the order of their commits
  req          \* req[w]: the request of worker w, answered or not

vars == <<businesses, req>>

Row == [base : Names, suffix : Nat \ {0}]

Slug(row) == IF row.suffix = 1 THEN row.base ELSE Append(row.base, row.suffix)

(* Business.get and Business() raise for a longer slug. *)
Fits(row) == row.suffix = 1 \/ row.base \notin LongNames

Taken == {Slug(businesses[i]) : i \in DOMAIN businesses}

Request ==
  [pc : {"idle", "look", "insert", "inserted", "created", "error"},
   base : Names \cup {Nameless},
   suffix : 1..(MaxBusinesses + 1),
   seen : 0..MaxBusinesses]     \* how many rows the last look saw

Idle == [pc |-> "idle", base |-> Nameless, suffix |-> 1, seen |-> 0]

Posted(name) == [pc |-> "look", base |-> name, suffix |-> 1, seen |-> 0]

InFlight == {w \in Workers : req[w].pc \in {"look", "insert", "inserted"}}

Init ==
  /\ businesses = <<>>
  /\ req = [w \in Workers |-> Idle]

-----------------------------------------------------------------------------

Post(w) ==
  /\ w \notin InFlight
  /\ Len(businesses) + Cardinality(InFlight) < MaxBusinesses
  /\ \E name \in Names : req' = [req EXCEPT ![w] = Posted(name)]
  /\ UNCHANGED businesses

(* Mutant: the slug is not looked for. *)
LookAtNothing(w) ==
  /\ req[w].pc = "look"
  /\ req' = [req EXCEPT ![w].pc = "insert", ![w].seen = Len(businesses)]
  /\ UNCHANGED businesses

(* Mutant: suffix += 1 is forgotten. *)
LookAgain(w) ==
  /\ req[w].pc = "look"
  /\ Slug(req[w]) \notin Taken
  /\ req' = [req EXCEPT ![w].pc = "insert", ![w].seen = Len(businesses)]
  /\ UNCHANGED businesses

(* Mutant: the suffix is taken from the number of businesses. *)
LookByCount(w) ==
  LET q == req[w] IN
  /\ q.pc = "look"
  /\ req' = [req EXCEPT ![w] =
       IF Slug(q) \notin Taken THEN [q EXCEPT !.pc = "insert", !.seen = Len(businesses)]
                               ELSE [q EXCEPT !.suffix = Len(businesses) + 1]]
  /\ UNCHANGED businesses

(* One iteration of unique_slug: Business.get sees what is committed. *)
Look(w) ==
  LET q == req[w] IN
  /\ q.pc = "look"
  /\ req' = [req EXCEPT ![w] =
       CASE ~Fits(q) -> [q EXCEPT !.pc = "error"]
         [] Fits(q) /\ Slug(q) \in Taken -> [q EXCEPT !.suffix = q.suffix + 1]
         [] OTHER -> [q EXCEPT !.pc = "insert", !.seen = Len(businesses)]]
  /\ UNCHANGED businesses

(* Mutant: slug is declared without unique=True. *)
InsertAnyway(w) ==
  /\ req[w].pc = "insert"
  /\ req' = [req EXCEPT ![w].pc = "inserted"]
  /\ UNCHANGED businesses

(* The INSERT waits for a worker that has inserted the slug and not          *)
(* committed.  A violation leaves create_business as an exception: 500.      *)
Insert(w) ==
  /\ req[w].pc = "insert"
  /\ \A v \in Workers : req[v].pc = "inserted" => Slug(req[v]) # Slug(req[w])
  /\ req' = [req EXCEPT ![w].pc = IF Slug(req[w]) \in Taken THEN "error" ELSE "inserted"]
  /\ UNCHANGED businesses

(* Mutant: the request is reset before its row is made. *)
CommitAfterReset(w) ==
  /\ req[w].pc = "inserted"
  /\ businesses' = Append(businesses, [base |-> Idle.base, suffix |-> Idle.suffix])
  /\ req' = [req EXCEPT ![w].pc = "created"]

(* The membership of the owner is inserted, and all is committed. *)
Commit(w) ==
  /\ req[w].pc = "inserted"
  /\ businesses' = Append(businesses, [base |-> req[w].base, suffix |-> req[w].suffix])
  /\ req' = [req EXCEPT ![w].pc = "created"]

(* The request or its worker fails; its transaction is rolled back. *)
Die(w) ==
  /\ w \in InFlight
  /\ req' = [req EXCEPT ![w] = Idle]
  /\ UNCHANGED businesses

Serve(w) == Look(w) \/ Insert(w) \/ Commit(w)

Next == \E w \in Workers : Post(w) \/ Serve(w) \/ Die(w)

Spec == Init /\ [][Next]_vars

(* A worker goes on with its request, and PostgreSQL wakes the workers that  *)
(* wait for a slug in the order of their arrival.                            *)
FairSpec ==
  Spec /\ \A w \in Workers : WF_vars(Serve(w)) /\ SF_vars(Insert(w))

-----------------------------------------------------------------------------
(* Properties *)

TypeOK ==
  /\ businesses \in Seq(Row)
  /\ Len(businesses) <= MaxBusinesses
  /\ req \in [Workers -> Request]

(* No two businesses get one slug, whatever two requests find free at the    *)
(* same time and however a name looks like the slug of another.              *)
SlugsDistinct ==
  \A i, j \in DOMAIN businesses : i # j => Slug(businesses[i]) # Slug(businesses[j])

(* A slug "acme-3" that unique_slug made has "acme" and "acme-2" before it:  *)
(* no race, failure or likeness of names makes a number be skipped.          *)
NumbersAreUsedInOrder ==
  \A i \in DOMAIN businesses : \A k \in 1..(businesses[i].suffix - 1) :
    \E j \in 1..(i - 1) : Slug(businesses[j]) = Slug([businesses[i] EXCEPT !.suffix = k])

(* A creation that fits fails on its slug only in a race: the row that has   *)
(* it was committed after the query that found the slug free.                *)
FailsOnlyInRaces ==
  \A w \in Workers : req[w].pc = "error" /\ Fits(req[w]) =>
    \E i \in (req[w].seen + 1)..Len(businesses) : Slug(businesses[i]) = Slug(req[w])

(* A request in flight is answered unless a business is created meanwhile:   *)
(* the search passes over the slugs there are, and no two workers wait for   *)
(* one another.  So where finitely many businesses are created every request *)
(* is answered; an endless stream of them, each taking the candidate just    *)
(* before a request looks, may pass it by for ever.                          *)
AnsweredOrOvertaken ==
  \A w \in Workers, n \in 0..MaxBusinesses :
    w \in InFlight /\ Len(businesses) = n ~> w \notin InFlight \/ Len(businesses) > n

=============================================================================
