----------------------------- MODULE WorldProofs -----------------------------
(***************************************************************************)
(* Theorems about World, for any number of players, bots and shots: the    *)
(* lists of the game world stay lists, no pointer outlives what it points  *)
(* to, and a tick calls everything that was there when its walk began and  *)
(* is still there, once.                                                   *)
(*                                                                         *)
(* The links of the lists are only related to their neighbours, so that    *)
(* they could as well be those of a ring.  What excludes rings is that the *)
(* entities can be numbered upwards along the links: an entity that is     *)
(* inserted gets the number 0, and all others one more than they had.      *)
(***************************************************************************)
EXTENDS World, Lemmas

\* What an entity is inserted as: a cell of the pool of characters is nothing
\* else.
CellTypes ==
  /\ \A c \in Clients : type[c] = "character"
  /\ \A e \in Cells : type[e] \in ShotTypes

\* Numbers that grow along the links.
Ranks(rank) ==
  /\ rank \in [Entities -> Nat]
  /\ \A e \in Entities : next[e] # Null => rank[e] < rank[next[e]]

Linked ==
  /\ first \in [TypeNames -> Entities \union {Null}]
  /\ next \in [Entities -> Entities \union {Null}]
  /\ prev \in [Entities -> Entities \union {Null}]
  /\ type \in [Entities -> TypeNames]
  /\ CellTypes
  /\ ListsLinked
  /\ \E rank : Ranks(rank)

\* Where a walk stands and goes on, from the beginning of a reset.
Walks ==
  phase \in {"tick", "remove", "reset"} =>
    /\ ent # Null /\ ~called => ent \in ListOf(Types[walk])
    /\ called /\ trav # Null => trav \in ListOf(Types[walk])

\* What is going on in which part of a tick; who is about to die is not to be
\* hit any more.
Scheduled ==
  /\ called => phase \in {"tick", "input"}
  /\ targets # {} \/ dying # Null => called
  /\ due # {} => phase = "players"
  /\ dying \notin targets

WorldInv == TypeOK /\ Linked /\ NothingDangles /\ Walks /\ Scheduled

-----------------------------------------------------------------------------
(* The lists. *)

\* A cell fits into the list of type t.
Fits(e, t) == (e \in Clients /\ t = "character") \/ (e \in Cells /\ t \in ShotTypes)

LEMMA NullIsNoEntity == Null \notin Entities /\ Clients \intersect Cells = {}
                        /\ Clients \subseteq Entities /\ Cells \subseteq Entities
  BY WorldAssumption DEF Entities

LEMMA TypesOfWalks == \A w \in 1 .. Last : Types[w] \in TypeNames
  BY DEF Last, Types, TypeNames, ShotTypes

\* No link leads from an entity to itself.
LEMMA NoSelfLink ==
  ASSUME Linked
  PROVE  \A e \in Entities : next[e] # e /\ prev[e] # e
<1>1. PICK rank : Ranks(rank)
  BY DEF Linked
<1>2. ASSUME NEW e \in Entities PROVE next[e] # e
  <2>1. rank[e] \in Nat /\ (next[e] # Null => rank[e] < rank[next[e]])
    BY <1>1 DEF Ranks
  <2>. QED  BY <2>1, NullIsNoEntity
<1>. QED  BY <1>2, NullIsNoEntity DEF Linked, ListsLinked

\* Inserting keeps the lists and what is in them; only the entity that was
\* first gets another one before it.
LEMMA InsertLinked ==
  ASSUME Linked, NEW e \in Entities, ~InList(e), NEW t, Fits(e, t), Insert(e, t)
  PROVE  /\ Linked'
         /\ InList(e)' /\ type'[e] = t
         /\ \A f \in Entities \ {e} :
              /\ InList(f)' <=> InList(f)
              /\ type'[f] = type[f] /\ next'[f] = next[f]
              /\ prev'[f] = prev[f] \/ prev[f] = Null
<1>. USE NullIsNoEntity
<1>t. t \in TypeNames
  BY DEF Fits, TypeNames
<1>1. /\ first \in [TypeNames -> Entities \union {Null}]
      /\ next \in [Entities -> Entities \union {Null}]
      /\ prev \in [Entities -> Entities \union {Null}]
      /\ type \in [Entities -> TypeNames]
  BY DEF Linked
<1>2. /\ first' = [first EXCEPT ![t] = e]
      /\ next' = [next EXCEPT ![e] = first[t]]
      /\ prev' = [f \in Entities |-> IF f = first[t] THEN e
                                     ELSE IF f = e THEN Null ELSE prev[f]]
      /\ type' = [type EXCEPT ![e] = t]
  BY DEF Insert
<1>3. /\ first' \in [TypeNames -> Entities \union {Null}]
      /\ next' \in [Entities -> Entities \union {Null}]
      /\ prev' \in [Entities -> Entities \union {Null}]
      /\ type' \in [Entities -> TypeNames]
  BY <1>t, <1>1, <1>2
<1>4. CellTypes'
  BY <1>1, <1>2 DEF Linked, CellTypes, Fits
<1>5. /\ next[e] = Null /\ prev[e] = Null
      /\ \A s \in TypeNames : first[s] # e
      /\ \A f \in Entities : next[f] # e /\ prev[f] # e
  BY <1>1 DEF Linked, ListsLinked, InList
<1>6. /\ first'[t] = e /\ \A s \in TypeNames \ {t} : first'[s] = first[s]
      /\ next'[e] = first[t] /\ \A f \in Entities \ {e} : next'[f] = next[f]
      /\ prev'[e] = Null
      /\ \A f \in Entities \ {e} : prev'[f] = IF f = first[t] THEN e ELSE prev[f]
      /\ type'[e] = t /\ \A f \in Entities \ {e} : type'[f] = type[f]
  BY <1>t, <1>1, <1>2, <1>5
<1>7. first[t] # Null => prev[first[t]] = Null /\ type[first[t]] = t
  BY <1>t DEF Linked, ListsLinked
<1>8. ASSUME NEW f \in Entities \ {e}
      PROVE  /\ InList(f)' <=> InList(f)
             /\ prev'[f] = prev[f] \/ prev[f] = Null
  <2>1. type[f] \in TypeNames
    BY <1>1
  <2>. QED  BY <2>1, <1>1, <1>5, <1>6, <1>7, <1>t DEF InList
<1>9. ListsLinked'
  <2>1. ASSUME NEW s \in TypeNames, first'[s] # Null
        PROVE  prev'[first'[s]] = Null /\ type'[first'[s]] = s
    <3>1. CASE s = t
      BY <3>1, <1>6
    <3>2. CASE s # t
      <4>1. /\ first'[s] = first[s] /\ first[s] \in Entities \ {e}
            /\ prev[first[s]] = Null /\ type[first[s]] = s
        BY <2>1, <3>2, <1>1, <1>5, <1>6 DEF Linked, ListsLinked
      <4>2. first[s] # first[t]
        BY <4>1, <1>7, <3>2
      <4>. QED  BY <4>1, <4>2, <1>6
    <3>. QED  BY <3>1, <3>2
  <2>2. ASSUME NEW f \in Entities
        PROVE  /\ next'[f] # Null => prev'[next'[f]] = f /\ type'[next'[f]] = type'[f]
               /\ prev'[f] # Null => next'[prev'[f]] = f /\ type'[prev'[f]] = type'[f]
               /\ InList(f)' /\ prev'[f] = Null => first'[type'[f]] = f
    <3>1. CASE f = e
      BY <3>1, <1>t, <1>1, <1>5, <1>6, <1>7
    <3>2. CASE f # e
      <4>1. /\ next[f] # Null => prev[next[f]] = f /\ type[next[f]] = type[f]
            /\ prev[f] # Null => next[prev[f]] = f /\ type[prev[f]] = type[f]
            /\ InList(f) /\ prev[f] = Null => first[type[f]] = f
            /\ type[f] \in TypeNames
        BY <1>1 DEF Linked, ListsLinked
      <4>2. next'[f] # Null => prev'[next'[f]] = f /\ type'[next'[f]] = type'[f]
        BY <4>1, <3>2, <1>1, <1>5, <1>6, <1>7
      <4>3. prev'[f] # Null => next'[prev'[f]] = f /\ type'[prev'[f]] = type'[f]
        BY <4>1, <3>2, <1>1, <1>5, <1>6, <1>7
      <4>4. InList(f)' /\ prev'[f] = Null => first'[type'[f]] = f
        BY <4>1, <3>2, <1>8, <1>1, <1>5, <1>6, <1>7
      <4>. QED  BY <4>2, <4>3, <4>4
    <3>. QED  BY <3>1, <3>2
  <2>. QED  BY <2>1, <2>2 DEF ListsLinked
<1>10. (\E rank : Ranks(rank))'
  <2>1. PICK rank : Ranks(rank)
    BY DEF Linked
  <2>. DEFINE above == [f \in Entities |-> IF f = e THEN 0 ELSE rank[f] + 1]
  <2>2. above \in [Entities -> Nat]
    BY <2>1 DEF Ranks
  <2>3. ASSUME NEW f \in Entities, next'[f] # Null
        PROVE  above[f] < above[next'[f]]
    <3>1. next'[f] \in Entities \ {e} /\ rank[f] \in Nat /\ rank[next'[f]] \in Nat
      BY <2>1, <2>3, <1>1, <1>3, <1>5, <1>6 DEF Ranks
    <3>2. CASE f = e
      BY <3>1, <3>2
    <3>3. CASE f # e
      BY <3>1, <3>3, <2>1, <2>3, <1>6 DEF Ranks
    <3>. QED  BY <3>2, <3>3
  <2>. HIDE DEF above
  <2>4. Ranks(above)'
    BY <2>2, <2>3 DEF Ranks
  <2>. QED  BY <2>4
<1>11. InList(e)'
  BY <1>6 DEF InList
<1>. QED  BY <1>3, <1>4, <1>6, <1>8, <1>9, <1>10, <1>11 DEF Linked

\* RemoveEntity closes the list behind what it takes out, and does nothing to
\* what is in no list; a walk that was to go on with what is taken out goes on
\* with what follows it.
LEMMA RemoveLinked ==
  ASSUME Linked, NEW e \in Entities, NEW n \in Entities \union {Null}, RemoveEntity(e, n)
  PROVE  /\ Linked'
         /\ type' = type /\ next' = NextWithout(e) /\ prev' = PrevWithout(e)
         /\ ~InList(e)'
         /\ \A f \in Entities \ {e} : InList(f)' <=> InList(f)
         /\ trav' = Advance(e, n) \/ (~InList(e) /\ trav' = n)
         /\ trav' \in Entities \union {Null}
<1>. USE NullIsNoEntity, NoSelfLink
<1>1. /\ first \in [TypeNames -> Entities \union {Null}]
      /\ next \in [Entities -> Entities \union {Null}]
      /\ prev \in [Entities -> Entities \union {Null}]
      /\ type \in [Entities -> TypeNames]
  BY DEF Linked
<1>2. /\ type' = type
      /\ trav' = Advance(e, n) \/ (~InList(e) /\ trav' = n)
      /\ trav' \in Entities \union {Null}
  BY <1>1 DEF RemoveEntity, Advance
<1>3. /\ \A f \in Entities : next[f] # Null => prev[next[f]] = f /\ type[next[f]] = type[f]
      /\ \A f \in Entities : prev[f] # Null => next[prev[f]] = f /\ type[prev[f]] = type[f]
      /\ \A f \in Entities : InList(f) /\ prev[f] = Null => first[type[f]] = f
      /\ \A s \in TypeNames : first[s] # Null => prev[first[s]] = Null /\ type[first[s]] = s
  BY DEF Linked, ListsLinked
<1>4. next' = NextWithout(e) /\ prev' = PrevWithout(e)
  <2>1. CASE InList(e)
    BY <2>1 DEF RemoveEntity, Unlink
  <2>2. CASE ~InList(e)
    <3>1. /\ next[e] = Null /\ prev[e] = Null
          /\ next' = next /\ prev' = prev
      BY <2>2 DEF RemoveEntity, InList
    <3>2. next = NextWithout(e)
      BY <3>1, <1>1 DEF NextWithout
    <3>3. prev = PrevWithout(e)
      BY <3>1, <1>1 DEF PrevWithout
    <3>. QED  BY <3>1, <3>2, <3>3
  <2>. QED  BY <2>1, <2>2
<1>5. /\ next'[e] = Null /\ prev'[e] = Null
      /\ \A f \in Entities \ {e} : next'[f] = IF f = prev[e] THEN next[e] ELSE next[f]
      /\ \A f \in Entities \ {e} : prev'[f] = IF f = next[e] THEN prev[e] ELSE prev[f]
  BY <1>4 DEF NextWithout, PrevWithout
<1>6. /\ first' \in [TypeNames -> Entities \union {Null}]
      /\ \A s \in TypeNames :
           first'[s] = IF first[s] = e THEN next[e] ELSE first[s]
  <2>1. CASE InList(e) /\ prev[e] = Null
    <3>1. /\ first' = [first EXCEPT ![type[e]] = next[e]]
          /\ first[type[e]] = e /\ type[e] \in TypeNames
      BY <2>1, <1>1, <1>3 DEF RemoveEntity, Unlink
    <3>. QED  BY <3>1, <1>1, <1>3
  <2>2. CASE InList(e) /\ prev[e] # Null
    BY <2>2, <1>1, <1>3 DEF RemoveEntity, Unlink
  <2>3. CASE ~InList(e)
    <3>1. first' = first /\ \A s \in TypeNames : first[s] # e
      BY <2>3, <1>1, <1>3 DEF RemoveEntity, InList
    <3>. QED  BY <3>1, <1>1
  <2>. QED  BY <2>1, <2>2, <2>3
<1>7. next' \in [Entities -> Entities \union {Null}] /\ prev' \in [Entities -> Entities \union {Null}]
  BY <1>1, <1>4 DEF NextWithout, PrevWithout
<1>8. \A f \in Entities \ {e} : InList(f)' <=> InList(f)
  <2>. SUFFICES ASSUME NEW f \in Entities \ {e} PROVE InList(f)' <=> InList(f)
    OBVIOUS
  <2>1. type[f] \in TypeNames /\ type[e] \in TypeNames
    BY <1>1
  <2>2. ASSUME InList(f) PROVE InList(f)'
    <3>1. CASE prev[f] # Null /\ prev[f] # e
      <4>1. f # next[e]
        BY <3>1, <1>3
      <4>. QED  BY <3>1, <4>1, <1>5 DEF InList
    <3>2. CASE prev[f] = e
      <4>1. f = next[e] /\ prev'[f] = prev[e] /\ type[f] = type[e]
        BY <3>2, <1>3, <1>5
      <4>2. CASE prev[e] # Null
        BY <4>1, <4>2 DEF InList
      <4>3. CASE prev[e] = Null
        <5>1. first[type[e]] = e
          BY <4>1, <4>3, <1>3 DEF InList
        <5>2. first'[type[f]] = f
          BY <4>1, <5>1, <2>1, <1>6
        <5>. QED  BY <5>2, <1>2 DEF InList
      <4>. QED  BY <4>2, <4>3
    <3>3. CASE prev[f] = Null
      <4>1. first[type[f]] = f /\ first'[type[f]] = f
        BY <2>2, <3>3, <2>1, <1>3, <1>6
      <4>. QED  BY <4>1, <1>2 DEF InList
    <3>. QED  BY <3>1, <3>2, <3>3
  <2>3. ASSUME InList(f)' PROVE InList(f)
    <3>1. CASE next'[f] # Null
      BY <3>1, <1>3, <1>5 DEF InList
    <3>2. CASE prev'[f] # Null
      BY <3>2, <1>3, <1>5 DEF InList
    <3>3. CASE first'[type[f]] = f
      BY <3>3, <2>1, <1>3, <1>6 DEF InList
    <3>. QED  BY <2>3, <3>1, <3>2, <3>3, <1>2 DEF InList
  <2>. QED  BY <2>2, <2>3
<1>9. ~InList(e)'
  <2>1. first'[type[e]] # e
    BY <1>1, <1>6
  <2>. QED  BY <2>1, <1>2, <1>5 DEF InList
<1>10. ListsLinked'
  <2>1. ASSUME NEW s \in TypeNames, first'[s] # Null
        PROVE  prev'[first'[s]] = Null /\ type'[first'[s]] = s
    <3>1. first[s] # Null /\ prev[first[s]] = Null /\ type[first[s]] = s /\ first[s] \in Entities
      BY <2>1, <1>1, <1>3, <1>6
    <3>2. CASE first[s] = e
      BY <3>1, <3>2, <2>1, <1>1, <1>2, <1>3, <1>5, <1>6
    <3>3. CASE first[s] # e
      <4>1. first'[s] = first[s]
        BY <3>3, <1>6
      <4>2. first[s] # next[e]
        BY <3>1, <1>3
      <4>. QED  BY <4>1, <4>2, <3>1, <3>3, <1>2, <1>5
    <3>. QED  BY <3>2, <3>3
  <2>2. ASSUME NEW f \in Entities, next'[f] # Null
        PROVE  prev'[next'[f]] = f /\ type'[next'[f]] = type'[f]
    <3>1. f # e
      BY <2>2, <1>5
    <3>2. CASE f = prev[e]
      BY <3>1, <3>2, <2>2, <1>1, <1>2, <1>3, <1>5
    <3>3. CASE f # prev[e]
      <4>1. next'[f] = next[f] /\ next[f] \in Entities /\ next[f] # e /\ next[f] # next[e]
        BY <3>1, <3>3, <2>2, <1>1, <1>3, <1>5
      <4>. QED  BY <4>1, <1>2, <1>3, <1>5
    <3>. QED  BY <3>2, <3>3
  <2>3. ASSUME NEW f \in Entities, prev'[f] # Null
        PROVE  next'[prev'[f]] = f /\ type'[prev'[f]] = type'[f]
    <3>1. f # e
      BY <2>3, <1>5
    <3>2. CASE f = next[e]
      BY <3>1, <3>2, <2>3, <1>1, <1>2, <1>3, <1>5
    <3>3. CASE f # next[e]
      <4>1. prev'[f] = prev[f] /\ prev[f] \in Entities /\ prev[f] # e /\ prev[f] # prev[e]
        BY <3>1, <3>3, <2>3, <1>1, <1>3, <1>5
      <4>. QED  BY <4>1, <1>2, <1>3, <1>5
    <3>. QED  BY <3>2, <3>3
  <2>4. ASSUME NEW f \in Entities, InList(f)', prev'[f] = Null
        PROVE  first'[type'[f]] = f
    <3>1. f # e /\ InList(f) /\ type'[f] = type[f] /\ type[f] \in TypeNames
      BY <2>4, <1>1, <1>2, <1>8, <1>9
    <3>2. CASE f = next[e]
      <4>1. prev[e] = Null /\ type[f] = type[e] /\ InList(e)
        BY <3>1, <3>2, <2>4, <1>3, <1>5 DEF InList
      <4>. QED  BY <4>1, <3>1, <3>2, <1>3, <1>6
    <3>3. CASE f # next[e]
      BY <3>1, <3>3, <2>4, <1>3, <1>5, <1>6
    <3>. QED  BY <3>2, <3>3
  <2>. QED  BY <2>1, <2>2, <2>3, <2>4 DEF ListsLinked
<1>11. (\E rank : Ranks(rank))'
  <2>1. PICK rank : Ranks(rank)
    BY DEF Linked
  <2>2. ASSUME NEW f \in Entities, next'[f] # Null
        PROVE  rank[f] < rank[next'[f]]
    <3>1. f # e /\ rank \in [Entities -> Nat] /\ next'[f] \in Entities
      BY <2>1, <2>2, <1>5, <1>7 DEF Ranks
    <3>2. CASE f = prev[e]
      <4>1. next[f] = e /\ next'[f] = next[e]
        BY <3>1, <3>2, <1>1, <1>3, <1>5
      <4>2. rank[f] < rank[e] /\ rank[e] < rank[next[e]]
        BY <2>1, <2>2, <4>1 DEF Ranks
      <4>. QED  BY <3>1, <4>1, <4>2
    <3>3. CASE f # prev[e]
      BY <3>1, <3>3, <2>1, <2>2, <1>5 DEF Ranks
    <3>. QED  BY <3>2, <3>3
  <2>3. Ranks(rank)'
    BY <2>1, <2>2 DEF Ranks
  <2>. QED  BY <2>3
<1>12. CellTypes'
  BY <1>2 DEF Linked, CellTypes
<1>. QED  BY <1>1, <1>2, <1>4, <1>6, <1>7, <1>8, <1>9, <1>10, <1>11, <1>12 DEF Linked

LEMMA ListsKept ==
  ASSUME Linked, UNCHANGED lists
  PROVE  /\ Linked' /\ live' = live
         /\ \A e \in Entities : (InList(e)' <=> InList(e)) /\ type'[e] = type[e]
         /\ next' = next /\ prev' = prev
<1>1. /\ first' = first /\ next' = next /\ prev' = prev /\ type' = type /\ live' = live
  BY DEF lists
<1>2. (\E rank : Ranks(rank))'
  BY <1>1 DEF Linked, Ranks
<1>. QED  BY <1>1, <1>2 DEF Linked, CellTypes, ListsLinked, InList

\* What follows an entity of a list is in the same list.
LEMMA NextInList ==
  ASSUME Linked, NEW e \in Entities, NEW t, e \in ListOf(t), next[e] # Null
  PROVE  next[e] \in ListOf(t) /\ next[e] # e
<1>1. /\ next[e] \in Entities /\ prev[next[e]] = e /\ type[next[e]] = type[e]
  BY DEF Linked, ListsLinked
<1>. QED  BY <1>1, NullIsNoEntity, NoSelfLink DEF ListOf, InList

\* A walk that would go on with an entity of its list still does so after a
\* removal, of the entity itself as well.
LEMMA AdvanceStays ==
  ASSUME Linked, NEW e \in Entities, NEW n \in Entities \union {Null}, RemoveEntity(e, n),
         NEW t, n # Null => n \in ListOf(t)
  PROVE  trav' # Null => trav' \in ListOf(t)'
<1>1. SUFFICES ASSUME trav' # Null PROVE trav' \in ListOf(t)'
  OBVIOUS
<1>2. /\ type' = type
      /\ \A f \in Entities \ {e} : InList(f)' <=> InList(f)
      /\ trav' = Advance(e, n) \/ (~InList(e) /\ trav' = n)
  BY RemoveLinked
<1>3. CASE n = e
  <2>1. n # Null /\ InList(e)
    BY <1>3, NullIsNoEntity DEF ListOf
  <2>2. trav' = next[e] /\ e \in ListOf(t)
    BY <1>2, <1>3, <2>1 DEF Advance
  <2>3. next[e] \in ListOf(t) /\ next[e] # e
    BY <1>1, <2>2, NextInList
  <2>. QED  BY <1>2, <2>2, <2>3 DEF ListOf
<1>4. CASE n # e
  <2>1. trav' = n
    BY <1>2, <1>4 DEF Advance
  <2>. QED  BY <1>1, <1>2, <1>4, <2>1 DEF ListOf
<1>. QED  BY <1>3, <1>4

-----------------------------------------------------------------------------
(* What the steps do to the lists, seen from what exists. *)

\* The lists have all they had, and maybe one shot more.
Grown ==
  /\ Linked'
  /\ live \subseteq live' /\ live' \subseteq live \union Cells
  /\ \A e \in Entities : InList(e) => InList(e)' /\ type'[e] = type[e] /\ next'[e] = next[e]
  /\ \A e \in Entities : InList(e)' /\ ~InList(e) => e \in Cells /\ e \in live' \ live
  /\ \A e \in live' \ live : InList(e)'
  /\ \A e \in Entities : prev'[e] = prev[e] \/ prev[e] = Null

LEMMA ListedExist ==
  ASSUME WorldInv
  PROVE  /\ ListOf("character") \subseteq char
         /\ \A t \in ShotTypes : ListOf(t) \subseteq live \intersect Cells
  BY NullIsNoEntity DEF WorldInv, Linked, CellTypes, NothingDangles, ListOf, Entities, ShotTypes

LEMMA ShotInserted ==
  ASSUME WorldInv, NEW e \in Cells \ live, NEW t \in ShotTypes, Insert(e, t)
  PROVE  Grown
<1>1. ~InList(e) /\ e \in Entities /\ Fits(e, t) /\ Linked
  BY NullIsNoEntity DEF WorldInv, NothingDangles, Fits
<1>2. live' = live \union {e}
  BY DEF Insert
<1>3. /\ Linked' /\ InList(e)'
      /\ \A f \in Entities \ {e} :
           /\ InList(f)' <=> InList(f)
           /\ type'[f] = type[f] /\ next'[f] = next[f]
           /\ prev'[f] = prev[f] \/ prev[f] = Null
  BY <1>1, InsertLinked
<1>4. prev[e] = Null
  BY <1>1 DEF InList
<1>. QED  BY <1>1, <1>2, <1>3, <1>4 DEF Grown

LEMMA NothingInserted ==
  ASSUME WorldInv, UNCHANGED lists
  PROVE  Grown
  BY ListsKept DEF WorldInv, Grown

\* What a character that fires does: what it may hit exists.
LEMMA FiresGrows ==
  ASSUME WorldInv, NEW c \in Clients, Fires(c)
  PROVE  Grown /\ targets' \subseteq char
<1>1. CASE HammerFires(c)
  BY <1>1, NothingInserted, ListedExist DEF HammerFires
<1>2. CASE ProjectileFired
  <2>1. PICK e \in Cells \ live : Insert(e, "projectile") /\ targets' = {}
    BY <1>2 DEF ProjectileFired
  <2>. QED  BY <2>1, ShotInserted DEF ShotTypes
<1>3. CASE LaserFired(c)
  <2>1. PICK e \in Cells \ live :
          /\ Insert(e, "laser")
          /\ targets' \in {{}} \union {{h} : h \in ListOf("character") \ {c}}
    BY <1>3 DEF LaserFired
  <2>2. Grown
    BY <2>1, ShotInserted DEF ShotTypes
  <2>. QED  BY <2>1, <2>2, ListedExist
<1>. QED  BY <1>1, <1>2, <1>3 DEF Fires

\* What a shot does when it is called.
LEMMA ShotGrows ==
  ASSUME WorldInv, NEW e \in Cells, ShotTick(e)
  PROVE  Grown /\ targets' \subseteq char /\ marked' \subseteq marked \union {e}
<1>1. Grown
  BY NothingInserted DEF ShotTick
<1>2. type[e] \in ShotTypes
  BY DEF WorldInv, Linked, CellTypes
<1>3. CASE type[e] = "projectile"
  BY <1>1, <1>3, ListedExist DEF ShotTick, ProjectileTick
<1>4. CASE type[e] = "laser"
  BY <1>1, <1>4, ListedExist DEF ShotTick, LaserTick
<1>5. CASE type[e] = "pickup"
  BY <1>1, <1>5 DEF ShotTick, PickupTick
<1>. QED  BY <1>2, <1>3, <1>4, <1>5 DEF ShotTypes

-----------------------------------------------------------------------------
(* The steps, those that leave the lists alone first. *)

LEMMA WorldInit == Init => WorldInv
<1>. SUFFICES ASSUME Init PROVE WorldInv
  OBVIOUS
<1>1. TypeOK
  <2>1. type \in [Entities -> TypeNames]
    BY DEF Init, TypeNames, ShotTypes
  <2>2. 1 \in 1 .. Last
    BY DEF Last
  <2>3. /\ first \in [TypeNames -> Entities \union {Null}]
        /\ next \in [Entities -> Entities \union {Null}]
        /\ prev \in [Entities -> Entities \union {Null}]
    BY DEF Init
  <2>. QED  BY <2>1, <2>2, <2>3 DEF Init, TypeOK
<1>2. \A e \in Entities : ~InList(e)
  BY <1>1, NullIsNoEntity DEF Init, InList, TypeOK
<1>3. Linked
  <2>1. Ranks([e \in Entities |-> 0])
    BY DEF Init, Ranks
  <2>2. CellTypes
    BY NullIsNoEntity DEF Init, CellTypes, ShotTypes
  <2>. QED  BY <1>1, <1>2, <2>1, <2>2 DEF Init, Linked, ListsLinked, TypeOK
<1>. QED  BY <1>1, <1>2, <1>3 DEF Init, WorldInv, NothingDangles, Walks, Scheduled

\* A step that leaves the lists and the characters alone.
LEMMA QuietStep ==
  ASSUME WorldInv, UNCHANGED <<lists, alive, core, char>>, TypeOK', Walks', Scheduled',
         player \subseteq player', due' \subseteq player', targets' \subseteq char,
         dying' # Null => dying' \in char, marked' \subseteq live \intersect Cells
  PROVE  WorldInv'
<1>1. /\ Linked' /\ live' = live
      /\ \A e \in Entities : InList(e)' <=> InList(e)
  BY ListsKept DEF WorldInv
<1>2. NothingDangles'
  <2>1. char \subseteq Entities /\ Cells \subseteq Entities
    BY NullIsNoEntity DEF WorldInv, TypeOK
  <2>. QED  BY <1>1, <2>1 DEF WorldInv, NothingDangles
<1>. QED  BY <1>1, <1>2 DEF WorldInv

LEMMA ListsOfKept ==
  ASSUME Linked, UNCHANGED lists
  PROVE  \A t : ListOf(t)' = ListOf(t)
  BY ListsKept DEF ListOf

\* The walk of the next list begins at its head.
LEMMA EnterStep ==
  ASSUME WorldInv, NEW w \in 1 .. Last, Enter(w), UNCHANGED lists
  PROVE  /\ ent' # Null => ent' \in ListOf(Types[walk])'
         /\ ent' \in Entities \union {Null} /\ walk' = w
         /\ started' \subseteq Entities /\ ticked' = {} /\ started' = ListOf(Types[w])
<1>1. Types[w] \in TypeNames /\ Linked /\ walk' = w
  BY TypesOfWalks DEF Enter, WorldInv
<1>2. first[Types[w]] # Null =>
        first[Types[w]] \in Entities /\ type[first[Types[w]]] = Types[w]
  BY <1>1 DEF Linked, ListsLinked
<1>3. first[Types[w]] # Null => first[Types[w]] \in ListOf(Types[w])
  BY <1>1, <1>2 DEF ListOf, InList
<1>4. /\ ent' = first[Types[w]] /\ started' = ListOf(Types[w]) /\ ticked' = {}
      /\ ListOf(Types[w])' = ListOf(Types[w])
  BY <1>1, ListsOfKept DEF Enter
<1>5. ListOf(Types[w]) \subseteq Entities
  BY DEF ListOf
<1>. QED  BY <1>1, <1>2, <1>3, <1>4, <1>5

\* What changes neither the lists nor who has a character.
LEMMA QuietSteps ==
  ASSUME WorldInv,
         \/ \E c \in Humans : Connect(c)
         \/ TogglePause \/ StartRound \/ BotDataRead \/ BeginTick \/ InputDone
         \/ \E c \in Clients : Hit(c)
         \/ WorldTick \/ LeaveLayer \/ Return \/ NextList \/ WalkDone \/ EndTick
  PROVE  WorldInv'
<1>. USE NullIsNoEntity
<1>0. TypeOK /\ Walks /\ Scheduled /\ Linked /\ NothingDangles
  BY DEF WorldInv
<1>a. UNCHANGED lists => \A t : ListOf(t)' = ListOf(t)
  BY <1>0, ListsOfKept
<1>1. ASSUME NEW c \in Humans, Connect(c) PROVE WorldInv'
  <2>1. TypeOK'
    BY <1>0, <1>1 DEF Connect, TypeOK, lists, flags, walker, Clients
  <2>2. Walks' /\ Scheduled'
    BY <1>0, <1>1, <1>a DEF Connect, Idle, Walks, Scheduled, flags, walker
  <2>. QED  BY <1>0, <1>1, <2>1, <2>2, QuietStep DEF Connect, walker, NothingDangles
<1>2. CASE TogglePause \/ StartRound \/ BotDataRead
  <2>1. TypeOK'
    BY <1>0, <1>2 DEF TogglePause, StartRound, BotDataRead, TypeOK, lists, people, walker
  <2>2. Walks' /\ Scheduled'
    BY <1>0, <1>2, <1>a DEF TogglePause, StartRound, BotDataRead, Walks, Scheduled, walker
  <2>. QED  BY <1>0, <1>2, <2>1, <2>2, QuietStep
            DEF TogglePause, StartRound, BotDataRead, people, walker, NothingDangles
<1>3. CASE BeginTick
  <2>1. TypeOK'
    BY <1>0, <1>3 DEF BeginTick, TypeOK, lists, people, flags
  <2>2. Walks' /\ Scheduled'
    BY <1>0, <1>3 DEF BeginTick, Idle, Walks, Scheduled
  <2>. QED  BY <1>0, <1>3, <2>1, <2>2, QuietStep DEF BeginTick, people, NothingDangles
<1>4. CASE InputDone
  <2>1. TypeOK'
    BY <1>0, <1>4 DEF InputDone, TypeOK, lists, people, flags
  <2>2. Walks' /\ Scheduled'
    BY <1>0, <1>4 DEF InputDone, Walks, Scheduled
  <2>. QED  BY <1>0, <1>4, <2>1, <2>2, QuietStep DEF InputDone, people, NothingDangles
<1>5. ASSUME NEW c \in Clients, Hit(c) PROVE WorldInv'
  <2>1. TypeOK'
    BY <1>0, <1>5 DEF Hit, TypeOK, lists, people, flags
  <2>2. Walks' /\ Scheduled'
    BY <1>0, <1>5, <1>a DEF Hit, Walks, Scheduled
  <2>. QED  BY <1>0, <1>5, <2>1, <2>2, QuietStep DEF Hit, people, NothingDangles
<1>6. CASE WorldTick
  <2>1. 1 \in 1 .. Last
    BY DEF Last
  <2>2. /\ ent' # Null => ent' \in ListOf(Types[walk])'
        /\ ent' \in Entities \union {Null} /\ walk' = 1
        /\ started' \subseteq Entities /\ ticked' = {}
    BY <1>6, <2>1, EnterStep DEF WorldTick
  <2>3. TypeOK'
    BY <1>0, <1>6, <2>1, <2>2 DEF WorldTick, TypeOK, lists, people, flags
  <2>4. Walks' /\ Scheduled'
    <3>1. Walks'
      BY <1>0, <1>6, <2>2 DEF WorldTick, Walks, Scheduled
    <3>2. Scheduled'
      BY <1>0, <1>6 DEF WorldTick, Scheduled
    <3>. QED  BY <3>1, <3>2
  <2>. QED  BY <1>0, <1>6, <2>3, <2>4, QuietStep DEF WorldTick, people, NothingDangles
<1>7. CASE LeaveLayer
  <2>1. TypeOK'
    BY <1>0, <1>7 DEF LeaveLayer, TypeOK, lists, people, flags
  <2>2. Walks' /\ Scheduled'
    BY <1>0, <1>7, <1>a DEF LeaveLayer, Walks, Scheduled
  <2>. QED  BY <1>0, <1>7, <2>1, <2>2, QuietStep DEF LeaveLayer, people, NothingDangles
<1>8. CASE Return
  <2>1. TypeOK'
    BY <1>0, <1>8 DEF Return, Onward, TypeOK, lists, people, flags
  <2>2. Walks' /\ Scheduled'
    BY <1>0, <1>8, <1>a DEF Return, Onward, Walks, Scheduled
  <2>. QED  BY <1>0, <1>8, <2>1, <2>2, QuietStep DEF Return, people, NothingDangles
<1>9. CASE NextList
  <2>1. walk + 1 \in 1 .. Last
    BY <1>0, <1>9 DEF NextList, TypeOK, Last
  <2>2. /\ ent' # Null => ent' \in ListOf(Types[walk])'
        /\ ent' \in Entities \union {Null} /\ walk' = walk + 1
        /\ started' \subseteq Entities /\ ticked' = {}
    BY <1>9, <2>1, EnterStep DEF NextList
  <2>3. TypeOK'
    BY <1>0, <1>9, <2>1, <2>2 DEF NextList, TypeOK, lists, people, flags
  <2>4. Walks' /\ Scheduled'
    <3>1. Walks'
      BY <1>0, <1>9, <2>2 DEF NextList, Walks, Scheduled
    <3>2. Scheduled'
      BY <1>0, <1>9 DEF NextList, Scheduled
    <3>. QED  BY <3>1, <3>2
  <2>. QED  BY <1>0, <1>9, <2>3, <2>4, QuietStep DEF NextList, people, NothingDangles
<1>10. CASE WalkDone
  <2>1. 1 \in 1 .. Last
    BY DEF Last
  <2>2. /\ ent' # Null => ent' \in ListOf(Types[walk])'
        /\ ent' \in Entities \union {Null} /\ walk' = 1
        /\ started' \subseteq Entities /\ ticked' = {}
    BY <1>10, <2>1, EnterStep DEF WalkDone
  <2>3. TypeOK'
    BY <1>0, <1>10, <2>1, <2>2 DEF WalkDone, TypeOK, lists, people
  <2>4. Walks' /\ Scheduled'
    <3>1. Walks'
      BY <1>0, <1>10, <2>2 DEF WalkDone, Walks, Scheduled
    <3>2. Scheduled'
      BY <1>0, <1>10 DEF WalkDone, Scheduled
    <3>. QED  BY <3>1, <3>2
  <2>. QED  BY <1>0, <1>10, <2>3, <2>4, QuietStep DEF WalkDone, people, NothingDangles
<1>11. CASE EndTick
  <2>1. TypeOK'
    BY <1>0, <1>11 DEF EndTick, TypeOK, lists, people, flags
  <2>2. Walks' /\ Scheduled'
    BY <1>0, <1>11 DEF EndTick, Walks, Scheduled
  <2>. QED  BY <1>0, <1>11, <2>1, <2>2, QuietStep DEF EndTick, people, NothingDangles
<1>. QED  BY <1>1, <1>2, <1>3, <1>4, <1>5, <1>6, <1>7, <1>8, <1>9, <1>10, <1>11

-----------------------------------------------------------------------------
(* The steps that insert. *)

\* What a step that may insert a shot leaves as it is.
LEMMA GrownStep ==
  ASSUME WorldInv, Grown, UNCHANGED people, TypeOK', Walks', Scheduled',
         due' = due, targets' \subseteq char, dying' = dying,
         marked' \subseteq live \intersect Cells
  PROVE  WorldInv'
<1>1. alive' = alive /\ core' = core /\ player' = player /\ char' = char
  BY DEF people
<1>2. char \subseteq Clients /\ alive \subseteq Clients
  BY DEF WorldInv, TypeOK
<1>3. NothingDangles'
  <2>. USE NullIsNoEntity, <1>1, <1>2 DEF WorldInv, NothingDangles, Grown
  <2>1. \A e \in Entities : InList(e)' => e \in live'
    OBVIOUS
  <2>2. live' \intersect Clients = char'
    OBVIOUS
  <2>3. live' \intersect Cells \subseteq {e \in Entities : InList(e)'}
    OBVIOUS
  <2>4. alive' \subseteq {e \in char' : InList(e)'}
    OBVIOUS
  <2>5. dying' # Null => dying' \in char'
    OBVIOUS
  <2>6. due' \subseteq player' /\ targets' \subseteq char' /\ alive' = core' /\ char' \subseteq player'
    OBVIOUS
  <2>7. marked' \subseteq live' \intersect Cells
    OBVIOUS
  <2>. QED  BY <2>1, <2>2, <2>3, <2>4, <2>5, <2>6, <2>7
<1>. QED  BY <1>3 DEF WorldInv, Grown

\* What is in the list of a walk stays there when something is inserted.
LEMMA ListsGrow ==
  ASSUME Grown
  PROVE  \A t : ListOf(t) \subseteq ListOf(t)'
  BY DEF Grown, ListOf

LEMMA DirectInputStep ==
  ASSUME WorldInv, NEW c \in Humans, DirectInput(c)
  PROVE  WorldInv'
<1>. USE NullIsNoEntity
<1>1. c \in Clients /\ Fires(c)
  BY DEF DirectInput, Clients
<1>2. Grown /\ targets' \subseteq char
  BY <1>1, FiresGrows
<1>3. TypeOK'
  <2>1. /\ first' \in [TypeNames -> Entities \union {Null}]
        /\ next' \in [Entities -> Entities \union {Null}]
        /\ prev' \in [Entities -> Entities \union {Null}]
        /\ type' \in [Entities -> TypeNames]
    BY <1>2 DEF Grown, Linked
  <2>2. live' \subseteq Entities /\ targets' \subseteq Clients
    BY <1>2 DEF Grown, WorldInv, TypeOK
  <2>3. /\ phase' = "input" /\ ent' = c /\ called' = TRUE
        /\ UNCHANGED <<marked, people, flags, walk, trav, dying, due, started, ticked>>
    BY DEF DirectInput
  <2>. QED  BY <1>1, <2>1, <2>2, <2>3 DEF WorldInv, TypeOK, people, flags
<1>4. Walks' /\ Scheduled'
  <2>1. Null \notin targets'
    BY <1>2 DEF WorldInv, TypeOK
  <2>. QED  BY <2>1 DEF WorldInv, DirectInput, Idle, Walks, Scheduled
<1>. QED  BY <1>2, <1>3, <1>4, GrownStep DEF DirectInput, WorldInv, NothingDangles

LEMMA CreatePickupStep ==
  ASSUME WorldInv, NEW e \in Cells, CreatePickup(e)
  PROVE  WorldInv'
<1>. USE NullIsNoEntity
<1>1. Grown
  BY ShotInserted DEF CreatePickup, ShotTypes
<1>2. UNCHANGED walker /\ marked' = marked /\ UNCHANGED people /\ UNCHANGED flags
  BY DEF CreatePickup
<1>3. TypeOK'
  BY <1>1, <1>2 DEF WorldInv, TypeOK, people, flags, walker, Grown, Linked
<1>4. Walks'
  BY <1>1, <1>2, ListsGrow DEF WorldInv, Walks, walker
<1>5. Scheduled'
  BY <1>2 DEF WorldInv, Scheduled, walker
<1>. QED  BY <1>1, <1>2, <1>3, <1>4, <1>5, GrownStep DEF walker, WorldInv, NothingDangles

LEMMA CallGrows ==
  ASSUME WorldInv, Call
  PROVE  /\ Grown /\ targets' \subseteq char /\ marked' \subseteq live \intersect Cells
         /\ ent \in ListOf(Types[walk]) /\ ent \in Entities /\ ent \in live
<1>. USE NullIsNoEntity
<1>1. ent \in ListOf(Types[walk]) /\ ent \in Entities /\ ent \in live
  BY DEF Call, WorldInv, Walks, ListOf, NothingDangles
<1>2. marked \subseteq live \intersect Cells
  BY DEF WorldInv, NothingDangles
<1>3. CASE ent \in Cells
  BY <1>1, <1>2, <1>3, ShotGrows DEF Call
<1>4. CASE ent \notin Cells
  <2>1. ent \in Clients /\ CharacterTick(ent)
    BY <1>1, <1>4 DEF Call, Entities
  <2>2. CASE targets' = {} /\ UNCHANGED lists
    BY <2>1, <2>2, <1>1, <1>2, NothingInserted DEF CharacterTick
  <2>3. CASE Fires(ent)
    BY <2>1, <2>3, <1>1, <1>2, FiresGrows DEF CharacterTick
  <2>. QED  BY <2>1, <2>2, <2>3 DEF CharacterTick
<1>. QED  BY <1>3, <1>4

LEMMA CallStep ==
  ASSUME WorldInv, Call
  PROVE  WorldInv'
<1>. USE NullIsNoEntity
<1>1. /\ Grown /\ targets' \subseteq char /\ marked' \subseteq live \intersect Cells
      /\ ent \in ListOf(Types[walk]) /\ ent \in Entities
  BY CallGrows
<1>2. trav' = next[ent] /\ trav' \in Entities \union {Null}
  BY <1>1 DEF Call, WorldInv, Linked
<1>3. TypeOK'
  <2>1. marked' \subseteq Entities /\ targets' \subseteq Clients
    BY <1>1 DEF WorldInv, TypeOK
  <2>. QED  BY <1>1, <1>2, <2>1 DEF WorldInv, TypeOK, Call, people, flags, Grown, Linked
<1>4. Walks'
  <2>1. trav' # Null => trav' \in ListOf(Types[walk])
    BY <1>1, <1>2, NextInList DEF WorldInv
  <2>2. called' /\ walk' = walk
    BY DEF Call
  <2>. QED  BY <1>1, <2>1, <2>2, ListsGrow DEF Walks
<1>5. Scheduled'
  <2>1. Null \notin targets'
    BY <1>1 DEF WorldInv, TypeOK
  <2>. QED  BY <2>1 DEF WorldInv, Scheduled, Call
<1>. QED  BY <1>1, <1>3, <1>4, <1>5, GrownStep DEF Call

\* A character is created for a player that has none.
LEMMA SpawnStep ==
  ASSUME WorldInv, NEW c \in Clients, c \notin char, Spawn(c),
         phase \in {"players", "controller"}, phase' = phase,
         UNCHANGED <<marked, flags, walk, ent, trav, called, targets, dying,
                     started, ticked>>,
         player' = player \/ player' = player \union {c}, c \in player',
         due' \subseteq due
  PROVE  WorldInv'
<1>. USE NullIsNoEntity
<1>1. c \notin live /\ c \in Entities /\ ~InList(c) /\ Fits(c, "character") /\ Linked
  BY DEF WorldInv, NothingDangles, Fits
<1>2. /\ Linked' /\ InList(c)'
      /\ \A f \in Entities \ {c} : InList(f)' <=> InList(f)
  BY <1>1, InsertLinked DEF Spawn
<1>3. /\ live' = live \union {c} /\ char' = char \union {c}
      /\ alive' = alive \union {c} /\ core' = core \union {c}
  BY DEF Spawn, Insert
<1>4. TypeOK'
  BY <1>2, <1>3 DEF WorldInv, TypeOK, flags, Linked
<1>5. Walks' /\ Scheduled'
  BY DEF WorldInv, Walks, Scheduled
<1>6. NothingDangles'
  <2>. USE <1>1, <1>2, <1>3 DEF WorldInv, NothingDangles
  <2>1. \A e \in Entities : InList(e)' => e \in live'
    OBVIOUS
  <2>2. live' \intersect Clients = char'
    OBVIOUS
  <2>3. live' \intersect Cells \subseteq {e \in Entities : InList(e)'}
    OBVIOUS
  <2>4. alive' \subseteq {e \in char' : InList(e)'}
    <3>1. char \subseteq Entities
      BY DEF TypeOK
    <3>. QED  BY <3>1
  <2>5. (dying' # Null => dying' \in char') /\ targets' \subseteq char'
    OBVIOUS
  <2>6. due' \subseteq player' /\ alive' = core' /\ char' \subseteq player'
    OBVIOUS
  <2>7. marked' \subseteq live' \intersect Cells
    OBVIOUS
  <2>. QED  BY <2>1, <2>2, <2>3, <2>4, <2>5, <2>6, <2>7
<1>. QED  BY <1>2, <1>4, <1>5, <1>6 DEF WorldInv

LEMMA CreateBotStep ==
  ASSUME WorldInv, NEW b \in Bots, CreateBot(b)
  PROVE  WorldInv'
<1>1. b \in Clients /\ b \notin char
  BY DEF CreateBot, Clients, WorldInv, NothingDangles
<1>2. /\ phase = "controller" /\ phase' = phase /\ player' = player \union {b} /\ Spawn(b)
      /\ UNCHANGED <<marked, flags, walk, ent, trav, called, targets, dying, started, ticked>>
      /\ due' = due
  BY DEF CreateBot, walker
<1>. QED  BY <1>1, <1>2, SpawnStep

-----------------------------------------------------------------------------
(* The steps that remove. *)

\* One character is taken from its list: it is not in use any more or will be
\* deleted by its player.
LEMMA ShrunkStep ==
  ASSUME WorldInv, NEW c \in Clients, c \in char,
         RemoveEntity(c, trav), alive' = alive \ {c}, core' = core \ {c},
         NEW gone \in SUBSET {c}, live' = live \ gone, char' = char \ gone,
         player' \subseteq player, char' \subseteq player', due' \subseteq player',
         targets' = targets, marked' = marked, c \notin targets,
         (dying' = dying /\ dying # c) \/ dying' = Null,
         UNCHANGED <<flags, phase, walk, ent, called, started, ticked>>,
         phase \in {"idle", "controller", "players"} \/ called, due' \subseteq due
  PROVE  WorldInv'
<1>. USE NullIsNoEntity
<1>1. TypeOK /\ Linked /\ NothingDangles /\ Walks /\ Scheduled /\ trav \in Entities \union {Null}
  BY DEF WorldInv, TypeOK
<1>2. /\ Linked' /\ type' = type
      /\ ~InList(c)'
      /\ \A f \in Entities \ {c} : InList(f)' <=> InList(f)
      /\ trav' \in Entities \union {Null}
  BY <1>1, RemoveLinked
<1>3. TypeOK'
  <2>1. player' \subseteq Clients /\ due' \subseteq Clients
    BY <1>1 DEF TypeOK
  <2>2. /\ first' \in [TypeNames -> Entities \union {Null}]
        /\ next' \in [Entities -> Entities \union {Null}]
        /\ prev' \in [Entities -> Entities \union {Null}]
        /\ type' \in [Entities -> TypeNames]
    BY <1>2 DEF Linked
  <2>. QED  BY <1>1, <1>2, <2>1, <2>2 DEF TypeOK, flags
<1>4. Walks'
  <2>1. CASE phase = "tick"
    <3>1. called
      BY <2>1
    <3>2. trav # Null => trav \in ListOf(Types[walk])
      BY <1>1, <2>1, <3>1 DEF Walks
    <3>3. trav' # Null => trav' \in ListOf(Types[walk])'
      <4>1. \A t : (trav # Null => trav \in ListOf(t)) => (trav' # Null => trav' \in ListOf(t)')
        BY <1>1, AdvanceStays
      <4>. QED  BY <3>2, <4>1
    <3>. QED  BY <3>1, <3>3 DEF Walks
  <2>2. CASE phase # "tick"
    BY <1>1, <2>2 DEF Walks, Scheduled
  <2>. QED  BY <2>1, <2>2
<1>5. Scheduled'
  <2>1. Null \notin targets
    BY <1>1 DEF TypeOK
  <2>. QED  BY <1>1, <2>1 DEF Scheduled
<1>6. NothingDangles'
  <2>. USE <1>1, <1>2 DEF NothingDangles
  <2>1. \A e \in Entities : InList(e)' => e \in live'
    OBVIOUS
  <2>2. live' \intersect Clients = char'
    OBVIOUS
  <2>3. live' \intersect Cells \subseteq {e \in Entities : InList(e)'}
    OBVIOUS
  <2>4. alive' \subseteq {e \in char' : InList(e)'}
    <3>1. char \subseteq Entities
      BY DEF TypeOK
    <3>. QED  BY <3>1
  <2>5. (dying' # Null => dying' \in char') /\ targets' \subseteq char'
    OBVIOUS
  <2>6. due' \subseteq player' /\ alive' = core' /\ char' \subseteq player'
    OBVIOUS
  <2>7. marked' \subseteq live' \intersect Cells
    OBVIOUS
  <2>. QED  BY <2>1, <2>2, <2>3, <2>4, <2>5, <2>6, <2>7
<1>. QED  BY <1>2, <1>3, <1>4, <1>5, <1>6 DEF WorldInv

LEMMA DropStep ==
  ASSUME WorldInv, NEW c \in Humans, Drop(c)
  PROVE  WorldInv'
<1>. USE NullIsNoEntity
<1>0. /\ c \in Clients /\ phase = "idle" /\ c \in player
      /\ TypeOK /\ Linked /\ NothingDangles /\ Walks /\ Scheduled
  BY DEF Drop, Idle, WorldInv, Clients
<1>1. /\ targets = {} /\ dying = Null /\ due = {} /\ ~called
  BY <1>0 DEF Scheduled
<1>2. /\ alive' = alive \ {c} /\ core' = core \ {c}
      /\ char' = char \ {c} /\ player' = player \ {c}
      /\ UNCHANGED <<marked, flags, phase, walk, ent, called, targets, dying, due, started, ticked>>
  BY DEF Drop
<1>3. CASE c \in char
  <2>1. RemoveEntity(c, trav) /\ live' = live \ {c}
    BY <1>3 DEF Drop
  <2>2. char' \subseteq player' /\ due' \subseteq player' /\ player' \subseteq player
    BY <1>0, <1>1, <1>2 DEF NothingDangles
  <2>. QED  BY <1>0, <1>1, <1>2, <1>3, <2>1, <2>2, ShrunkStep
<1>4. CASE c \notin char
  <2>1. UNCHANGED <<lists, trav>> /\ c \notin alive /\ c \notin core
    BY <1>0, <1>4 DEF Drop, NothingDangles
  <2>2. alive' = alive /\ core' = core /\ char' = char
    BY <1>2, <1>4, <2>1
  <2>3. TypeOK'
    BY <1>0, <1>2, <2>1, <2>2 DEF TypeOK, lists, flags
  <2>4. Walks' /\ Scheduled'
    BY <1>0, <1>1, <1>2 DEF Walks, Scheduled
  <2>5. /\ Linked' /\ live' = live
        /\ \A e \in Entities : InList(e)' <=> InList(e)
    BY <1>0, <2>1, ListsKept
  <2>6. NothingDangles'
    <3>1. char \subseteq Entities
      BY <1>0 DEF TypeOK
    <3>. QED  BY <1>0, <1>1, <1>2, <1>4, <2>2, <2>5, <3>1 DEF NothingDangles
  <2>. QED  BY <2>3, <2>4, <2>5, <2>6 DEF WorldInv
<1>. QED  BY <1>3, <1>4

LEMMA KillStep ==
  ASSUME WorldInv, NEW c \in Humans, Kill(c)
  PROVE  WorldInv'
<1>. USE NullIsNoEntity
<1>0. /\ c \in Clients /\ c \notin Bots /\ phase \in {"idle", "controller"} /\ c \in char
      /\ TypeOK /\ Linked /\ NothingDangles /\ Walks /\ Scheduled
  BY WorldAssumption DEF Kill, WorldInv, Clients
<1>1. /\ targets = {} /\ dying = Null /\ due = {} /\ ~called
  BY <1>0 DEF Scheduled
<1>2. /\ UNCHANGED <<marked, flags, phase, walk, ent, called, targets, dying, due, started, ticked>>
      /\ Die(c, trav, {c})
  BY <1>0 DEF Kill, KillCharacter
<1>3. /\ RemoveEntity(c, trav)
      /\ alive' = alive \ {c} /\ core' = core \ {c}
      /\ live' = live \ {c} /\ char' = char \ {c} /\ player' = player
  BY <1>0, <1>2 DEF Die
<1>4. char' \subseteq player' /\ due' \subseteq player'
  BY <1>0, <1>1, <1>2, <1>3 DEF NothingDangles
<1>. QED  BY <1>0, <1>1, <1>2, <1>3, <1>4, ShrunkStep

LEMMA DieNowStep ==
  ASSUME WorldInv, DieNow
  PROVE  WorldInv'
<1>. USE NullIsNoEntity
<1>0. /\ dying # Null /\ dying \in Clients /\ dying \in char /\ called /\ due = {}
      /\ dying \notin targets
      /\ TypeOK /\ Linked /\ NothingDangles /\ Walks /\ Scheduled
  BY DEF DieNow, WorldInv, NothingDangles, Scheduled, TypeOK
<1>1. /\ UNCHANGED <<marked, flags, phase, walk, ent, called, targets, due, started, ticked>>
      /\ dying' = Null
  BY DEF DieNow
<1>2. /\ RemoveEntity(dying, trav)
      /\ alive' = alive \ {dying} /\ core' = core \ {dying}
      /\ live' = live \ Gone(dying) /\ char' = char \ Gone(dying)
      /\ player' = player \ Gone(dying)
  BY DEF DieNow, Die, Gone
<1>3. Gone(dying) \in SUBSET {dying}
  BY DEF Gone
<1>4. char' \subseteq player' /\ due' \subseteq player' /\ player' \subseteq player
  BY <1>0, <1>1, <1>2 DEF NothingDangles
<1>. QED  BY <1>0, <1>1, <1>2, <1>3, <1>4, ShrunkStep

LEMMA PlayerTickStep ==
  ASSUME WorldInv, NEW c \in Clients, PlayerTick(c)
  PROVE  WorldInv'
<1>. USE NullIsNoEntity
<1>0. /\ phase = "players" /\ c \in due /\ due' = due \ {c} /\ c \in player
      /\ TypeOK /\ Linked /\ NothingDangles /\ Walks /\ Scheduled
      /\ UNCHANGED <<marked, flags, phase, walk, ent, called, targets, dying, started, ticked>>
  BY DEF PlayerTick, WorldInv, NothingDangles
<1>1. /\ targets = {} /\ dying = Null /\ ~called
  BY <1>0 DEF Scheduled
<1>2. CASE UNCHANGED <<lists, people, trav>>
  <2>1. TypeOK'
    BY <1>0, <1>2 DEF TypeOK, lists, people, flags
  <2>2. Walks' /\ Scheduled'
    BY <1>0, <1>1 DEF Walks, Scheduled
  <2>. QED  BY <1>0, <1>1, <1>2, <2>1, <2>2, QuietStep DEF people, NothingDangles
<1>3. CASE /\ c \in char \ alive
           /\ RemoveEntity(c, trav)
           /\ live' = live \ {c} /\ char' = char \ {c}
           /\ UNCHANGED <<alive, core, player>>
  <2>1. alive' = alive \ {c} /\ core' = core \ {c} /\ player' = player
    BY <1>0, <1>3 DEF NothingDangles
  <2>2. char' \subseteq player' /\ due' \subseteq player'
    BY <1>0, <1>3, <2>1 DEF NothingDangles
  <2>. QED  BY <1>0, <1>1, <1>3, <2>1, <2>2, ShrunkStep
<1>4. CASE MayRespawn(c) /\ Spawn(c) /\ UNCHANGED <<player, trav>>
  BY <1>0, <1>4, SpawnStep DEF MayRespawn
<1>. QED  BY <1>2, <1>3, <1>4 DEF PlayerTick

LEMMA ReloadStep ==
  ASSUME WorldInv, Reload
  PROVE  WorldInv'
<1>. USE NullIsNoEntity
<1>0. /\ phase = "idle"
      /\ TypeOK /\ Linked /\ NothingDangles /\ Walks /\ Scheduled
  BY DEF Reload, Idle, WorldInv
<1>1. /\ first' = [t \in TypeNames |-> Null]
      /\ next' = [e \in Entities |-> Null]
      /\ prev' = [e \in Entities |-> Null]
      /\ type' = type /\ UNCHANGED walker
      /\ live' = live \ (char \union {e \in Entities : InList(e)})
      /\ marked' = {} /\ alive' = {} /\ core' = {} /\ char' = {} /\ player' = {}
      /\ paused' = FALSE /\ reset' = FALSE /\ botInit' = FALSE
  BY DEF Reload
<1>2. TypeOK'
  BY <1>0, <1>1 DEF TypeOK, walker
<1>3. \A e \in Entities : ~InList(e)'
  BY <1>1, <1>2 DEF InList, TypeOK
<1>4. Linked'
  <2>1. (\E rank : Ranks(rank))'
    <3>. DEFINE zero == [e \in Entities |-> 0]
    <3>1. zero \in [Entities -> Nat]
      OBVIOUS
    <3>. HIDE DEF zero
    <3>2. Ranks(zero)'
      BY <1>1, <3>1 DEF Ranks
    <3>. QED  BY <3>2
  <2>2. CellTypes'
    BY <1>0, <1>1 DEF Linked, CellTypes
  <2>3. ListsLinked'
    BY <1>1, <1>3 DEF ListsLinked
  <2>. QED  BY <1>2, <2>1, <2>2, <2>3 DEF Linked, TypeOK
<1>5. Walks' /\ Scheduled'
  BY <1>0, <1>1 DEF Walks, Scheduled, walker
<1>6. NothingDangles'
  <2>1. due' = {} /\ targets' = {} /\ dying' = Null
    BY <1>0, <1>1 DEF Scheduled, walker
  <2>2. live' \intersect Clients = {} /\ live' \intersect Cells = {}
    BY <1>0, <1>1 DEF NothingDangles
  <2>. QED  BY <1>1, <1>3, <2>1, <2>2 DEF NothingDangles
<1>. QED  BY <1>2, <1>4, <1>5, <1>6 DEF WorldInv

LEMMA ResetStep ==
  ASSUME WorldInv, Reset
  PROVE  WorldInv'
<1>. USE NullIsNoEntity
<1>0. /\ phase = "reset" /\ phase' = "remove"
      /\ TypeOK /\ Linked /\ NothingDangles /\ Walks /\ Scheduled
  BY DEF Reset, WorldInv
<1>1. /\ marked' = marked \union ListOf("projectile") \union ListOf("laser")
      /\ alive' = alive \ ListOf("character")
      /\ core' = core \ ListOf("character")
      /\ UNCHANGED <<lists, char, player, flags, walk, ent, trav, called, targets,
                     dying, due, started, ticked>>
  BY DEF Reset
<1>2. marked' \subseteq live \intersect Cells
  BY <1>0, <1>1, ListedExist DEF NothingDangles, ShotTypes
<1>3. TypeOK'
  BY <1>0, <1>1, <1>2 DEF TypeOK, lists, flags
<1>4. Walks' /\ Scheduled'
  <2>1. ~called
    BY <1>0 DEF Scheduled
  <2>2. \A t : ListOf(t)' = ListOf(t)
    BY <1>0, <1>1, ListsOfKept
  <2>. QED  BY <1>0, <1>1, <2>1, <2>2 DEF Walks, Scheduled
<1>5. NothingDangles'
  <2>1. /\ live' = live
        /\ \A e \in Entities : InList(e)' <=> InList(e)
    BY <1>0, <1>1, ListsKept
  <2>2. char \subseteq Entities
    BY <1>0 DEF TypeOK
  <2>. QED  BY <1>0, <1>1, <1>2, <2>1, <2>2 DEF NothingDangles
<1>6. Linked'
  BY <1>0, <1>1, ListsKept
<1>. QED  BY <1>3, <1>4, <1>5, <1>6 DEF WorldInv

\* RemoveEntities at one entity: a shot that is marked leaves the list and is
\* deleted, and the walk goes on with what followed it.
LEMMA RemoveStep ==
  ASSUME WorldInv, Remove
  PROVE  WorldInv'
<1>. USE NullIsNoEntity
<1>0. /\ phase = "remove" /\ ent # Null /\ ~called
      /\ targets = {} /\ dying = Null /\ due = {}
      /\ TypeOK /\ Linked /\ NothingDangles /\ Walks /\ Scheduled
  BY DEF Remove, WorldInv, Scheduled
<1>1. ent \in ListOf(Types[walk]) /\ ent \in Entities
  BY <1>0 DEF Walks, ListOf
<1>2. /\ marked' = marked \ {ent} /\ ent' = trav'
      /\ UNCHANGED <<people, flags, phase, walk, called, targets, dying, due, started, ticked>>
  BY DEF Remove
<1>3. next[ent] \in Entities \union {Null} /\ (next[ent] # Null => next[ent] \in ListOf(Types[walk]))
  BY <1>0, <1>1, NextInList DEF TypeOK
<1>4. CASE ent \in marked
  <2>0. PICK e \in Entities : e = ent
    BY <1>1
  <2>1. RemoveEntity(e, next[e]) /\ live' = live \ {e}
    BY <1>4, <2>0 DEF Remove
  <2>2. /\ Linked' /\ ~InList(e)'
        /\ \A f \in Entities \ {e} : InList(f)' <=> InList(f)
        /\ trav' \in Entities \union {Null}
    BY <1>0, <1>3, <2>0, <2>1, RemoveLinked
  <2>3. trav' # Null => trav' \in ListOf(Types[walk])'
    <3>1. \A t : (next[e] # Null => next[e] \in ListOf(t))
                   => (trav' # Null => trav' \in ListOf(t)')
      BY <1>0, <1>3, <2>0, <2>1, AdvanceStays
    <3>. QED  BY <1>2, <1>3, <2>0, <3>1
  <2>4. TypeOK'
    BY <1>0, <1>2, <2>1, <2>2 DEF TypeOK, people, flags, Linked
  <2>5. Walks' /\ Scheduled'
    BY <1>0, <1>2, <2>3 DEF Walks, Scheduled
  <2>6. NothingDangles'
    <3>1. e \in Cells /\ char \subseteq Entities /\ char \subseteq Clients
      BY <1>0, <1>4, <2>0 DEF NothingDangles, TypeOK
    <3>2. char' = char /\ alive' = alive /\ core' = core /\ player' = player
      BY <1>2 DEF people
    <3>3. /\ \A f \in Entities : InList(f)' => f \in live'
          /\ live' \intersect Clients = char'
          /\ live' \intersect Cells \subseteq {f \in Entities : InList(f)'}
          /\ marked' \subseteq live' \intersect Cells
      BY <1>0, <1>2, <2>0, <2>1, <2>2, <3>1, <3>2 DEF NothingDangles
    <3>4. alive' \subseteq {f \in char' : InList(f)'}
      BY <1>0, <2>2, <3>1, <3>2 DEF NothingDangles
    <3>. QED  BY <1>0, <1>2, <3>2, <3>3, <3>4 DEF NothingDangles
  <2>. QED  BY <2>2, <2>4, <2>5, <2>6 DEF WorldInv
<1>5. CASE ent \notin marked
  <2>1. trav' = next[ent] /\ UNCHANGED lists /\ marked' = marked
    BY <1>2, <1>5 DEF Remove
  <2>2. \A t : ListOf(t)' = ListOf(t)
    BY <1>0, <2>1, ListsOfKept
  <2>3. TypeOK'
    BY <1>0, <1>2, <1>3, <2>1 DEF TypeOK, people, flags, lists
  <2>4. Walks' /\ Scheduled'
    BY <1>0, <1>2, <1>3, <2>1, <2>2 DEF Walks, Scheduled
  <2>. QED  BY <1>0, <1>2, <2>1, <2>3, <2>4, QuietStep DEF people, NothingDangles
<1>. QED  BY <1>4, <1>5

LEMMA WorldStuttering ==
  ASSUME WorldInv, UNCHANGED vars
  PROVE  WorldInv'
<1>1. UNCHANGED <<lists, marked, people, flags, walker>>
  BY DEF vars
<1>2. TypeOK'
  BY <1>1 DEF WorldInv, TypeOK, lists, people, flags, walker
<1>3. Walks' /\ Scheduled'
  BY <1>1, ListsOfKept DEF WorldInv, Walks, Scheduled, walker
<1>. QED  BY <1>1, <1>2, <1>3, QuietStep DEF WorldInv, people, walker, NothingDangles

LEMMA WorldNext ==
  ASSUME WorldInv, [Next]_vars
  PROVE  WorldInv'
<1>1. CASE Messages
  BY <1>1, QuietSteps, DropStep, KillStep, DirectInputStep, ReloadStep DEF Messages
<1>2. CASE Turn
  BY <1>2, QuietSteps, PlayerTickStep, CreatePickupStep, DieNowStep, ResetStep, CallStep,
     RemoveStep, CreateBotStep DEF Turn
<1>. QED  BY <1>1, <1>2, WorldStuttering DEF Next

-----------------------------------------------------------------------------
\* The world keeps to its types, whatever the numbers of players, bots and
\* shots: only clients are in the list of characters, so that what is hit is
\* one (gameworld.cpp:63-106).
THEOREM TypeCorrect == Spec => []TypeOK
<1>1. WorldInv => TypeOK
  BY DEF WorldInv
<1>. QED  BY WorldInit, WorldNext, <1>1, PTL DEF Spec

\* Whatever the calls of a tick insert, delete and hit: the lists stay lists, no
\* pointer outlives what it points to, and a walk goes on in its list although
\* what it calls may take out any entity, the next one as well
\* (gameworld.cpp:63-106, :163-169).
THEOREM EntitiesAlwaysLive == Spec => []EntitiesLive
<1>1. WorldInv => EntitiesLive
  BY DEF WorldInv, Linked, Walks, EntitiesLive, WalkStaysInList
<1>. QED  BY WorldInit, WorldNext, <1>1, PTL DEF Spec

-----------------------------------------------------------------------------
(***************************************************************************)
(* The calls of a tick.  What the walk has yet to call is what was there   *)
(* when it began, is still there and was not called.  It lies in one piece *)
(* at the end of the list, beginning where the walk goes on: what follows  *)
(* one of it is of it, and so is what comes before it unless it is the     *)
(* first.                                                                  *)
(***************************************************************************)
Position == IF called THEN trav ELSE ent

ToCome == (started \intersect ListOf(Types[walk])) \ ticked

CallsEach ==
  phase = "tick" =>
    /\ Position # Null => Position \in ToCome
    /\ \A e \in ToCome : next[e] # Null => next[e] \in ToCome
    /\ \A e \in ToCome : e = Position \/ prev[e] \in ToCome
    /\ started \intersect Cells \subseteq live

\* Going back from any entity of a piece of a list one comes to its first one,
\* for there are no rings: nothing of the piece leads to it.
LEMMA FirstOfPiece ==
  ASSUME Linked, NEW U \in SUBSET Entities, NEW p, U # {},
         \A e \in U : e = p \/ prev[e] \in U
  PROVE  p \in U /\ \A e \in U : next[e] # p
<1>. USE NullIsNoEntity
<1>1. PICK rank : Ranks(rank)
  BY DEF Linked
<1>. DEFINE T == {rank[e] : e \in U}
<1>2. T \in SUBSET Nat /\ T # {}
  BY <1>1 DEF Ranks
<1>3. PICK m \in T : \A n \in T : m <= n
  <2>. HIDE DEF T
  <2>. QED  BY <1>2, SmallestNumber
<1>4. PICK e \in U : rank[e] = m
  OBVIOUS
<1>5. \A f \in U : rank[f] \in Nat /\ m <= rank[f]
  BY <1>1, <1>3 DEF Ranks
<1>6. e = p
  <2>1. SUFFICES ASSUME e # p PROVE FALSE
    OBVIOUS
  <2>2. prev[e] \in U /\ next[prev[e]] = e
    BY <2>1 DEF Linked, ListsLinked
  <2>3. rank[prev[e]] < rank[e]
    BY <1>1, <2>2 DEF Ranks
  <2>. QED  BY <1>4, <1>5, <2>2, <2>3
<1>7. ASSUME NEW f \in U, next[f] = p PROVE FALSE
  <2>1. rank[f] < rank[e]
    BY <1>1, <1>6, <1>7 DEF Ranks
  <2>. QED  BY <1>4, <1>5, <2>1
<1>. QED  BY <1>6, <1>7

\* Before a walk ends nothing is left to come.
LEMMA NothingLeft ==
  ASSUME WorldInv, CallsEach, phase = "tick", Position = Null
  PROVE  ToCome = {}
<1>1. ToCome \in SUBSET Entities
  BY DEF ToCome, ListOf
<1>2. \A e \in ToCome : e = Null \/ prev[e] \in ToCome
  BY DEF CallsEach
<1>. QED  BY <1>1, <1>2, FirstOfPiece, NullIsNoEntity DEF WorldInv

\* What is inserted during a walk is not of what is to come.
LEMMA GrownPiece ==
  ASSUME WorldInv, CallsEach, phase = "tick", Grown, started' = started, walk' = walk
  PROVE  /\ started' \intersect ListOf(Types[walk])' = started \intersect ListOf(Types[walk])
         /\ \A e \in ToCome : next'[e] = next[e]
         /\ \A e \in ToCome : prev[e] \in ToCome => prev'[e] = prev[e]
         /\ started' \intersect Cells \subseteq live'
<1>. USE NullIsNoEntity
<1>1. started \intersect Cells \subseteq live
  BY DEF CallsEach
<1>2. \A t : started \intersect ListOf(t)' = started \intersect ListOf(t)
  BY <1>1 DEF ListOf, Grown
<1>3. \A e \in ToCome : e \in Entities /\ InList(e)
  BY DEF ToCome, ListOf
<1>. QED  BY <1>1, <1>2, <1>3 DEF Grown

LEMMA CallCallsEach ==
  ASSUME WorldInv, CallsEach, Call
  PROVE  /\ CallsEach'
         /\ ent \in (started \intersect live) \ ticked
<1>. USE NullIsNoEntity
<1>1. /\ phase = "tick" /\ phase' = "tick" /\ ent # Null /\ ~called /\ called'
      /\ trav' = next[ent] /\ ticked' = ticked \union {ent}
      /\ started' = started /\ walk' = walk
  BY DEF Call
<1>2. Grown /\ ent \in live /\ ent \in Entities
  BY CallGrows
<1>3. /\ started' \intersect ListOf(Types[walk])' = started \intersect ListOf(Types[walk])
      /\ \A e \in ToCome : next'[e] = next[e]
      /\ \A e \in ToCome : prev[e] \in ToCome => prev'[e] = prev[e]
      /\ started' \intersect Cells \subseteq live'
  BY <1>1, <1>2, GrownPiece
<1>4. ToCome' = ToCome \ {ent}
  BY <1>1, <1>3 DEF ToCome
<1>5. /\ ent \in ToCome
      /\ \A e \in ToCome : next[e] # Null => next[e] \in ToCome
      /\ \A e \in ToCome : e = ent \/ prev[e] \in ToCome
  BY <1>1 DEF CallsEach, Position
<1>6. ToCome \in SUBSET Entities
  BY DEF ToCome, ListOf
<1>7. \A e \in ToCome : next[e] # ent
  BY <1>5, <1>6, FirstOfPiece DEF WorldInv
<1>8. Position' = next[ent]
  BY <1>1 DEF Position
<1>9. \A e \in ToCome : prev[e] \in ToCome => next[prev[e]] = e
  BY <1>6 DEF WorldInv, Linked, ListsLinked
<1>10. CallsEach'
  BY <1>3, <1>4, <1>5, <1>7, <1>8, <1>9 DEF CallsEach
<1>. QED  BY <1>2, <1>5, <1>10 DEF ToCome

LEMMA PickupCallsEach ==
  ASSUME WorldInv, CallsEach, NEW s \in Cells, CreatePickup(s)
  PROVE  CallsEach'
<1>1. UNCHANGED walker
  BY DEF CreatePickup
<1>2. Grown
  BY ShotInserted DEF CreatePickup, ShotTypes
<1>3. CASE phase # "tick"
  BY <1>1, <1>3 DEF walker, CallsEach
<1>4. CASE phase = "tick"
  <2>1. started' = started /\ walk' = walk /\ ticked' = ticked /\ Position' = Position
    BY <1>1 DEF walker, Position
  <2>2. /\ started' \intersect ListOf(Types[walk])' = started \intersect ListOf(Types[walk])
        /\ \A e \in ToCome : next'[e] = next[e]
        /\ \A e \in ToCome : prev[e] \in ToCome => prev'[e] = prev[e]
        /\ started' \intersect Cells \subseteq live'
    BY <1>2, <1>4, <2>1, GrownPiece
  <2>3. ToCome' = ToCome
    BY <2>1, <2>2 DEF ToCome
  <2>. QED  BY <1>4, <2>1, <2>2, <2>3 DEF CallsEach
<1>. QED  BY <1>3, <1>4

\* A character that dies while the walk is on leaves the piece that is to come
\* in one piece.
LEMMA DieCallsEach ==
  ASSUME WorldInv, CallsEach, DieNow
  PROVE  CallsEach'
<1>. USE NullIsNoEntity
<1>1. PICK d \in Clients : d = dying
  BY DEF DieNow, WorldInv, TypeOK
<1>2. /\ UNCHANGED <<phase, walk, ent, called, started, ticked>>
      /\ RemoveEntity(d, trav) /\ live' = live \ Gone(d)
  BY <1>1 DEF DieNow, Die
<1>3. CASE phase # "tick"
  BY <1>2, <1>3 DEF CallsEach
<1>4. CASE phase = "tick"
  <2>1. called /\ Linked /\ trav \in Entities \union {Null} /\ d \in Entities
    BY DEF DieNow, WorldInv, Scheduled, TypeOK
  <2>2. /\ Linked' /\ type' = type /\ next' = NextWithout(d) /\ prev' = PrevWithout(d)
        /\ ~InList(d)'
        /\ \A f \in Entities \ {d} : InList(f)' <=> InList(f)
        /\ trav' = Advance(d, trav) \/ (~InList(d) /\ trav' = trav)
    BY <1>2, <2>1, RemoveLinked
  <2>3. \A t : ListOf(t)' = ListOf(t) \ {d}
    BY <2>1, <2>2 DEF ListOf
  <2>4. ToCome' = ToCome \ {d}
    BY <1>2, <2>3 DEF ToCome
  <2>5. ToCome \in SUBSET Entities /\ \A e \in ToCome : InList(e)
    BY DEF ToCome, ListOf
  <2>6. /\ trav # Null => trav \in ToCome
        /\ \A e \in ToCome : next[e] # Null => next[e] \in ToCome
        /\ \A e \in ToCome : e = trav \/ prev[e] \in ToCome
        /\ started \intersect Cells \subseteq live
    BY <1>4, <2>1 DEF CallsEach, Position
  <2>7. Position' = trav'
    BY <1>2, <2>1 DEF Position
  <2>8. /\ \A e \in Entities : next[e] # Null => prev[next[e]] = e /\ next[e] # e
        /\ \A e \in Entities : prev[e] # Null => next[prev[e]] = e /\ prev[e] # e
    BY <2>1, NoSelfLink DEF Linked, ListsLinked
  <2>9. trav' = IF trav = d THEN next[d] ELSE trav
    BY <2>2, <2>5, <2>6 DEF Advance
  <2>10. trav' # Null => trav' \in ToCome'
    BY <2>4, <2>5, <2>6, <2>8, <2>9
  <2>11. ASSUME NEW e \in ToCome', next'[e] # Null PROVE next'[e] \in ToCome'
    <3>1. e \in ToCome /\ e # d /\ e \in Entities
      BY <2>4, <2>5
    <3>2. next'[e] = IF e = prev[d] THEN next[d] ELSE next[e]
      BY <2>2, <3>1 DEF NextWithout
    <3>3. CASE e = prev[d]
      <4>1. next[e] = d /\ d \in ToCome
        BY <2>6, <2>8, <3>1, <3>3
      <4>. QED  BY <2>1, <2>4, <2>6, <2>8, <2>11, <3>2, <3>3, <4>1
    <3>4. CASE e # prev[d]
      BY <2>1, <2>4, <2>6, <2>8, <2>11, <3>1, <3>2, <3>4
    <3>. QED  BY <3>3, <3>4
  <2>12. ASSUME NEW e \in ToCome' PROVE e = trav' \/ prev'[e] \in ToCome'
    <3>1. e \in ToCome /\ e # d /\ e \in Entities
      BY <2>4, <2>5
    <3>2. prev'[e] = IF e = next[d] THEN prev[d] ELSE prev[e]
      BY <2>2, <3>1 DEF PrevWithout
    <3>3. CASE e = next[d]
      <4>1. prev[e] = d
        BY <2>1, <2>8, <3>1, <3>3
      <4>. QED  BY <2>1, <2>4, <2>5, <2>6, <2>8, <2>9, <3>1, <3>2, <3>3, <4>1
    <3>4. CASE e # next[d]
      BY <2>1, <2>4, <2>5, <2>6, <2>8, <2>9, <3>1, <3>2, <3>4
    <3>. QED  BY <3>3, <3>4
  <2>13. started' \intersect Cells \subseteq live'
    BY <1>2, <2>6 DEF Gone
  <2>. QED  BY <2>7, <2>10, <2>11, <2>12, <2>13 DEF CallsEach
<1>. QED  BY <1>3, <1>4

\* When a walk begins, all of its list is to come.
LEMMA EnterCallsEach ==
  ASSUME WorldInv, NEW w \in 1 .. Last, Enter(w), UNCHANGED lists, called' = FALSE
  PROVE  CallsEach'
<1>. USE NullIsNoEntity
<1>1. /\ started' = ListOf(Types[w]) /\ ticked' = {} /\ ent' = first[Types[w]] /\ walk' = w
      /\ Types[w] \in TypeNames
  BY TypesOfWalks DEF Enter
<1>2. \A t : ListOf(t)' = ListOf(t)
  BY ListsOfKept DEF WorldInv
<1>3. /\ live' = live /\ next' = next /\ prev' = prev
  BY DEF lists
<1>4. ToCome' = ListOf(Types[w])
  BY <1>1, <1>2 DEF ToCome
<1>5. Position' = first[Types[w]]
  BY <1>1 DEF Position
<1>6. Position' # Null => Position' \in ToCome'
  BY <1>1, <1>4, <1>5 DEF WorldInv, Linked, ListsLinked, ListOf, InList
<1>7. \A e \in ToCome' : next'[e] # Null => next'[e] \in ToCome'
  BY <1>3, <1>4, NextInList DEF WorldInv, ListOf
<1>8. ASSUME NEW e \in ToCome' PROVE e = Position' \/ prev'[e] \in ToCome'
  <2>1. e \in Entities /\ type[e] = Types[w] /\ InList(e)
    BY <1>4 DEF ListOf
  <2>2. CASE prev[e] = Null
    BY <1>5, <2>1, <2>2 DEF WorldInv, Linked, ListsLinked
  <2>3. CASE prev[e] # Null
    <3>1. prev[e] \in Entities /\ type[prev[e]] = type[e] /\ next[prev[e]] = e
      BY <2>1, <2>3 DEF WorldInv, Linked, ListsLinked
    <3>. QED  BY <1>3, <1>4, <2>1, <3>1 DEF ListOf, InList
  <2>. QED  BY <2>2, <2>3
<1>9. started' \intersect Cells \subseteq live'
  BY <1>1, <1>3 DEF ListOf, WorldInv, NothingDangles
<1>. QED  BY <1>6, <1>7, <1>8, <1>9 DEF CallsEach

\* What moves nothing the walk depends on.
LEMMA SameCallsEach ==
  ASSUME WorldInv, CallsEach, UNCHANGED <<lists, walk, started, ticked, phase>>,
         Position' = Position
  PROVE  CallsEach'
<1>1. \A t : ListOf(t)' = ListOf(t)
  BY ListsOfKept DEF WorldInv
<1>2. ToCome' = ToCome /\ live' = live /\ next' = next /\ prev' = prev
  BY <1>1 DEF ToCome, lists
<1>. QED  BY <1>2 DEF CallsEach

LEMMA CallsEachNext ==
  ASSUME WorldInv, CallsEach, [Next]_vars
  PROVE  CallsEach'
<1>. USE DEF WorldInv
<1>1. CASE Messages
  <2>1. CASE phase \in {"idle", "controller"} /\ phase' # "tick"
    BY <2>1 DEF CallsEach
  <2>2. CASE BotDataRead
    BY <2>2, SameCallsEach DEF BotDataRead, walker, Position
  <2>. QED  BY <1>1, <2>1, <2>2
       DEF Messages, Connect, Drop, Kill, DirectInput, TogglePause, StartRound, Reload,
           BeginTick, Idle, walker
<1>2. CASE Turn
  <2>1. ASSUME phase' # "tick" PROVE CallsEach'
    BY <2>1 DEF CallsEach
  <2>2. ASSUME NEW c \in Clients, Hit(c) PROVE CallsEach'
    BY <2>2, SameCallsEach DEF Hit, Position
  <2>3. CASE LeaveLayer
    BY <2>3, SameCallsEach DEF LeaveLayer, Position
  <2>4. CASE Return
    <3>1. called /\ ent' = trav /\ ~called'
      BY <2>4 DEF Return, Onward
    <3>2. Position' = Position
      BY <3>1 DEF Position
    <3>. QED  BY <2>4, <3>2, SameCallsEach DEF Return
  <2>5. CASE WorldTick
    <3>1. 1 \in 1 .. Last
      BY DEF Last
    <3>2. called' = FALSE
      BY <2>5 DEF WorldTick, Scheduled, TypeOK
    <3>. QED  BY <2>5, <3>1, <3>2, EnterCallsEach DEF WorldTick
  <2>6. CASE NextList
    <3>1. walk + 1 \in 1 .. Last
      BY <2>6 DEF NextList, TypeOK, Last
    <3>2. called' = FALSE
      BY <2>6 DEF NextList, TypeOK
    <3>. QED  BY <2>6, <3>1, <3>2, EnterCallsEach DEF NextList
  <2>7. CASE WalkDone
    <3>1. 1 \in 1 .. Last
      BY DEF Last
    <3>2. called' = FALSE
      BY <2>7 DEF WalkDone, TypeOK
    <3>. QED  BY <2>7, <3>1, <3>2, EnterCallsEach DEF WalkDone
  <2>8. CASE InputDone \/ Reset \/ Remove \/ EndTick
    BY <2>1, <2>8 DEF InputDone, Reset, Remove, EndTick
  <2>9. ASSUME NEW c \in Clients, PlayerTick(c) PROVE CallsEach'
    BY <2>1, <2>9 DEF PlayerTick
  <2>10. ASSUME NEW b \in Bots, CreateBot(b) PROVE CallsEach'
    BY <2>1, <2>10 DEF CreateBot, walker
  <2>. QED  BY <1>2, <2>2, <2>3, <2>4, <2>5, <2>6, <2>7, <2>8, <2>9, <2>10,
               CallCallsEach, PickupCallsEach, DieCallsEach DEF Turn
<1>3. CASE UNCHANGED vars
  BY <1>3, SameCallsEach DEF vars, walker, Position
<1>. QED  BY <1>1, <1>2, <1>3 DEF Next

\* Who is called, and what a walk leaves behind.
LEMMA CalledAsPromised ==
  ASSUME WorldInv, CallsEach, [Next]_vars
  PROVE  /\ ~called /\ called' /\ phase = "tick" => ent \in (started \intersect live) \ ticked
         /\ phase = "tick" /\ walk' # walk => started \intersect ListOf(Types[walk]) \subseteq ticked
<1>1. ASSUME ~called, called', phase = "tick"
      PROVE  ent \in (started \intersect live) \ ticked
  <2>1. CASE Call
    BY <2>1, CallCallsEach
  <2>2. CASE ~Call
    BY <1>1, <2>2 DEF Next, Messages, Turn, Connect, Drop, Kill, DirectInput, TogglePause,
       StartRound, BotDataRead, Reload, BeginTick, Idle, InputDone, Hit, PlayerTick,
       CreatePickup, DieNow, WorldTick, Reset, LeaveLayer, Return, Remove, NextList, WalkDone,
       CreateBot, EndTick, walker, vars
  <2>. QED  BY <2>1, <2>2
<1>2. ASSUME phase = "tick", walk' # walk
      PROVE  started \intersect ListOf(Types[walk]) \subseteq ticked
  <2>1. NextList \/ WalkDone
    BY <1>2 DEF Next, Messages, Turn, Connect, Drop, Kill, DirectInput, TogglePause,
       StartRound, BotDataRead, Reload, BeginTick, Idle, InputDone, Hit, PlayerTick,
       CreatePickup, DieNow, WorldTick, Reset, Call, LeaveLayer, Return, Remove,
       CreateBot, EndTick, walker, vars
  <2>2. Position = Null
    BY <2>1 DEF NextList, WalkDone, Position
  <2>3. ToCome = {}
    BY <1>2, <2>2, NothingLeft
  <2>. QED  BY <2>3 DEF ToCome
<1>. QED  BY <1>1, <1>2

\* A tick calls each entity that was in its list when the walk began and is
\* still there when its turn comes, and each once, for any number of players,
\* bots and shots: what is inserted goes to the head, behind the walk, and a
\* character that dies takes the walk on to what followed it
\* (gameworld.cpp:63-106, :163-169).
THEOREM EachCalledOncePerTick == Spec => CalledOncePerTick
<1>1. Init => CallsEach
  BY DEF Init, CallsEach
<1>. QED  BY <1>1, WorldInit, WorldNext, CallsEachNext, CalledAsPromised, PTL
          DEF Spec, CalledOncePerTick
=============================================================================
