---------------------------- MODULE SymbolMap_proofs ----------------------------
(***************************************************************************)
(* What the hash maps of symbol.c keep, and what growing may lose, for every *)
(* set of names, every hash of them and every initial capacity.              *)
(***************************************************************************)
EXTENDS SymbolMap, WellFoundedInduction, SequenceTheorems, TLAPS

MapShapes == [capacity : Nat, size : Nat, items : UNION {[0..n - 1 -> Symbols] : n \in Nat}]

(* No symbol hides behind a free slot or an older symbol of its name.        *)
WellPlacedIn(map) ==
  \A i \in Slots(map) :
    map.items[i].name # NoName =>
      /\ i \in Stops(map, map.items[i].name)
      /\ \A j \in Stops(map, map.items[i].name) : i <= j

Good(map) == IsMap(map) /\ WellPlacedIn(map)

MapsInv ==
  /\ status \in {"running", "undefined"}
  /\ maps \in Seq(MapShapes) /\ Len(maps) \in 1..Len(MaxSets)
  /\ \A d \in DOMAIN maps : Good(maps[d])
-------------------------------------------------------------------------------
(* First and Last name a member of the set.                                  *)
LEMMA FirstIs ==
  ASSUME NEW S \in SUBSET Nat, S # {}
  PROVE  First(S) \in S /\ \A j \in S : First(S) <= j
  <1>1. PICK x \in S : \A y \in S : <<y, x>> \notin OpToRel(<, Nat)
    BY WFMin, NatLessThanWellFounded
  <1>2. \A y \in S : ~ (y < x)
    BY <1>1, Zenon DEF OpToRel
  <1>3. \A y \in S : x <= y
    BY <1>2
  <1> QED BY <1>3 DEF First

LEMMA LastIs ==
  ASSUME NEW n \in Nat, NEW S \in SUBSET (0..n - 1), S # {}
  PROVE  Last(S) \in S /\ \A j \in S : j <= Last(S)
  <1> DEFINE Mirror == {n - 1 - i : i \in S}
  <1>1. Mirror \in SUBSET Nat /\ Mirror # {}
    <2>1. \A i \in S : n - 1 - i \in Nat
      OBVIOUS
    <2> QED BY <2>1
  <1>2. First(Mirror) \in Mirror /\ \A j \in Mirror : First(Mirror) <= j
    BY <1>1, FirstIs
  <1>3. PICK x \in S : First(Mirror) = n - 1 - x
    BY <1>2
  <1>4. \A j \in S : j <= x
    <2> SUFFICES ASSUME NEW j \in S PROVE j <= x
      OBVIOUS
    <2>1. n - 1 - j \in Mirror
      OBVIOUS
    <2>2. First(Mirror) <= n - 1 - j
      BY <1>2, <2>1
    <2> QED BY <1>3, <2>2
  <1> QED BY <1>4 DEF Last

LEMMA HomeInside ==
  ASSUME NEW name \in Names, NEW capacity \in Nat \ {0}
  PROVE  Home(name, capacity) \in 0..capacity - 1
  <1>1. Hash[name] \in Nat
    BY SymbolMapAssumption
  <1> QED BY <1>1 DEF Home

(* Names, and the mark of a slot without one.                                *)
LEMMA SymbolFacts ==
  ASSUME NEW s \in Symbols
  PROVE  /\ s.name = NoName => s = Free
         /\ s.name # NoName => s.name \in Names
  <1>1. NoName \notin Names
    BY SymbolMapAssumption, Zenon
  <1>2. CASE s \in [name : Names, location : AllLocations]
    BY <1>1, <1>2
  <1>3. CASE s = Free
    BY <1>3 DEF Free, Symbol
  <1> QED BY <1>2, <1>3 DEF Symbols

LEMMA NoNameIsFree == Free.name = NoName /\ NoName \notin Names
  BY SymbolMapAssumption, Zenon DEF Free, Symbol

(* A probe stops at slots of the map, from the home of the name on.          *)
LEMMA StopsAre ==
  ASSUME NEW map, map.capacity \in Nat \ {0}, NEW name \in Names
  PROVE  /\ Home(name, map.capacity) \in Slots(map)
         /\ Stops(map, name) \in SUBSET Slots(map) /\ Slots(map) \in SUBSET Nat
         /\ \A i \in Slots(map) : i \in Stops(map, name) <=>
              Home(name, map.capacity) <= i /\ map.items[i].name \in {NoName, name}
  <1>1. Home(name, map.capacity) \in 0..map.capacity - 1
    BY HomeInside
  <1>2. ASSUME NEW i \in Home(name, map.capacity)..map.capacity - 1 PROVE i \in 0..map.capacity - 1
    BY <1>1
  <1>3. Stops(map, name) \subseteq Home(name, map.capacity)..map.capacity - 1
    BY DEF Stops
  <1>4. \A i \in Slots(map) : i \in Home(name, map.capacity)..map.capacity - 1 <=> Home(name, map.capacity) <= i
    BY <1>1 DEF Slots
  <1>5. Home(name, map.capacity) \in Slots(map) /\ Slots(map) \in SUBSET Nat
    BY <1>1 DEF Slots
  <1>6. Stops(map, name) \in SUBSET Slots(map)
    BY <1>2, <1>3 DEF Slots
  <1>7. ASSUME NEW i \in Slots(map)
        PROVE  i \in Stops(map, name) <=> Home(name, map.capacity) <= i /\ map.items[i].name \in {NoName, name}
    <2>1. i \in Stops(map, name) <=>
            i \in Home(name, map.capacity)..map.capacity - 1 /\ map.items[i].name \in {NoName, name}
      BY DEF Stops
    <2> QED BY <1>4, <2>1
  <1> QED BY <1>5, <1>6, <1>7

LEMMA EmptyIsGood == Good(Empty) /\ Empty \in MapShapes
  <1>0. InitialCapacity \in Nat /\ InitialCapacity > 1
    BY SymbolMapAssumption, Zenon
  <1>1. InitialCapacity \in Nat \ {0}
    BY <1>0
  <1>2. IsMap(Empty)
    BY <1>1 DEF IsMap, Empty, Slots, Symbols
  <1>3. WellPlacedIn(Empty)
    BY DEF WellPlacedIn, Empty, Slots, Free, Symbol
  <1>4. Empty \in MapShapes
    BY <1>1 DEF Empty, MapShapes, Symbols
  <1> QED BY <1>2, <1>3, <1>4 DEF Good
-------------------------------------------------------------------------------
(* Growing, symbol by symbol: each slot of the new array is free or holds    *)
(* the last symbol of the old one that has its home there.                   *)
Heading(map, i) == {j \in Slots(map) : map.items[j].name # NoName /\ Home(map.items[j].name, 2 * map.capacity) = i}

LEMMA Grows ==
  ASSUME NEW map, IsMap(map)
  PROVE  /\ Grown(map).capacity = 2 * map.capacity /\ Grown(map).size = map.size
         /\ IsMap(Grown(map))
         /\ \A i \in Slots(Grown(map)) :
              \/ Heading(map, i) = {} /\ Grown(map).items[i] = Free
              \/ \E j \in Heading(map, i) : Grown(map).items[i] = map.items[j]
  <1> DEFINE capacity == 2 * map.capacity
             items == [i \in 0..capacity - 1 |-> IF Heading(map, i) = {} THEN Free ELSE map.items[Last(Heading(map, i))]]
  <1>1. /\ map.capacity \in Nat \ {0} /\ map.size \in Nat /\ map.items \in [Slots(map) -> Symbols]
        /\ map = [capacity |-> map.capacity, size |-> map.size, items |-> map.items]
    BY DEF IsMap
  <1>2. Grown(map) = [map EXCEPT !.capacity = capacity, !.items = items]
    BY DEF Grown, Heading
  <1>3. Grown(map) = [capacity |-> capacity, size |-> map.size, items |-> items]
    BY <1>1, <1>2
  <1>4. ASSUME NEW i \in 0..capacity - 1
        PROVE  \/ Heading(map, i) = {} /\ items[i] = Free
               \/ \E j \in Heading(map, i) : items[i] = map.items[j]
    <2>1. Heading(map, i) \subseteq 0..map.capacity - 1 /\ map.capacity \in Nat
      BY <1>1 DEF Heading, Slots
    <2>2. CASE Heading(map, i) # {}
      <3>1. Last(Heading(map, i)) \in Heading(map, i)
        BY <2>1, <2>2, LastIs
      <3> QED BY <2>2, <3>1
    <2> QED BY <2>2
  <1>5. items \in [0..capacity - 1 -> Symbols]
    <2>1. ASSUME NEW i \in 0..capacity - 1 PROVE items[i] \in Symbols
      <3>1. \A j \in Heading(map, i) : map.items[j] \in Symbols
        BY <1>1 DEF Heading
      <3> HIDE DEF items
      <3> QED BY <1>4, <3>1 DEF Symbols
    <2> QED BY <2>1
  <1>6. capacity \in Nat \ {0}
    BY <1>1
  <1> HIDE DEF items, capacity
  <1>7. IsMap(Grown(map)) /\ Slots(Grown(map)) = 0..capacity - 1
    BY <1>1, <1>3, <1>5, <1>6 DEF IsMap, Slots
  <1>8. Grown(map).capacity = capacity /\ Grown(map).size = map.size /\ Grown(map).items = items
    BY <1>3
  <1> QED BY <1>4, <1>7, <1>8 DEF capacity

LEMMA GrownIsWellPlaced ==
  ASSUME NEW map, IsMap(map), NEW after, after = Grown(map)
  PROVE  WellPlacedIn(after)
  <1>1. after.capacity = 2 * map.capacity /\ map.capacity \in Nat \ {0} /\ IsMap(after)
    BY Grows DEF IsMap
  <1> SUFFICES ASSUME NEW i \in 0..after.capacity - 1, after.items[i].name # NoName
               PROVE  /\ i \in Stops(after, after.items[i].name)
                      /\ \A j \in Stops(after, after.items[i].name) : i <= j
    BY DEF WellPlacedIn, Slots
  <1>0. i \in Slots(after)
    BY DEF Slots
  <1>2. PICK j \in Heading(map, i) : after.items[i] = map.items[j]
    BY <1>0, Grows, NoNameIsFree
  <1>3. Home(after.items[i].name, after.capacity) = i
    BY <1>1, <1>2 DEF Heading
  <1>4. after.capacity \in Nat \ {0} /\ after.items[i] \in Symbols
    BY <1>0, <1>1 DEF IsMap
  <1>5. after.items[i].name \in Names
    BY <1>4, SymbolFacts
  <1>6. i \in Nat
    BY <1>4
  <1> DEFINE name == after.items[i].name
  <1>7. Stops(after, name) \subseteq Slots(after)
    BY <1>4, <1>5, StopsAre
  <1>8. \A k \in Slots(after) : k \in Stops(after, name) <=> i <= k /\ after.items[k].name \in {NoName, name}
    <2>1. \A k \in Slots(after) : k \in Stops(after, name) <=>
            Home(name, after.capacity) <= k /\ after.items[k].name \in {NoName, name}
      BY <1>4, <1>5, StopsAre, Zenon
    <2> QED BY <1>3, <2>1, Zenon
  <1>9. i <= i
    BY <1>6
  <1>10. i \in Stops(after, name)
    BY <1>0, <1>8, <1>9, Zenon
  <1> QED BY <1>7, <1>8, <1>10

LEMMA ReadyIsGood ==
  ASSUME NEW map, Good(map)
  PROVE  Good(Ready(map)) /\ Ready(map).size = map.size /\ Ready(map).capacity >= map.capacity
  <1>1. map.capacity \in Nat \ {0}
    BY DEF Good, IsMap
  <1> QED BY <1>1, Grows, GrownIsWellPlaced DEF Ready, Good

(* A symbol is put where the probe for its name stops first, over a free     *)
(* slot or the name's older symbol, and every other symbol stays.            *)
LEMMA Puts ==
  ASSUME NEW map, Good(map), NEW name \in Names, NEW location \in AllLocations, Stops(map, name) # {},
         NEW after, after = Put(map, name, location)
  PROVE  Good(after) /\ after.capacity = map.capacity /\ Stored(map) \cup {name} \subseteq Stored(after)
  <1> DEFINE slot == First(Stops(map, name))
             items == [map.items EXCEPT ![slot] = Symbol(name, location)]
  <1>1. /\ map.capacity \in Nat \ {0} /\ map.size \in Nat /\ map.items \in [Slots(map) -> Symbols]
        /\ map = [capacity |-> map.capacity, size |-> map.size, items |-> map.items]
    BY DEF Good, IsMap
  <1>2. Stops(map, name) \subseteq Slots(map) /\ Stops(map, name) \in SUBSET Nat
    BY <1>1, StopsAre
  <1>3. slot \in Stops(map, name) /\ \A j \in Stops(map, name) : slot <= j
    BY <1>2, FirstIs
  <1>4. slot \in Slots(map) /\ map.items[slot].name \in {NoName, name}
    BY <1>1, <1>2, <1>3, StopsAre
  <1>5. Symbol(name, location) \in Symbols /\ name # NoName
    BY SymbolMapAssumption DEF Symbol, Symbols
  <1>6. after = [capacity |-> map.capacity, size |-> map.size + 1, items |-> items]
    <2>1. after = [map EXCEPT !.items = items, !.size = @ + 1]
      BY DEF Put
    <2> HIDE DEF items
    <2> QED BY <1>1, <2>1
  <1>7. items \in [Slots(map) -> Symbols]
    BY <1>1, <1>4, <1>5
  <1>8. \A i \in Slots(map) : items[i] = IF i = slot THEN Symbol(name, location) ELSE map.items[i]
    BY <1>1, <1>4
  <1>9. after.capacity = map.capacity /\ after.items = items /\ Slots(after) = Slots(map)
    BY <1>6 DEF Slots
  <1>10. IsMap(after)
    BY <1>1, <1>6, <1>7, <1>9 DEF IsMap
  <1> HIDE DEF slot, items
  <1>11. ASSUME NEW i \in Slots(map)
         PROVE  after.items[i] = IF i = slot THEN Symbol(name, location) ELSE map.items[i]
    BY <1>8, <1>9
  <1>12. WellPlacedIn(after)
    <2> SUFFICES ASSUME NEW i \in Slots(map), after.items[i].name # NoName
                 PROVE  /\ i \in Stops(after, after.items[i].name)
                        /\ \A j \in Stops(after, after.items[i].name) : i <= j
      BY <1>9 DEF WellPlacedIn
    <2> DEFINE own == after.items[i].name
    <2>1. own \in Names /\ i \in Nat
      BY <1>1, <1>7, <1>9, SymbolFacts DEF Slots
    <2>2. /\ \A k \in Slots(map) : k \in Stops(map, own) <=>
               Home(own, map.capacity) <= k /\ map.items[k].name \in {NoName, own}
          /\ \A k \in Slots(map) : k \in Stops(after, own) <=>
               Home(own, map.capacity) <= k /\ after.items[k].name \in {NoName, own}
          /\ Stops(after, own) \subseteq Slots(map)
      BY <1>1, <1>9, <2>1, StopsAre
    <2>3. Stops(after, own) \subseteq Stops(map, own)
      <3> SUFFICES ASSUME NEW k \in Slots(map), after.items[k].name \in {NoName, own}
                   PROVE  map.items[k].name \in {NoName, own}
        BY <2>2
      <3>1. CASE k = slot
        BY <1>4, <1>5, <1>11, <3>1 DEF Symbol
      <3>2. CASE k # slot
        BY <1>11, <3>2
      <3> QED BY <3>1, <3>2
    <2>4. CASE i = slot
      <3>1. own = name
        BY <1>11, <2>4 DEF Symbol
      <3>2. Home(own, map.capacity) <= i
        BY <1>3, <1>4, <2>2, <2>4, <3>1
      <3> QED BY <1>3, <2>2, <2>3, <2>4, <3>1, <3>2
    <2>5. CASE i # slot
      <3>1. map.items[i].name = own /\ i \in Stops(map, own) /\ \A j \in Stops(map, own) : i <= j
        BY <1>11, <2>5 DEF Good, WellPlacedIn
      <3> QED BY <2>2, <2>3, <3>1
    <2> QED BY <2>4, <2>5
  <1>13. Stored(map) \subseteq Stored(after)
    <2> SUFFICES ASSUME NEW i \in Slots(map), map.items[i].name # NoName
                 PROVE  \E j \in Slots(after) : after.items[j].name = map.items[i].name
      BY DEF Stored
    <2>1. CASE i = slot
      <3>1. after.items[slot].name = name /\ map.items[i].name = name
        BY <1>4, <1>11, <2>1 DEF Symbol
      <3> QED BY <1>4, <1>9, <3>1
    <2>2. CASE i # slot
      BY <1>9, <1>11, <2>2
    <2> QED BY <2>1, <2>2
  <1>14. name \in Stored(after)
    <2>1. after.items[slot].name = name
      BY <1>4, <1>11 DEF Symbol
    <2> QED BY <1>4, <1>5, <1>9, <2>1 DEF Stored
  <1> QED BY <1>9, <1>10, <1>12, <1>13, <1>14 DEF Good
-------------------------------------------------------------------------------
(* Growing drops a name only for another one with the same new home.         *)
LEMMA GrowingDrops ==
  ASSUME NEW map, Good(map), NEW name \in Stored(map), name \notin Stored(Grown(map))
  PROVE  \E m \in Stored(map) \ {name} :
           m \in Stored(Grown(map)) /\ Home(m, 2 * map.capacity) = Home(name, 2 * map.capacity)
  <1> DEFINE home == Home(name, 2 * map.capacity)
  <1>1. map.capacity \in Nat \ {0} /\ map.items \in [Slots(map) -> Symbols]
    BY DEF Good, IsMap
  <1>2. PICK j \in Slots(map) : map.items[j].name = name /\ name # NoName
    BY DEF Stored
  <1>3. name \in Names
    BY <1>1, <1>2, SymbolFacts
  <1>4. j \in Heading(map, home)
    BY <1>2 DEF Heading
  <1>5. home \in Slots(Grown(map))
    <2>1. 2 * map.capacity \in Nat \ {0}
      BY <1>1
    <2>2. Grown(map).capacity = 2 * map.capacity
      BY Grows DEF Good
    <2> QED BY <1>3, <2>1, <2>2, HomeInside DEF Slots
  <1>6. PICK l \in Heading(map, home) : Grown(map).items[home] = map.items[l]
    BY <1>4, <1>5, Grows DEF Good
  <1>7. /\ l \in Slots(map) /\ map.items[l].name # NoName
        /\ Home(map.items[l].name, 2 * map.capacity) = home
    BY <1>6 DEF Heading
  <1>8. map.items[l].name \in Stored(map) /\ map.items[l].name \in Stored(Grown(map))
    BY <1>5, <1>6, <1>7 DEF Stored
  <1> QED BY <1>7, <1>8

(* symbol_map_set: the map is made ready and the symbol put.                 *)
LEMMA Sets ==
  ASSUME MapsInv, NEW d \in DOMAIN maps, NEW name \in Names, NEW location \in AllLocations,
         Stops(Ready(maps[d]), name) # {},
         NEW after, after = Put(Ready(maps[d]), name, location)
  PROVE  /\ Good(after)
         /\ \A n \in Stored(maps[d]) \ Stored(after) :
              /\ after.capacity > maps[d].capacity
              /\ \E m \in Stored(maps[d]) \ {n} :
                   m \in Stored(after) /\ Home(m, after.capacity) = Home(n, after.capacity)
  <1> DEFINE map == maps[d]
             ready == Ready(maps[d])
  <1>1. Good(map) /\ map.capacity \in Nat \ {0}
    BY DEF MapsInv, Good, IsMap
  <1>2. Good(ready)
    BY <1>1, ReadyIsGood
  <1>3. Good(after) /\ after.capacity = ready.capacity /\ Stored(ready) \subseteq Stored(after)
    BY <1>2, Puts
  <1>4. ASSUME NEW n \in Stored(map) \ Stored(after)
        PROVE  /\ after.capacity > map.capacity
               /\ \E m \in Stored(map) \ {n} :
                    m \in Stored(after) /\ Home(m, after.capacity) = Home(n, after.capacity)
    <2>1. ready = Grown(map)
      BY <1>3, <1>4 DEF Ready
    <2>2. ready.capacity = 2 * map.capacity
      BY <1>1, <2>1, Grows DEF Good
    <2>3. after.capacity > map.capacity
      BY <1>1, <1>3, <2>2
    <2>4. PICK m \in Stored(map) \ {n} :
            m \in Stored(ready) /\ Home(m, 2 * map.capacity) = Home(n, 2 * map.capacity)
      BY <1>1, <1>3, <1>4, <2>1, GrowingDrops
    <2> QED BY <1>3, <2>2, <2>3, <2>4
  <1> QED BY <1>3, <1>4

LEMMA ShapeOf == ASSUME NEW map, IsMap(map) PROVE map \in MapShapes
  BY DEF IsMap, MapShapes, Slots
-------------------------------------------------------------------------------
LEMMA SomeMaps == Len(MaxSets) \in Nat \ {0}
  <1>1. MaxSets \in Seq(Nat) /\ MaxSets # <<>>
    BY SymbolMapAssumption, Zenon
  <1> QED BY <1>1

LEMMA MapsStart == Init => MapsInv
  <1> SUFFICES ASSUME Init PROVE MapsInv
    OBVIOUS
  <1>1. maps \in Seq(MapShapes) /\ Len(maps) = 1 /\ \A d \in DOMAIN maps : maps[d] = Empty
    BY EmptyIsGood DEF Init
  <1>2. 1 \in 1..Len(MaxSets)
    BY SomeMaps
  <1> QED BY <1>1, <1>2, EmptyIsGood DEF Init, MapsInv

(* What a set does to the map it is given, and to no other.                  *)
LEMMA SetStep ==
  ASSUME MapsInv, NEW d \in DOMAIN maps, NEW name \in Names, NEW location \in AllLocations, Set(d, name, location)
  PROVE  /\ MapsInv'
         /\ DOMAIN maps' = DOMAIN maps
         /\ \A e \in DOMAIN maps : e # d => maps'[e] = maps[e]
         /\ \A n \in Stored(maps[d]) \ Stored(maps'[d]) :
              /\ maps'[d].capacity > maps[d].capacity
              /\ \E m \in Stored(maps[d]) \ {n} :
                   m \in Stored(maps'[d]) /\ Home(m, maps'[d].capacity) = Home(n, maps'[d].capacity)
  <1>1. CASE Stops(Ready(maps[d]), name) = {}
    <2>1. maps' = maps /\ status' = "undefined"
      BY <1>1 DEF Set
    <2> QED BY <2>1 DEF MapsInv
  <1>2. CASE Stops(Ready(maps[d]), name) # {}
    <2> DEFINE after == Put(Ready(maps[d]), name, location)
    <2>1. maps' = [maps EXCEPT ![d] = after] /\ status' = status
      BY <1>2 DEF Set
    <2>2. /\ Good(after)
          /\ \A n \in Stored(maps[d]) \ Stored(after) :
               /\ after.capacity > maps[d].capacity
               /\ \E m \in Stored(maps[d]) \ {n} :
                    m \in Stored(after) /\ Home(m, after.capacity) = Home(n, after.capacity)
      BY <1>2, Sets
    <2>3. after \in MapShapes
      BY <2>2, ShapeOf DEF Good
    <2> HIDE DEF after
    <2>4. maps' \in Seq(MapShapes) /\ Len(maps') = Len(maps) /\ DOMAIN maps' = DOMAIN maps
      BY <2>1, <2>3 DEF MapsInv
    <2>5. maps'[d] = after /\ \A e \in DOMAIN maps : e # d => maps'[e] = maps[e]
      BY <2>1, <2>4 DEF MapsInv
    <2>6. MapsInv'
      BY <2>1, <2>2, <2>4, <2>5 DEF MapsInv
    <2> QED BY <2>2, <2>4, <2>5, <2>6
  <1> QED BY <1>1, <1>2

LEMMA CreateStep ==
  ASSUME MapsInv, Create
  PROVE  MapsInv' /\ \A d \in DOMAIN maps : maps'[d] = maps[d]
  <1>1. maps' = Append(maps, Empty) /\ status' = status /\ maps \in Seq(MapShapes) /\ Len(maps) < Len(MaxSets)
    BY DEF Create, MapsInv
  <1>2. maps' \in Seq(MapShapes) /\ Len(maps') = Len(maps) + 1 /\ DOMAIN maps' = 1..Len(maps) + 1
    BY <1>1, EmptyIsGood
  <1>3. \A d \in DOMAIN maps : maps'[d] = maps[d]
    BY <1>1
  <1>4. maps'[Len(maps) + 1] = Empty
    BY <1>1
  <1>5. ASSUME NEW d \in DOMAIN maps' PROVE Good(maps'[d])
    <2>1. d \in DOMAIN maps \/ d = Len(maps) + 1
      BY <1>1, <1>2
    <2> QED BY <1>3, <1>4, <2>1, EmptyIsGood DEF MapsInv
  <1>6. Len(MaxSets) \in Nat
    BY SomeMaps
  <1>7. Len(maps') \in 1..Len(MaxSets)
    BY <1>1, <1>2, <1>6
  <1> QED BY <1>1, <1>2, <1>3, <1>5, <1>7 DEF MapsInv

LEMMA DestroyStep ==
  ASSUME MapsInv, Destroy
  PROVE  MapsInv' /\ DOMAIN maps' \subseteq DOMAIN maps /\ \A d \in DOMAIN maps' : maps'[d] = maps[d]
  <1>1. /\ maps' = SubSeq(maps, 1, Len(maps) - 1) /\ status' = status
        /\ maps \in Seq(MapShapes) /\ Len(maps) > 1 /\ Len(maps) \in Nat
    BY DEF Destroy, MapsInv
  <1>2. maps' \in Seq(MapShapes) /\ Len(maps') = Len(maps) - 1 /\ DOMAIN maps' = 1..Len(maps) - 1
    BY <1>1
  <1>3. DOMAIN maps' \subseteq DOMAIN maps /\ \A d \in DOMAIN maps' : maps'[d] = maps[d]
    BY <1>1, <1>2
  <1>4. Len(maps') \in 1..Len(MaxSets)
    <2>1. Len(MaxSets) \in Nat /\ Len(maps) <= Len(MaxSets)
      BY SomeMaps DEF MapsInv
    <2> QED BY <1>1, <1>2, <2>1
  <1> QED BY <1>1, <1>2, <1>3, <1>4 DEF MapsInv

LEMMA MapsStep == MapsInv /\ [Next]_vars => MapsInv'
  <1> SUFFICES ASSUME MapsInv, [Next]_vars PROVE MapsInv'
    OBVIOUS
  <1>1. Len(maps) \in DOMAIN maps /\ 1 \in DOMAIN maps
    BY DEF MapsInv
  <1>2. ASSUME NEW name \in Names, NEW location \in Locations, Declare(name, location) PROVE MapsInv'
    BY <1>1, <1>2, SetStep DEF Declare, AllLocations
  <1>3. ASSUME NEW name \in Names, Register(name) PROVE MapsInv'
    BY <1>1, <1>3, SetStep DEF Register, AllLocations
  <1>4. CASE Overrun
    BY <1>4 DEF Overrun, MapsInv
  <1>5. CASE UNCHANGED vars
    BY <1>5 DEF vars, MapsInv
  <1> QED BY <1>2, <1>3, <1>4, <1>5, CreateStep, DestroyStep DEF Next

THEOREM MapsInvariant == Spec => []MapsInv
  BY MapsStart, MapsStep, PTL DEF Spec
-------------------------------------------------------------------------------
(* A lookup in one map: what the map holds of the name, and otherwise that   *)
(* it holds nothing or that the probe leaves the array.                      *)
LEMMA Finds ==
  ASSUME NEW map, Good(map), NEW name \in Names, NEW i \in Slots(map), map.items[i].name = name
  PROVE  GetLocal(map, name) = map.items[i].location
  <1>1. map.capacity \in Nat \ {0} /\ name # NoName
    BY SymbolMapAssumption DEF Good, IsMap
  <1> DEFINE home == Home(name, map.capacity)
             stops == Stops(map, name)
  <1>2. /\ home \in Slots(map) /\ stops \in SUBSET Nat /\ home \in Nat
        /\ \A k \in Slots(map) : k \in stops <=> home <= k /\ map.items[k].name \in {NoName, name}
    BY <1>1, StopsAre
  <1>3. i \in stops /\ \A j \in stops : i <= j
    BY <1>1 DEF Good, WellPlacedIn
  <1>4. First(stops) \in stops /\ \A j \in stops : First(stops) <= j
    BY <1>2, <1>3, FirstIs
  <1>5. First(stops) = i
    BY <1>2, <1>3, <1>4
  <1>6. map.items[home] # Free
    <2> SUFFICES ASSUME map.items[home] = Free PROVE FALSE
      OBVIOUS
    <2>1. home \in stops
      BY <1>2, NoNameIsFree
    <2>2. home = i
      BY <1>2, <1>3, <2>1
    <2> QED BY <1>1, <2>2, NoNameIsFree
  <1> QED BY <1>3, <1>5, <1>6 DEF GetLocal

LEMMA Misses ==
  ASSUME NEW map, Good(map), NEW name \in Names, name \notin Stored(map)
  PROVE  GetLocal(map, name) \in {"undefined", "off the end"}
  <1> DEFINE stops == Stops(map, name)
  <1>1. map.capacity \in Nat \ {0} /\ map.items \in [Slots(map) -> Symbols] /\ name # NoName
    BY SymbolMapAssumption DEF Good, IsMap
  <1> SUFFICES ASSUME stops # {} PROVE map.items[First(stops)].location = "undefined"
    BY DEF GetLocal
  <1>2. stops \in SUBSET Slots(map) /\ stops \in SUBSET Nat
    BY <1>1, StopsAre
  <1>3. First(stops) \in stops
    BY <1>2, FirstIs
  <1>4. First(stops) \in Slots(map) /\ map.items[First(stops)].name \in {NoName, name}
    BY <1>2, <1>3 DEF Stops
  <1>5. map.items[First(stops)].name = NoName
    BY <1>1, <1>4 DEF Stored
  <1>6. map.items[First(stops)] = Free
    BY <1>1, <1>4, <1>5, SymbolFacts
  <1> QED BY <1>6 DEF Free, Symbol

LEMMA StoredIs ==
  ASSUME NEW map, Good(map), NEW name \in Stored(map)
  PROVE  /\ name \in Names
         /\ \E i \in Slots(map) : map.items[i].name = name /\ GetLocal(map, name) = map.items[i].location
         /\ GetLocal(map, name) \in AllLocations
  <1>1. PICK i \in Slots(map) : map.items[i].name = name /\ name # NoName
    BY DEF Stored
  <1>2. map.items[i] \in Symbols
    BY <1>1 DEF Good, IsMap
  <1>3. name \in Names /\ map.items[i] \in [name : Names, location : AllLocations]
    BY <1>1, <1>2, SymbolFacts, NoNameIsFree DEF Symbols
  <1>4. GetLocal(map, name) = map.items[i].location
    BY <1>1, <1>3, Finds
  <1> QED BY <1>1, <1>3, <1>4

(* A symbol that growing keeps, keeps its location.                          *)
LEMMA GrowingKeeps ==
  ASSUME NEW map, Good(map), NEW name \in Stored(Grown(map))
  PROVE  name \in Stored(map) /\ GetLocal(Grown(map), name) = GetLocal(map, name)
  <1>1. Good(Grown(map))
    BY Grows, GrownIsWellPlaced DEF Good
  <1>2. PICK i \in Slots(Grown(map)) : Grown(map).items[i].name = name /\ GetLocal(Grown(map), name) = Grown(map).items[i].location
    BY <1>1, StoredIs
  <1>3. name \in Names /\ name # NoName
    BY <1>1, StoredIs, NoNameIsFree
  <1>4. PICK j \in Heading(map, i) : Grown(map).items[i] = map.items[j]
    BY <1>2, <1>3, Grows, NoNameIsFree DEF Good
  <1>5. j \in Slots(map) /\ map.items[j].name = name
    BY <1>2, <1>4 DEF Heading
  <1>6. GetLocal(map, name) = map.items[j].location
    BY <1>3, <1>5, Finds
  <1> QED BY <1>2, <1>3, <1>4, <1>5, <1>6 DEF Stored

(* Putting a symbol, slot by slot.                                           *)
LEMMA PutSlots ==
  ASSUME NEW map, Good(map), NEW name \in Names, NEW location \in AllLocations, Stops(map, name) # {},
         NEW after, after = Put(map, name, location),
         NEW slot, slot = First(Stops(map, name))
  PROVE  /\ slot \in Slots(map) /\ map.items[slot].name \in {NoName, name}
         /\ Slots(after) = Slots(map)
         /\ \A i \in Slots(map) : after.items[i] = IF i = slot THEN Symbol(name, location) ELSE map.items[i]
  <1>1. /\ map.capacity \in Nat \ {0} /\ map.items \in [Slots(map) -> Symbols]
        /\ map = [capacity |-> map.capacity, size |-> map.size, items |-> map.items]
    BY DEF Good, IsMap
  <1>2. Stops(map, name) \in SUBSET Slots(map) /\ Stops(map, name) \in SUBSET Nat
    BY <1>1, StopsAre
  <1>3. slot \in Slots(map) /\ map.items[slot].name \in {NoName, name}
    BY <1>2, FirstIs DEF Stops
  <1>4. after.capacity = map.capacity /\ after.items = [map.items EXCEPT ![slot] = Symbol(name, location)]
    BY <1>1 DEF Put
  <1> QED BY <1>1, <1>3, <1>4 DEF Slots

(* What a map holds once a symbol is put: that symbol, and all it held.      *)
LEMMA PutContents ==
  ASSUME NEW map, Good(map), NEW name \in Names, NEW location \in AllLocations, Stops(map, name) # {},
         NEW after, after = Put(map, name, location)
  PROVE  /\ Stored(after) = Stored(map) \cup {name}
         /\ GetLocal(after, name) = location
         /\ \A n \in Stored(map) \ {name} : GetLocal(after, n) = GetLocal(map, n)
  <1> DEFINE slot == First(Stops(map, name))
  <1>1. Good(after) /\ Stored(map) \cup {name} \subseteq Stored(after)
    BY Puts
  <1>2. /\ slot \in Slots(map) /\ map.items[slot].name \in {NoName, name}
        /\ Slots(after) = Slots(map)
        /\ \A i \in Slots(map) : after.items[i] = IF i = slot THEN Symbol(name, location) ELSE map.items[i]
    BY PutSlots
  <1> HIDE DEF slot
  <1>3. after.items[slot].name = name /\ after.items[slot].location = location
    BY <1>2 DEF Symbol
  <1>4. ASSUME NEW n \in Stored(after), n # name PROVE n \in Stored(map)
    <2>1. PICK i \in Slots(after) : after.items[i].name = n /\ n # NoName
      BY <1>4 DEF Stored
    <2>2. map.items[i].name = n
      BY <1>2, <1>3, <1>4, <2>1
    <2> QED BY <1>2, <2>1, <2>2 DEF Stored
  <1>5. ASSUME NEW n \in Stored(map) \ {name} PROVE GetLocal(after, n) = GetLocal(map, n)
    <2>1. PICK i \in Slots(map) : map.items[i].name = n /\ GetLocal(map, n) = map.items[i].location
      BY StoredIs
    <2>2. n \in Names /\ n # NoName
      BY StoredIs, NoNameIsFree
    <2>3. after.items[i] = map.items[i] /\ i \in Slots(after)
      BY <1>2, <2>1, <2>2
    <2> QED BY <1>1, <2>1, <2>2, <2>3, Finds
  <1>6. GetLocal(after, name) = location
    BY <1>1, <1>2, <1>3, Finds
  <1> QED BY <1>1, <1>4, <1>5, <1>6

(* symbol_map_set as the scopes have it, if growing loses nothing.           *)
LEMMA SetContents ==
  ASSUME NEW map, Good(map), NEW name \in Names, NEW location \in AllLocations, Stops(Ready(map), name) # {},
         NEW after, after = Put(Ready(map), name, location),
         after.capacity > map.capacity => Stored(map) \subseteq Stored(after)
  PROVE  /\ Stored(after) = Stored(map) \cup {name}
         /\ \A n \in Stored(after) : GetLocal(after, n) = IF n = name THEN location ELSE GetLocal(map, n)
  <1> DEFINE ready == Ready(map)
  <1>1. Good(ready) /\ map.capacity \in Nat \ {0}
    BY ReadyIsGood DEF Good, IsMap
  <1>2. /\ Stored(after) = Stored(ready) \cup {name} /\ GetLocal(after, name) = location
        /\ \A n \in Stored(ready) \ {name} : GetLocal(after, n) = GetLocal(ready, n)
    BY <1>1, PutContents
  <1>3. /\ \A n \in Stored(ready) : n \in Stored(map) /\ GetLocal(ready, n) = GetLocal(map, n)
        /\ Stored(map) \subseteq Stored(after)
    <2>1. CASE ready = map
      BY <1>2, <2>1
    <2>2. CASE ready # map
      <3>1. ready = Grown(map)
        BY <2>2 DEF Ready
      <3>2. after.capacity = 2 * map.capacity
        BY <1>1, <3>1, Puts, Grows DEF Good
      <3> QED BY <1>1, <3>1, <3>2, GrowingKeeps
    <2> QED BY <2>1, <2>2
  <1> HIDE DEF ready
  <1>4. Stored(after) = Stored(map) \cup {name}
    BY <1>2, <1>3
  <1>5. \A n \in Stored(after) : GetLocal(after, n) = IF n = name THEN location ELSE GetLocal(map, n)
    BY <1>2, <1>3
  <1> QED BY <1>4, <1>5

(* The abstract scopes, one for each map.                                    *)
Abstracted == [d \in DOMAIN maps |-> Contents(maps[d])]

LEMMA LastUnique ==
  ASSUME NEW n \in Nat, NEW S \in SUBSET (1..n), NEW x \in S, \A y \in S : y <= x
  PROVE  Last(S) = x
  <1>1. Last(S) \in S /\ \A y \in S : y <= Last(S)
    BY DEF Last
  <1>2. x \in Int /\ Last(S) \in Int
    <2>1. \A y : y \in S => y \in 1..n
      OBVIOUS
    <2>2. \A y : y \in 1..n => y \in Int
      OBVIOUS
    <2> QED BY <1>1, <2>1, <2>2, Zenon
  <1>3. x <= Last(S) /\ Last(S) <= x
    BY <1>1
  <1> QED BY <1>2, <1>3

LEMMA LastOf ==
  ASSUME NEW n \in Nat, NEW S \in SUBSET (1..n), S # {}
  PROVE  Last(S) \in S /\ \A y \in S : y <= Last(S)
  <1>1. n + 1 \in Nat /\ S \in SUBSET (0..(n + 1) - 1)
    OBVIOUS
  <1> QED BY <1>1, LastIs

(* The innermost map that answers holds the name, or cannot tell.            *)
LEMMA Nearest == MapsInv => GetsNearest
  <1> SUFFICES ASSUME MapsInv, NEW name \in Names PROVE Get(name) \in {Ideal!Get(name), "off the end"}
    BY DEF GetsNearest
  <1> DEFINE answers == {d \in DOMAIN maps : GetLocal(maps[d], name) # "undefined"}
             holders == {d \in DOMAIN maps : name \in Stored(maps[d])}
             last == Last(answers)
  <1>1. DOMAIN maps = 1..Len(maps) /\ Len(maps) \in Nat /\ \A d \in DOMAIN maps : Good(maps[d])
    BY DEF MapsInv
  <1>2. \A d \in DOMAIN maps :
          /\ name \in Stored(maps[d]) => GetLocal(maps[d], name) \notin {"undefined", "off the end"}
          /\ name \notin Stored(maps[d]) => GetLocal(maps[d], name) \in {"undefined", "off the end"}
    <2>1. "undefined" \notin AllLocations /\ "off the end" \notin AllLocations
      BY SymbolMapAssumption, Zenon
    <2> SUFFICES ASSUME NEW d \in DOMAIN maps
                 PROVE  /\ name \in Stored(maps[d]) => GetLocal(maps[d], name) \notin {"undefined", "off the end"}
                        /\ name \notin Stored(maps[d]) => GetLocal(maps[d], name) \in {"undefined", "off the end"}
      OBVIOUS
    <2>2. name \in Stored(maps[d]) => GetLocal(maps[d], name) \in AllLocations
      BY <1>1, StoredIs
    <2> QED BY <1>1, <2>1, <2>2, Misses
  <1>3. Ideal!Get(name) = IF holders = {} THEN "undefined" ELSE GetLocal(maps[Last(holders)], name)
    <2>1. holders = {d \in DOMAIN Abstracted : name \in DOMAIN Abstracted[d]}
      BY DEF Abstracted, Contents
    <2>2. ASSUME holders # {} PROVE Abstracted[Last(holders)][name] = GetLocal(maps[Last(holders)], name)
      <3>1. Last(holders) \in holders
        BY <1>1, <2>2, LastOf
      <3> QED BY <3>1 DEF Abstracted, Contents
    <2> QED BY <2>1, <2>2 DEF Ideal!Get, Ideal!Undefined, Last, Abstracted
  <1>4. holders \subseteq answers
    BY <1>2
  <1>5. CASE answers = {}
    BY <1>3, <1>4, <1>5 DEF Get
  <1>6. CASE answers # {}
    <2>1. last \in answers /\ \A d \in answers : d <= last
      BY <1>1, <1>6, LastOf
    <2>2. Get(name) = GetLocal(maps[last], name)
      BY <1>6 DEF Get
    <2> HIDE DEF last
    <2>3. CASE last \in holders
      <3>1. \A d \in holders : d <= last
        BY <1>4, <2>1
      <3>2. Last(holders) = last
        BY <1>1, <2>3, <3>1, LastUnique
      <3> QED BY <1>3, <2>2, <2>3, <3>2
    <2>4. CASE last \notin holders
      BY <1>2, <2>1, <2>2, <2>4
    <2> QED BY <2>3, <2>4
  <1> QED BY <1>5, <1>6
-------------------------------------------------------------------------------
AbstractScopes == {Contents(map) : map \in MapShapes}

LEMMA ScopesAre ==
  ASSUME MapsInv
  PROVE  /\ Abstracted \in Seq(AbstractScopes) /\ Len(Abstracted) = Len(maps)
         /\ DOMAIN maps = 1..Len(maps) /\ Len(maps) \in Nat
         /\ \A d \in 1..Len(maps) : Abstracted[d] = Contents(maps[d])
  <1>1. maps \in Seq(MapShapes) /\ DOMAIN maps = 1..Len(maps) /\ Len(maps) \in Nat
    BY DEF MapsInv
  <1>2. \A d \in 1..Len(maps) : Contents(maps[d]) \in AbstractScopes
    BY <1>1 DEF AbstractScopes
  <1>3. Abstracted = [d \in 1..Len(maps) |-> Contents(maps[d])]
    BY <1>1 DEF Abstracted
  <1>4. Abstracted \in [1..Len(maps) -> AbstractScopes]
    BY <1>2, <1>3
  <1>5. Abstracted \in Seq(AbstractScopes) /\ Len(Abstracted) = Len(maps)
    BY <1>1, <1>3, <1>4
  <1> QED BY <1>1, <1>3, <1>5

LEMMA EmptyHoldsNothing == Contents(Empty) = <<>>
  <1>1. Stored(Empty) = {}
    BY NoNameIsFree DEF Stored, Empty, Slots
  <1> QED BY <1>1 DEF Contents

LEMMA SetAbstractly ==
  ASSUME MapsInv, NEW d \in DOMAIN maps, NEW name \in Names, NEW location \in AllLocations,
         Set(d, name, location), status' # "undefined", ~ Drops(d)
  PROVE  Ideal!Set(d, name, location)
  <1> DEFINE after == Put(Ready(maps[d]), name, location)
  <1>0. after = Put(Ready(maps[d]), name, location)
    OBVIOUS
  <1>1. Stops(Ready(maps[d]), name) # {} /\ maps' = [maps EXCEPT ![d] = after]
    BY DEF Set
  <1>2. MapsInv' /\ DOMAIN maps' = DOMAIN maps
    BY SetStep
  <1>3. DOMAIN maps = 1..Len(maps) /\ Len(maps) \in Nat /\ maps \in Seq(MapShapes) /\ Good(maps[d])
    BY DEF MapsInv
  <1>4. maps'[d] = after /\ \A e \in DOMAIN maps \ {d} : maps'[e] = maps[e]
    BY <1>1, <1>3
  <1>5. after.capacity > maps[d].capacity => Stored(maps[d]) \subseteq Stored(after)
    BY <1>2, <1>4 DEF Drops
  <1>6. Contents(after) = [n \in Stored(maps[d]) \cup {name} |-> IF n = name THEN location ELSE GetLocal(maps[d], n)]
    <2> HIDE DEF after
    <2>1. /\ Stored(after) = Stored(maps[d]) \cup {name}
          /\ \A n \in Stored(after) : GetLocal(after, n) = IF n = name THEN location ELSE GetLocal(maps[d], n)
      BY <1>0, <1>1, <1>3, <1>5, SetContents
    <2> QED BY <2>1 DEF Contents
  <1> HIDE DEF after
  <1> DEFINE scope == [n \in Stored(maps[d]) \cup {name} |-> IF n = name THEN location ELSE Contents(maps[d])[n]]
  <1>7. scope = Contents(after)
    BY <1>6 DEF Contents
  <1>8. [e \in DOMAIN maps' |-> Contents(maps'[e])] = [Abstracted EXCEPT ![d] = scope]
    BY <1>2, <1>4, <1>7 DEF Abstracted
  <1>9. scope = [n \in DOMAIN Abstracted[d] \cup {name} |-> IF n = name THEN location ELSE Abstracted[d][n]]
    BY DEF Abstracted, Contents
  <1> QED BY <1>8, <1>9 DEF Ideal!Set, Abstracted

LEMMA CreateAbstractly ==
  ASSUME MapsInv, Create
  PROVE  Ideal!Create
  <1>1. MapsInv' /\ Len(maps') = Len(maps) + 1 /\ maps'[Len(maps) + 1] = Empty
    BY CreateStep, EmptyIsGood DEF Create, MapsInv
  <1>2. \A d \in DOMAIN maps : maps'[d] = maps[d]
    BY CreateStep
  <1> DEFINE after == [d \in DOMAIN maps' |-> Contents(maps'[d])]
  <1>3. /\ DOMAIN maps' = 1..Len(maps) + 1 /\ DOMAIN maps = 1..Len(maps) /\ Len(maps) \in Nat
        /\ Abstracted \in Seq(AbstractScopes) /\ Len(Abstracted) = Len(maps)
        /\ \A d \in 1..Len(maps) : Abstracted[d] = Contents(maps[d])
    BY <1>1, ScopesAre DEF MapsInv
  <1>4. Contents(Empty) = <<>> /\ <<>> \in AbstractScopes
    BY EmptyHoldsNothing, EmptyIsGood DEF AbstractScopes
  <1>5. Append(Abstracted, <<>>) \in Seq(AbstractScopes)
    BY <1>3, <1>4
  <1>6. \A d \in 1..Len(maps) + 1 : Append(Abstracted, <<>>)[d] = Contents(maps'[d])
    BY <1>1, <1>2, <1>3, <1>4
  <1>7. DOMAIN Append(Abstracted, <<>>) = 1..Len(maps) + 1
    BY <1>3, <1>4
  <1>8. after = Append(Abstracted, <<>>)
    <2> DEFINE longer == Append(Abstracted, <<>>)
    <2>0. longer \in Seq(AbstractScopes) /\ DOMAIN longer = DOMAIN maps'
      BY <1>3, <1>5, <1>7
    <2> HIDE DEF longer
    <2>1. longer = [d \in DOMAIN maps' |-> longer[d]]
      BY <2>0, LenProperties
    <2> QED BY <1>3, <1>6, <2>1 DEF longer
  <1> QED BY <1>8 DEF Ideal!Create, Abstracted

LEMMA DestroyAbstractly ==
  ASSUME MapsInv, Destroy
  PROVE  Ideal!Destroy
  <1>1. Len(maps) > 1 /\ maps' = SubSeq(maps, 1, Len(maps) - 1) /\ maps \in Seq(MapShapes)
    BY DEF MapsInv, Destroy
  <1> DEFINE after == [d \in DOMAIN maps' |-> Contents(maps'[d])]
  <1>2. /\ DOMAIN maps = 1..Len(maps) /\ Len(maps) \in Nat
        /\ Abstracted \in Seq(AbstractScopes) /\ Len(Abstracted) = Len(maps)
        /\ \A d \in 1..Len(maps) : Abstracted[d] = Contents(maps[d])
    BY ScopesAre
  <1>3. DOMAIN maps' = 1..Len(maps) - 1 /\ \A d \in 1..Len(maps) - 1 : maps'[d] = maps[d]
    BY <1>1, <1>2
  <1>4. DOMAIN SubSeq(Abstracted, 1, Len(maps) - 1) = 1..Len(maps) - 1
    BY <1>1, <1>2
  <1>5. \A d \in 1..Len(maps) - 1 : SubSeq(Abstracted, 1, Len(maps) - 1)[d] = Contents(maps'[d])
    BY <1>1, <1>2, <1>3
  <1>6. SubSeq(Abstracted, 1, Len(maps) - 1) \in Seq(AbstractScopes)
    BY <1>1, <1>2
  <1>7. after = SubSeq(Abstracted, 1, Len(maps) - 1)
    BY <1>3, <1>4, <1>5, <1>6
  <1> QED BY <1>1, <1>2, <1>7 DEF Ideal!Destroy, Abstracted
-------------------------------------------------------------------------------
(* Every map of the chain stays a hash map of symbols.                       *)
THEOREM MapsTyped == Spec => []TypeOK
  <1>1. MapsInv => TypeOK
    BY DEF MapsInv, TypeOK, Good
  <1> QED BY <1>1, MapsInvariant, PTL

(* Whatever is set, grown, opened and closed, for every hash: the first slot *)
(* where a probe for a stored name stops is the one that holds it            *)
(* (symbol.c:65, symbol.c:84).                                               *)
THEOREM SymbolsFound == Spec => []WellPlaced
  <1>1. MapsInv => WellPlaced
    BY DEF MapsInv, Good, WellPlacedIn, WellPlaced
  <1> QED BY <1>1, MapsInvariant, PTL

(* The one way to lose a name of an open scope is a growing map that holds   *)
(* another name with the same home (symbol.c:51).                            *)
THEOREM OnlyGrowingLoses == Spec => LosesOnlyToGrowing
  <1> DEFINE Kept(d) == \A n \in Stored(maps[d]) \ Stored(maps'[d]) :
                          /\ maps'[d].capacity > maps[d].capacity
                          /\ \E m \in Stored(maps[d]) \ {n} :
                               m \in Stored(maps'[d]) /\ Home(m, maps'[d].capacity) = Home(n, maps'[d].capacity)
  <1>1. ASSUME MapsInv, Next, NEW d \in DOMAIN maps \cap DOMAIN maps' PROVE Kept(d)
    <2>1. Len(maps) \in DOMAIN maps /\ 1 \in DOMAIN maps
      BY <1>1 DEF MapsInv
    <2>2. ASSUME maps'[d] = maps[d] PROVE Kept(d)
      BY <2>2
    <2>3. ASSUME NEW e \in DOMAIN maps, NEW name \in Names, NEW location \in AllLocations, Set(e, name, location)
          PROVE  Kept(d)
      <3>1. CASE d = e
        BY <1>1, <2>3, <3>1, SetStep
      <3>2. CASE d # e
        BY <1>1, <2>2, <2>3, <3>2, SetStep
      <3> QED BY <3>1, <3>2
    <2>4. ASSUME NEW name \in Names, NEW location \in Locations, Declare(name, location) PROVE Kept(d)
      BY <2>1, <2>3, <2>4 DEF Declare, AllLocations
    <2>5. ASSUME NEW name \in Names, Register(name) PROVE Kept(d)
      BY <2>1, <2>3, <2>5 DEF Register, AllLocations
    <2>6. CASE Overrun
      BY <2>2, <2>6 DEF Overrun
    <2>7. CASE Create
      BY <1>1, <2>2, <2>7, CreateStep
    <2>8. CASE Destroy
      BY <1>1, <2>2, <2>8, DestroyStep
    <2> HIDE DEF Kept
    <2> QED BY <1>1, <2>4, <2>5, <2>6, <2>7, <2>8 DEF Next
  <1>2. MapsInv /\ [Next]_vars => [\A d \in DOMAIN maps \cap DOMAIN maps' : Kept(d)]_vars
    BY <1>1
  <1> QED BY <1>2, MapsInvariant, PTL DEF Spec, LosesOnlyToGrowing

(* Whatever was declared, lost and closed, a lookup through the chain gives  *)
(* what the innermost map that holds the name gives, unless a probe leaves   *)
(* an array: no scope is skipped, no other name answers (symbol.c:76).       *)
THEOREM LookupsFindNearest == Spec => []GetsNearest
  BY Nearest, MapsInvariant, PTL

(* The maps are the scopes the compiler counts on, call by call, as long as  *)
(* a growing map drops nothing and no probe leaves an array (symbol.c:51).   *)
THEOREM MapsAreScopes == Spec => ImplementsUnlessDropping
  <1> DEFINE Allowed == Ideal!Next \/ status' = "undefined" \/ \E d \in DOMAIN maps : Drops(d)
  <1>1. ASSUME MapsInv, Next PROVE Allowed
    <2>1. Len(maps) \in DOMAIN maps /\ 1 \in DOMAIN maps /\ DOMAIN [d \in DOMAIN maps |-> Contents(maps[d])] = DOMAIN maps
      BY <1>1 DEF MapsInv
    <2>2. ASSUME NEW d \in DOMAIN maps, NEW name \in Names, NEW location \in AllLocations, Set(d, name, location)
          PROVE  Allowed
      BY <1>1, <2>1, <2>2, SetAbstractly DEF Ideal!Next
    <2> HIDE DEF Allowed
    <2>3. ASSUME NEW name \in Names, NEW location \in Locations, Declare(name, location) PROVE Allowed
      BY <2>1, <2>2, <2>3 DEF Declare, AllLocations
    <2>4. ASSUME NEW name \in Names, Register(name) PROVE Allowed
      BY <2>1, <2>2, <2>4 DEF Register, AllLocations
    <2>5. CASE Overrun
      BY <2>5 DEF Overrun, Allowed
    <2>6. CASE Create
      BY <1>1, <2>6, CreateAbstractly DEF Ideal!Next, Allowed
    <2>7. CASE Destroy
      BY <1>1, <2>7, DestroyAbstractly DEF Ideal!Next, Allowed
    <2> QED BY <1>1, <2>3, <2>4, <2>5, <2>6, <2>7 DEF Next
  <1>2. MapsInv /\ [Next]_vars => [Allowed]_vars
    BY <1>1
  <1> QED BY <1>2, MapsInvariant, PTL DEF Spec, ImplementsUnlessDropping
===============================================================================
