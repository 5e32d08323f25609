------------------------------- MODULE SymbolMap -------------------------------
(***************************************************************************)
(* compiler/symbol.c: a chain of open-addressing hash maps, one per scope,   *)
(* innermost last.  A map probes forward from the home slot of a name, grows *)
(* when half full, and puts every symbol it held at its home slot, whoever   *)
(* stands there already.                                                     *)
(***************************************************************************)
EXTENDS Naturals, Sequences, FiniteSets

CONSTANTS
  Names,            (* identifiers                                            *)
  Locations,        (* sym_pointer_t of a defined symbol                      *)
  Builtin,          (* and of a name called before it is defined              *)
  Hash,             (* pjw_hash of each name                                  *)
  InitialCapacity,
  MaxSets           (* bound: how often each map open at once is set          *)

AllLocations == Locations \cup {Builtin}
NoName == ""           (* the NULL of a slot calloc cleared                   *)

ASSUME SymbolMapAssumption ==
  /\ Hash \in [Names -> Nat]
  /\ InitialCapacity \in Nat /\ InitialCapacity > 1
  /\ MaxSets \in Seq(Nat) /\ MaxSets # <<>>
  /\ NoName \notin Names /\ "undefined" \notin AllLocations /\ "off the end" \notin AllLocations

VARIABLES
  maps,     (* from the root map to the current one                          *)
  status    (* "running", or "undefined" once a probe left an array          *)

vars == <<maps, status>>
-------------------------------------------------------------------------------
Symbol(name, location) == [name |-> name, location |-> location]
Free == Symbol(NoName, "undefined")        (* calloc: no name, LOC_UNDEF          *)
Symbols == [name : Names, location : AllLocations] \cup {Free}
Empty == [capacity |-> InitialCapacity, size |-> 0, items |-> [i \in 0..InitialCapacity - 1 |-> Free]]

Slots(map)       == 0..map.capacity - 1
Home(name, capacity) == Hash[name] % capacity
Stored(map)      == {map.items[i].name : i \in Slots(map)} \ {NoName}

(* The slots where a probe for the name would stop, of which it takes the    *)
(* first.                                                                    *)
Stops(map, name) == {i \in Home(name, map.capacity)..map.capacity - 1 : map.items[i].name \in {NoName, name}}
First(S) == CHOOSE i \in S : \A j \in S : i <= j
Last(S)  == CHOOSE i \in S : \A j \in S : j <= i

(* "When we are 50% full or more": the new array takes the symbols in the    *)
(* order of the old one, each at its home.                                   *)
Crowded(map) == 2 * (map.size + 1) >= map.capacity
(* Mutant: the symbols keep their slots.                                     *)
GrownInPlace(map) ==
  LET capacity == 2 * map.capacity
  IN  [map EXCEPT !.capacity = capacity,
                  !.items = [i \in 0..capacity - 1 |-> IF i \in Slots(map) THEN map.items[i] ELSE Free]]
Grown(map) ==
  LET capacity == 2 * map.capacity
      Heading(i) == {j \in Slots(map) : map.items[j].name # NoName /\ Home(map.items[j].name, capacity) = i}
  IN  [map EXCEPT !.capacity = capacity,
                  !.items = [i \in 0..capacity - 1 |->
                               IF Heading(i) = {} THEN Free ELSE map.items[Last(Heading(i))]]]

Ready(map) == IF Crowded(map) THEN Grown(map) ELSE map
(* Mutant: does not probe.                                                   *)
PutAtHome(map, name, location) ==
  [map EXCEPT !.items[Home(name, map.capacity)] = Symbol(name, location), !.size = @ + 1]
Put(map, name, location) ==
  [map EXCEPT !.items[First(Stops(map, name))] = Symbol(name, location), !.size = @ + 1]

(* Mutant: the names are not compared.                                       *)
GetLocalAtHome(map, name) ==
  map.items[Home(name, map.capacity)].location
(* symbol_map_get_local, and symbol_map_get up the chain of parents.         *)
GetLocal(map, name) ==
  IF map.items[Home(name, map.capacity)] = Free THEN "undefined"
  ELSE IF Stops(map, name) = {} THEN "off the end"
  ELSE map.items[First(Stops(map, name))].location

(* Mutant: the outermost answer.                                             *)
GetFromRoot(name) ==
  LET answers == {d \in DOMAIN maps : GetLocal(maps[d], name) # "undefined"}
  IN  IF answers = {} THEN "undefined" ELSE GetLocal(maps[First(answers)], name)
Get(name) ==
  LET answers == {d \in DOMAIN maps : GetLocal(maps[d], name) # "undefined"}
  IN  IF answers = {} THEN "undefined" ELSE GetLocal(maps[Last(answers)], name)
-------------------------------------------------------------------------------
Init == maps = << Empty >> /\ status = "running"

Running == status = "running"

(* symbol_map_set on one of the maps.                                        *)
Set(d, name, location) ==
  /\ Running /\ maps[d].size < MaxSets[d]
  /\ IF Stops(Ready(maps[d]), name) = {}
       THEN status' = "undefined" /\ UNCHANGED maps
       ELSE maps' = [maps EXCEPT ![d] = Put(Ready(@), name, location)] /\ UNCHANGED status

(* The compiler declares, caches and assigns in the current scope, and       *)
(* registers a name it is asked to call and does not find in the root.       *)
Declare(name, location) == Len(maps) > 1 /\ Set(Len(maps), name, location)
Register(name)          == Len(maps) > 1 /\ Get(name) = "undefined" /\ Set(1, name, Builtin)

(* A lookup changes nothing, unless it leaves an array.                      *)
Overrun ==
  /\ Running /\ \E name \in Names : Get(name) = "off the end"
  /\ status' = "undefined" /\ UNCHANGED maps

(* symbol_map_create, with the current map as parent, and symbol_map_destroy. *)
Create  == Running /\ Len(maps) < Len(MaxSets) /\ maps' = Append(maps, Empty) /\ UNCHANGED status
(* Mutant: the root too.                                                     *)
DestroyAny == Running /\ maps' = SubSeq(maps, 1, Len(maps) - 1) /\ UNCHANGED status
Destroy == Running /\ Len(maps) > 1 /\ maps' = SubSeq(maps, 1, Len(maps) - 1) /\ UNCHANGED status

Next ==
  \/ \E name \in Names, location \in Locations : Declare(name, location)
  \/ \E name \in Names : Register(name)
  \/ Overrun
  \/ Create
  \/ Destroy

Spec == Init /\ [][Next]_vars
-------------------------------------------------------------------------------
IsMap(map) ==
  /\ map.capacity \in Nat \ {0} /\ map.size \in Nat
  /\ map \in [capacity : {map.capacity}, size : {map.size}, items : [Slots(map) -> Symbols]]

TypeOK ==
  /\ status \in {"running", "undefined"}
  /\ Len(maps) \in 1..Len(MaxSets) /\ DOMAIN maps = 1..Len(maps)
  /\ \A d \in DOMAIN maps : IsMap(maps[d])

(* Wherever a symbol ended up, a probe for its name gets there first: no     *)
(* free slot and no older symbol of that name comes before it                *)
(* (symbol.c:65, symbol.c:84).  So a lookup that finds a symbol finds the    *)
(* latest one, however sets and growing alternated.                          *)
WellPlaced ==
  \A d \in DOMAIN maps : \A i \in Slots(maps[d]) :
    maps[d].items[i].name # NoName =>
      /\ i \in Stops(maps[d], maps[d].items[i].name)
      /\ \A j \in Stops(maps[d], maps[d].items[i].name) : i <= j

(* A name that was set in an open scope is lost only when the map grows, and *)
(* only to another name with the same home in the larger map, which stays    *)
(* (symbol.c:51): never by a set of another name, by leaving a scope or by   *)
(* growing with its home to itself.                                          *)
LosesOnlyToGrowing ==
  [][\A d \in DOMAIN maps \cap DOMAIN maps' : \A n \in Stored(maps[d]) \ Stored(maps'[d]) :
       /\ maps'[d].capacity > maps[d].capacity
       /\ \E m \in Stored(maps[d]) \ {n} :
            m \in Stored(maps'[d]) /\ Home(m, maps'[d].capacity) = Home(n, maps'[d].capacity)]_vars

(* The chain of maps as the scopes the compiler takes it for.                *)
Contents(map) == [n \in Stored(map) |-> GetLocal(map, n)]
Ideal == INSTANCE Scopes WITH Locations <- AllLocations,
                               scopes <- [d \in DOMAIN maps |-> Contents(maps[d])]

(* A lookup through the chain answers as the innermost scope that holds the  *)
(* name does, or leaves an array: it neither skips a scope nor answers for   *)
(* another name.                                                             *)
GetsNearest == \A name \in Names : Get(name) \in {Ideal!Get(name), "off the end"}

(* Every call does to the scopes exactly what the compiler counts on, except *)
(* where a growing map drops a symbol or a probe leaves an array.            *)
Drops(d) == d \in DOMAIN maps' /\ maps'[d].capacity > maps[d].capacity /\ ~ Stored(maps[d]) \subseteq Stored(maps'[d])
ImplementsUnlessDropping ==
  [][Ideal!Next \/ status' = "undefined" \/ \E d \in DOMAIN maps : Drops(d)]_vars
===============================================================================
