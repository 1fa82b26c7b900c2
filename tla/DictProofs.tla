----------------------------- MODULE DictProofs -----------------------------
(***************************************************************************)
(* What dict_add_dict leaves behind, for any files of the shape dict.c     *)
(* relies on, any number of loads and any moves of the arrays.             *)
(***************************************************************************)
EXTENDS Dict, FiniteSetTheorems, SequenceTheorems, WellFoundedInduction, TLAPS

(* A pointer into a table: a block, and a slot in it.                      *)
Pointer == [block : Int, slot : Int]

(* The elements of the tables.                                             *)
App == [id : Code \cup {0}]
Cmd == [name : Names, code : Code, req_rules : Nat, ans_rules : Nat]
AvpEntry == [name : Names, code : Code, vendor_id : {0}, type_name : Names,
             type : Pointer, content : Nat]
TypeEntry == [name : DOMAIN Rank, codec : Codecs, parent_name : Names, parent : Pointer]
Rule == [name : Names, avp : Pointer]
EnumEntry == [name : Names, code : Code]

(* An array of array.c with elements of S.                                 *)
Table(S) == [block : Nat, items : Seq(S)]

(* What the tables and the handler's variables are made of.                *)
Shape ==
  /\ apps \in Table(App)
  /\ vendors \in Table(App)
  /\ cmds \in Table(Cmd)
  /\ avps \in Table(AvpEntry)
  /\ types \in Table(TypeEntry)
  /\ types.items # << >>
  /\ arrays \in Seq(Seq(Rule \cup EnumEntry))
  /\ seen \in Seq(Elements)
  /\ rest \in Seq(Elements)
  /\ curr \in [cmd : Pointer, avp : Pointer, rules : Nat]
  /\ walk \in [i : Nat, curr : Pointer]

(* The numbers of the rule arrays of these commands and of the grouped     *)
(* AVPs among these entries.                                               *)
RuleArraysOf(commands, entries) ==
  {k \in Nat : \/ \E i \in DOMAIN commands : k \in {commands[i].req_rules, commands[i].ans_rules}
               \/ \E i \in DOMAIN entries : entries[i].type_name = "grouped" /\ k = entries[i].content}

(* The arrays dict_build_rules goes over.                                  *)
RuleArrays == RuleArraysOf(cmds.items, avps.items)

(* No two AVPs have the same array of rules or enum values.                *)
OwnContent ==
  \A i \in DOMAIN avps.items : \A j \in DOMAIN avps.items :
    avps.items[i].content = avps.items[j].content /\ avps.items[i].content # 0 => i = j

(* No AVP has the array of a command.                                      *)
NoSharing ==
  \A i \in DOMAIN avps.items : \A j \in DOMAIN cmds.items :
    avps.items[i].content \notin {cmds.items[j].req_rules, cmds.items[j].ans_rules}

(* Rule arrays exist and hold no enum value, which has no avp to bind.     *)
RulesOnly ==
  \A k \in RuleArrays : k \in DOMAIN arrays /\ \A r \in DOMAIN arrays[k] : arrays[k][r] \in Rule

(* curr_avp is on the last AVP, in the block the table is in.              *)
OnAvp == avps.items # << >> /\ curr.avp = Back(avps)

(* What the handler's pointers mean after the first n elements of the      *)
(* file: on which entries they are depends on the element read last.       *)
Context(doc, n) ==
  /\ n # 0 /\ doc[n].el = "avp" =>
       /\ OnAvp
       /\ Deref(avps, curr.avp).content = 0
  /\ n # 0 /\ doc[n].el \in {"type", "enum"} =>
       OnAvp /\ Deref(avps, curr.avp).type_name # "grouped"
  /\ InCommand(doc, n) => cmds.items # << >> /\ curr.cmd = Back(cmds)
  /\ InRules(doc, n) => curr.rules \in RuleArrays

(* While a file is read, what is left of it follows elements whose context *)
(* the pointers have.                                                      *)
Reading ==
  pc = "parse" =>
    \E doc \in Documents : \E n \in 0 .. Len(doc) :
      rest = SubSeq(doc, n + 1, Len(doc)) /\ Context(doc, n)

(* The inductive invariant of the handler and of dict_build.               *)
HandlerInv == Shape /\ TypeOK /\ OwnContent /\ NoSharing /\ RulesOnly /\ Reading

(* Every AVP declared so far is in the table, with its code and its name.  *)
Listed ==
  \A k \in Declared("avp") : \E i \in DOMAIN avps.items :
    avps.items[i].code = seen[k].code /\ avps.items[i].name = seen[k].name

(* Before the first load nothing is open and no AVP is known.              *)
Unread == loads = 0 => pc = "idle" /\ status = "new" /\ avps.items = << >>

(* No rule of a grouped AVP points anywhere yet.                           *)
AllUnbound ==
  \A i \in DOMAIN avps.items : avps.items[i].type_name = "grouped" =>
    \A r \in DOMAIN arrays[avps.items[i].content] :
      arrays[avps.items[i].content][r].avp = Null

(* The first load leaves the rules of grouped AVPs alone until the AVPs    *)
(* are sorted: rules that are bound are not bound again.                   *)
Unbound == loads = 1 /\ pc \in {"parse", "tables", "types", "avps"} => AllUnbound

(* The rules of grouped AVPs point to the AVPs they name.                  *)
AllBound ==
  \A i \in DOMAIN avps.items : avps.items[i].type_name = "grouped" =>
    \A r \in DOMAIN arrays[avps.items[i].content] :
      RuleBound(arrays[avps.items[i].content][r])

(* From there to the end of the first load they do.                        *)
Bound == loads = 1 /\ (pc = "codecs" \/ Ready) => AllBound

(* The types are the declared ones, with the parent of the first           *)
(* declaration; a codec that is set is the declared one, and base types    *)
(* have theirs.                                                            *)
DeclaredTypes ==
  /\ NoName \notin TypeNames
  /\ \A n \in TypeNames : \E i \in DOMAIN types.items : types.items[i].name = n
  /\ \A i \in DOMAIN types.items :
       LET type == types.items[i]
       IN /\ type.name \in TypeNames
          /\ type.parent_name = ParentName(type.name)
          /\ type.codec \in {"UNKNOWN", CodecOf(type.name)}
          /\ type.name \in BaseNames => type.codec = CodecOf(type.name)
          /\ type.parent # Null => type.parent_name \in TypeNames

(* Once the types are sorted and linked, the parent of a type is the type  *)
(* its parent's name stands for.                                           *)
Linked ==
  pc \in {"avps", "codecs"} =>
    \A i \in DOMAIN types.items :
      LET type == types.items[i]
      IN IF type.parent_name \in TypeNames
         THEN Live(types, type.parent) /\ Deref(types, type.parent).name = type.parent_name
         ELSE type.parent = Null

(* The loop of dict_build has set the codec of the types before i, and the *)
(* type it has climbed to has the codec of type i, or has none above it.   *)
Walking ==
  pc = "codecs" =>
    /\ walk.i \in DOMAIN types.items
    /\ \A j \in 1 .. walk.i - 1 : types.items[j].codec = CodecOf(types.items[j].name)
    /\ walk.curr = Null => CodecOf(types.items[walk.i].name) = "UNKNOWN"
    /\ walk.curr # Null =>
         /\ Live(types, walk.curr)
         /\ CodecOf(Deref(types, walk.curr).name) = CodecOf(types.items[walk.i].name)

(* After a load each type has the codec of its name.                       *)
Exact ==
  Ready => \A i \in DOMAIN types.items : types.items[i].codec = CodecOf(types.items[i].name)

(* Once the AVPs are joined to the types, each is on the type it names.    *)
Typed ==
  pc = "codecs" \/ Ready =>
    \A i \in DOMAIN avps.items :
      avps.items[i].type_name \in TypeNames =>
        /\ Live(types, avps.items[i].type)
        /\ Deref(types, avps.items[i].type).name = avps.items[i].type_name
-----------------------------------------------------------------------------
(* A set of numbers with an element has a least one.                       *)
LEMMA LeastOf ==
  ASSUME NEW T \in SUBSET Nat, T # {}
  PROVE  \E i \in T : \A j \in T : i <= j
<1> DEFINE R == OpToRel(<, Nat)
<1>1. IsWellFoundedOn(R, Nat)
  BY NatLessThanWellFounded
<1>2. \A x, y \in Nat : <<y, x>> \in R <=> y < x
  BY Zenon DEF OpToRel
<1> HIDE DEF R
<1>3. PICK x \in T : \A y \in T : ~(<<y, x>> \in R)
  BY <1>1, WFMin, Zenon
<1>4. \A y \in T : ~(y < x)
  BY <1>2, <1>3, Zenon
<1> QED  BY <1>4

(* First is NULL or points to one of the slots.                            *)
LEMMA FirstOf ==
  ASSUME NEW S, NEW arr \in Table(S), NEW slots \in SUBSET DOMAIN arr.items
  PROVE  /\ slots = {} => First(arr, slots) = Null
         /\ slots # {} =>
              /\ First(arr, slots) # Null
              /\ \E i \in slots : First(arr, slots) = PointerTo(arr, i)
<1>1. slots \in SUBSET Nat
  BY DEF Table
<1>2. CASE slots = {}
  BY <1>2 DEF First
<1>3. CASE slots # {}
  <2>1. PICK i \in slots : \A j \in slots : i <= j
    BY <1>1, <1>3, LeastOf
  <2>2. (CHOOSE x \in slots : \A j \in slots : x <= j) \in slots
    BY <2>1
  <2>3. First(arr, slots) = PointerTo(arr, CHOOSE x \in slots : \A j \in slots : x <= j)
    BY <1>3 DEF First
  <2>4. \A x : PointerTo(arr, x) # Null
    BY DEF PointerTo, Null, Table
  <2> QED  BY <1>3, <2>2, <2>3, <2>4
<1> QED  BY <1>2, <1>3

(* A search by name finds an element of that name, or there is none.       *)
LEMMA FirstNamedOf ==
  ASSUME NEW S, NEW arr \in Table(S), NEW name
  PROVE  \/ /\ FirstNamed(arr, name) = Null
            /\ \A i \in DOMAIN arr.items : arr.items[i].name # name
         \/ /\ FirstNamed(arr, name) # Null
            /\ \E i \in DOMAIN arr.items :
                 arr.items[i].name = name /\ FirstNamed(arr, name) = PointerTo(arr, i)
<1> DEFINE slots == {i \in DOMAIN arr.items : arr.items[i].name = name}
<1>1. slots \in SUBSET DOMAIN arr.items
  OBVIOUS
<1>2. FirstNamed(arr, name) = First(arr, slots)
  BY DEF FirstNamed
<1> HIDE DEF slots
<1>3. /\ slots = {} => First(arr, slots) = Null
      /\ slots # {} => /\ First(arr, slots) # Null
                       /\ \E i \in slots : First(arr, slots) = PointerTo(arr, i)
  BY <1>1, FirstOf
<1> QED  BY <1>2, <1>3 DEF slots

(* An array that grows keeps its pointers.                                 *)
LEMMA PointersGrow ==
  ASSUME NEW S, NEW arr \in Table(S), NEW new \in Table(S),
         arr.block <= new.block, Len(arr.items) <= Len(new.items)
  PROVE  Pointers(arr) \subseteq Pointers(new)
<1>1. DOMAIN arr.items \subseteq DOMAIN new.items /\ 0 .. arr.block \subseteq 0 .. new.block
  BY DEF Table
<1> QED  BY <1>1 DEF Pointers

(* array_back of an array with elements points to the last one.            *)
LEMMA BackPoints ==
  ASSUME NEW S, NEW arr \in Table(S), arr.items # << >>
  PROVE  /\ Back(arr) \in Pointers(arr) /\ Back(arr) \in Pointer /\ Live(arr, Back(arr))
         /\ Back(arr).slot = Len(arr.items) /\ Len(arr.items) \in DOMAIN arr.items
         /\ Deref(arr, Back(arr)) = arr.items[Len(arr.items)]
BY DEF Table, Back, PointerTo, Pointers, Live, Deref, Pointer

(* Append adds one element at the end and leaves the others.               *)
LEMMA AppendAdds ==
  ASSUME NEW S, NEW s \in Seq(S), NEW x \in S
  PROVE  LET t == Append(s, x) IN
         /\ t \in Seq(S) /\ t # << >> /\ Len(t) = Len(s) + 1 /\ Len(s) \in Nat
         /\ \A i \in DOMAIN s : i \in DOMAIN t /\ t[i] = s[i]
         /\ Len(s) + 1 \in DOMAIN t /\ t[Len(s) + 1] = x
         /\ \A i \in DOMAIN t : \/ i \in DOMAIN s /\ t[i] = s[i]
                                \/ i = Len(s) + 1 /\ i \notin DOMAIN s /\ t[i] = x
OBVIOUS

(* array_push_back appends the element, wherever the data has moved to.    *)
LEMMA PushBackAppends ==
  ASSUME NEW S, NEW arr \in Table(S), NEW elem \in S, NEW new \in PushBack(arr, elem)
  PROVE  /\ new \in Table(S)
         /\ new.items = Append(arr.items, elem)
         /\ new.items # << >> /\ Len(new.items) = Len(arr.items) + 1
         /\ new.block >= arr.block
         /\ \A i \in DOMAIN arr.items : i \in DOMAIN new.items /\ new.items[i] = arr.items[i]
         /\ Len(new.items) \in DOMAIN new.items /\ new.items[Len(new.items)] = elem
         /\ \A i \in DOMAIN new.items : \/ i \in DOMAIN arr.items /\ new.items[i] = arr.items[i]
                                        \/ /\ i = Len(new.items) /\ i \notin DOMAIN arr.items
                                           /\ new.items[i] = elem
         /\ Pointers(arr) \subseteq Pointers(new)
         /\ Back(new) \in Pointers(new) /\ Back(new) \in Pointer
         /\ Deref(new, Back(new)) = elem
<1>1. PICK b \in {arr.block, arr.block + 1} :
        new = [block |-> b, items |-> Append(arr.items, elem)]
  BY Zenon DEF PushBack
<1>2. b \in Nat /\ b >= arr.block /\ arr.items \in Seq(S)
  BY DEF Table
<1>3. Append(arr.items, elem) \in Seq(S)
  BY <1>2
<1>4. new \in Table(S) /\ new.items = Append(arr.items, elem) /\ new.block >= arr.block
  BY <1>1, <1>2, <1>3 DEF Table
<1>5. /\ new.items # << >> /\ Len(new.items) = Len(arr.items) + 1 /\ Len(arr.items) \in Nat
      /\ \A i \in DOMAIN arr.items : i \in DOMAIN new.items /\ new.items[i] = arr.items[i]
      /\ Len(arr.items) + 1 \in DOMAIN new.items /\ new.items[Len(arr.items) + 1] = elem
      /\ \A i \in DOMAIN new.items : \/ i \in DOMAIN arr.items /\ new.items[i] = arr.items[i]
                                     \/ i = Len(arr.items) + 1 /\ i \notin DOMAIN arr.items
                                        /\ new.items[i] = elem
  BY <1>2, <1>4, AppendAdds
<1>6. Pointers(arr) \subseteq Pointers(new)
  BY <1>2, <1>4, <1>5, PointersGrow
<1>7. /\ Back(new) \in Pointers(new) /\ Back(new) \in Pointer
      /\ Deref(new, Back(new)) = new.items[Len(new.items)]
  BY <1>4, <1>5, BackPoints
<1> QED  BY <1>4, <1>5, <1>6, <1>7

(* A lower key comes before, with all that comes before it.                *)
LEMMA LowerPrecedes ==
  ASSUME NEW D \in SUBSET Int, NEW key \in [D -> Int], NEW swapped
  PROVE  /\ \A i \in D : ~Precedes(key, swapped, i, i)
         /\ \A i, j \in D : key[i] < key[j] => Precedes(key, swapped, i, j)
         /\ \A i, j, k \in D : key[i] < key[j] /\ Precedes(key, swapped, k, i)
                                 => Precedes(key, swapped, k, j)
BY DEF Precedes

(* The places of a sort are slots, and they follow the keys.               *)
LEMMA PlacesFollow ==
  ASSUME NEW n \in Nat, NEW key \in [1 .. n -> Int], NEW swapped
  PROVE  /\ Places(key, swapped) \in [1 .. n -> 1 .. n]
         /\ \A i, j \in 1 .. n :
              key[i] < key[j] => Places(key, swapped)[i] < Places(key, swapped)[j]
<1> DEFINE D == 1 .. n
           before(i) == {j \in D : Precedes(key, swapped, j, i)}
<1>1. IsFiniteSet(D) /\ Cardinality(D) = n
  BY FS_Interval
<1>2. \A i \in D : IsFiniteSet(before(i)) /\ Cardinality(before(i)) \in Nat
  BY <1>1, FS_Subset, FS_CardinalityType
<1>3. Places(key, swapped) = [i \in D |-> Cardinality(before(i)) + 1]
  BY DEF Places
<1> D \in SUBSET Int /\ key \in [D -> Int]
  OBVIOUS
<1> HIDE DEF D
<1>4. ASSUME NEW i \in D PROVE Cardinality(before(i)) < n
  <2>1. before(i) \in SUBSET D /\ i \notin before(i)
    BY LowerPrecedes
  <2>2. before(i) # D
    BY <2>1
  <2> QED  BY <1>1, <1>2, <2>1, <2>2, FS_Subset
<1>5. ASSUME NEW i \in D, NEW j \in D, key[i] < key[j]
      PROVE  Cardinality(before(i)) < Cardinality(before(j))
  <2>1. before(i) \in SUBSET before(j)
    BY <1>5, LowerPrecedes
  <2>2. i \in before(j) /\ i \notin before(i)
    BY <1>5, LowerPrecedes
  <2> QED  BY <1>2, <2>1, <2>2, FS_Subset
<1> HIDE DEF before
<1>6. \A i \in D : Cardinality(before(i)) + 1 \in 1 .. n
  BY <1>2, <1>4
<1>7. \A i, j \in D : key[i] < key[j] => Cardinality(before(i)) + 1 < Cardinality(before(j)) + 1
  BY <1>2, <1>5
<1>8. Places(key, swapped) \in [D -> 1 .. n]
  BY <1>3, <1>6
<1>9. \A i, j \in D : key[i] < key[j] => Places(key, swapped)[i] < Places(key, swapped)[j]
  BY <1>3, <1>7
<1> QED  BY <1>8, <1>9 DEF D

(* new has the elements of arr, each once, in the order of their keys.     *)
Reorders(at, arr, key, new) ==
  /\ new = [block |-> arr.block, items |-> [n \in DOMAIN arr.items |-> arr.items[at[n]]]]
  /\ \A i, j \in DOMAIN arr.items : at[i] = at[j] => i = j
  /\ \A i \in DOMAIN arr.items : \E n \in DOMAIN arr.items : at[n] = i
  /\ \A n, m \in DOMAIN arr.items : n < m => key[at[n]] <= key[at[m]]

(* array_sort permutes the elements into the order of their keys, ties in  *)
(* any order.                                                              *)
LEMMA SortedIsReordered ==
  ASSUME NEW S, NEW arr \in Table(S), NEW key \in [DOMAIN arr.items -> Int],
         NEW new \in Sorted(arr, key)
  PROVE  \E at \in [DOMAIN arr.items -> DOMAIN arr.items] : Reorders(at, arr, key, new)
<1> DEFINE D == DOMAIN arr.items
           N == Len(arr.items)
<1>1. N \in Nat /\ D = 1 .. N /\ IsFiniteSet(D)
  BY FS_Interval DEF Table
<1>2. DOMAIN key = D
  OBVIOUS
<1>3. PICK swapped \in SUBSET Tied(key) :
        /\ new = Arranged(arr, Places(key, swapped))
        /\ \A i, j \in DOMAIN Places(key, swapped) :
             Places(key, swapped)[i] = Places(key, swapped)[j] => i = j
  BY DEF Sorted
<1> DEFINE place == Places(key, swapped)
           at == [n \in D |-> CHOOSE i \in D : place[i] = n]
<1> HIDE DEF N, D
<1>4. place \in [D -> D] /\ \A i, j \in D : key[i] < key[j] => place[i] < place[j]
  BY <1>1, PlacesFollow DEF D
<1>5. D \in SUBSET Int /\ key \in [D -> Int]
  BY <1>1 DEF D
<1>6. \A i, j \in D : place[i] = place[j] => i = j
  BY <1>3, <1>4
<1>a. new = Arranged(arr, place)
  BY <1>3
<1> HIDE DEF place
<1>7. place \in Injection(D, D)
  BY <1>4, <1>6 DEF Injection, IsInjective
<1>8. place \in Surjection(D, D)
  BY <1>1, <1>7, FS_Injection
<1>9. \A n \in D : at[n] \in D /\ place[at[n]] = n
  BY <1>8 DEF Surjection
<1>10. at \in [D -> D]
  BY <1>9
<1>11. \A i \in D : at[place[i]] = i
  BY <1>4, <1>6, <1>9
<1>12. ASSUME NEW n \in D, NEW m \in D, n < m
       PROVE  key[at[n]] <= key[at[m]]
  <2> HIDE DEF at
  <2>1. at[n] \in D /\ at[m] \in D /\ place[at[n]] = n /\ place[at[m]] = m
    BY <1>9
  <2>2. key[at[m]] < key[at[n]] => m < n
    BY <1>4, <2>1
  <2>3. n \in Int /\ m \in Int /\ key[at[n]] \in Int /\ key[at[m]] \in Int
    BY <1>5, <2>1
  <2> QED  BY <1>12, <2>2, <2>3
<1>13. new = [block |-> arr.block, items |-> [n \in D |-> arr.items[at[n]]]]
  <2>1. [n \in D |-> arr.items[at[n]]]
          = [n \in D |-> arr.items[CHOOSE i \in D : place[i] = n]]
    OBVIOUS
  <2>2. arr = [block |-> arr.block, items |-> arr.items]
    BY DEF Table
  <2>3. new = [arr EXCEPT !.items = [n \in D |-> arr.items[CHOOSE i \in D : place[i] = n]]]
    BY <1>a, <1>4 DEF Arranged
  <2> HIDE DEF at
  <2> QED  BY <2>1, <2>2, <2>3
<1> HIDE DEF at
<1>14. \A i, j \in D : at[i] = at[j] => i = j
  BY <1>9
<1>15. \A i \in D : \E n \in D : at[n] = i
  BY <1>4, <1>11
<1>16. Reorders(at, arr, key, new)
  BY <1>12, <1>13, <1>14, <1>15 DEF D, Reorders
<1> QED  BY <1>10, <1>16 DEF D
-----------------------------------------------------------------------------
(* The declared names that are not base types, and those of them that are  *)
(* in every closed set.                                                    *)
Derived == TypeNames \ BaseNames
Below(codec) == {n \in Derived : \A S \in Closed(codec) : n \in S}

(* The types of dict_build_base_types have a codec and no parent.          *)
(* Integer32 is there twice, with the same codec.                          *)
LEMMA BaseTypesAre ==
  /\ DOMAIN BaseTypes = 1 .. 8
  /\ \A i \in DOMAIN BaseTypes :
       /\ BaseTypes[i].codec \in Codecs \ {"UNKNOWN"}
       /\ BaseTypes[i].name # NoName
       /\ BaseTypes[i].parent_name = NoName
       /\ BaseTypes[i].parent = Null
  /\ \A i, j \in DOMAIN BaseTypes :
       BaseTypes[i].name = BaseTypes[j].name => BaseTypes[i].codec = BaseTypes[j].codec
<1>1. DOMAIN BaseTypes = 1 .. 8
  BY DEF BaseTypes
<1>2. /\ BaseTypes[1].name = "Grouped" /\ BaseTypes[1].codec = "GROUPED"
      /\ BaseTypes[2].name = "OctetString" /\ BaseTypes[2].codec = "OCTETSTRING"
      /\ BaseTypes[3].name = "Integer32" /\ BaseTypes[3].codec = "INTEGER32"
      /\ BaseTypes[4].name = "Integer32" /\ BaseTypes[4].codec = "INTEGER32"
      /\ BaseTypes[5].name = "Unsigned32" /\ BaseTypes[5].codec = "UNSIGNED32"
      /\ BaseTypes[6].name = "Unsigned64" /\ BaseTypes[6].codec = "UNSIGNED64"
      /\ BaseTypes[7].name = "Float32" /\ BaseTypes[7].codec = "FLOAT32"
      /\ BaseTypes[8].name = "Float64" /\ BaseTypes[8].codec = "FLOAT64"
  <2>1. BaseTypes[1].name = "Grouped" /\ BaseTypes[1].codec = "GROUPED"
    BY DEF BaseTypes
  <2>2. BaseTypes[2].name = "OctetString" /\ BaseTypes[2].codec = "OCTETSTRING"
    BY DEF BaseTypes
  <2>3. BaseTypes[3].name = "Integer32" /\ BaseTypes[3].codec = "INTEGER32"
    BY DEF BaseTypes
  <2>4. BaseTypes[4].name = "Integer32" /\ BaseTypes[4].codec = "INTEGER32"
    BY DEF BaseTypes
  <2>5. BaseTypes[5].name = "Unsigned32" /\ BaseTypes[5].codec = "UNSIGNED32"
    BY DEF BaseTypes
  <2>6. BaseTypes[6].name = "Unsigned64" /\ BaseTypes[6].codec = "UNSIGNED64"
    BY DEF BaseTypes
  <2>7. BaseTypes[7].name = "Float32" /\ BaseTypes[7].codec = "FLOAT32"
    BY DEF BaseTypes
  <2>8. BaseTypes[8].name = "Float64" /\ BaseTypes[8].codec = "FLOAT64"
    BY DEF BaseTypes
  <2> QED  BY <2>1, <2>2, <2>3, <2>4, <2>5, <2>6, <2>7, <2>8
<1>3. \A i \in 1 .. 8 : BaseTypes[i].parent_name = NoName /\ BaseTypes[i].parent = Null
  BY DEF BaseTypes, Null
<1>4. \A i \in 1 .. 8 :
        i = 1 \/ i = 2 \/ i = 3 \/ i = 4 \/ i = 5 \/ i = 6 \/ i = 7 \/ i = 8
  OBVIOUS
<1>5. \A i \in 1 .. 8 :
        BaseTypes[i].codec \in Codecs \ {"UNKNOWN"} /\ BaseTypes[i].name # NoName
  <2>1. \A i \in 1 .. 8 : BaseTypes[i].codec \in Codecs \ {"UNKNOWN"}
    BY <1>2, <1>4 DEF Codecs
  <2>2. \A i \in 1 .. 8 : BaseTypes[i].name # NoName
    BY <1>2, <1>4 DEF NoName
  <2> QED  BY <2>1, <2>2
<1>6. \A i, j \in 1 .. 8 :
        BaseTypes[i].name = BaseTypes[j].name => BaseTypes[i].codec = BaseTypes[j].codec
  BY <1>2, <1>4
<1> QED  BY <1>1, <1>3, <1>5, <1>6

(* A base type has one codec.                                              *)
LEMMA BasedDiffer ==
  /\ \A c : Based(c) \subseteq BaseNames
  /\ \A c, d, n : n \in Based(c) /\ n \in Based(d) => c = d
<1>1. \A c : Based(c) \subseteq BaseNames
  BY DEF Based, BaseNames
<1>2. \A c, n : n \in Based(c) =>
        \E i \in DOMAIN BaseTypes : BaseTypes[i].name = n /\ BaseTypes[i].codec = c
  BY DEF Based
<1> QED  BY <1>1, <1>2, BaseTypesAre

(* The least closed set is a fixed point: the names in it are those whose  *)
(* parent is in it or is a base type with the codec.                       *)
LEMMA BelowIsClosed ==
  \A c : \A n \in Derived : ParentName(n) \in Below(c) \cup Based(c) <=> n \in Below(c)
<1> SUFFICES ASSUME NEW c, NEW n \in Derived
             PROVE  ParentName(n) \in Below(c) \cup Based(c) <=> n \in Below(c)
  OBVIOUS
<1>1. \A S \in Closed(c) :
        /\ S \subseteq Derived
        /\ \A x \in Derived : ParentName(x) \in S \cup Based(c) => x \in S
  BY DEF Closed, Derived
<1>2. \A x \in Derived : ParentName(x) \in Below(c) \cup Based(c) => x \in Below(c)
  BY <1>1 DEF Below
<1> DEFINE S == {x \in Below(c) : ParentName(x) \in Below(c) \cup Based(c)}
<1>3. S \subseteq Derived
  BY DEF Below
<1>4. \A x \in Derived : ParentName(x) \in S \cup Based(c) => x \in S
  BY <1>2
<1>5. S \in Closed(c)
  BY <1>3, <1>4 DEF Closed, Derived
<1>6. n \in Below(c) => n \in S
  BY <1>5 DEF Below
<1> QED  BY <1>2, <1>6

(* A name has a codec by being a base type or by being below one.          *)
LEMMA HasCodecIs ==
  \A n, c : HasCodec(n, c) <=> n \in Based(c) \cup Below(c)
<1>1. \A c : Derived \in Closed(c)
  BY DEF Derived, Closed
<1> QED  BY <1>1 DEF HasCodec, Below, Derived

(* No name has two codecs: the names below one codec without those below   *)
(* another are closed too.                                                 *)
LEMMA CodecIsUnique ==
  \A n, c, d : HasCodec(n, c) /\ HasCodec(n, d) => c = d
<1> SUFFICES ASSUME NEW c, NEW d, c # d
             PROVE  \A n : ~(HasCodec(n, c) /\ HasCodec(n, d))
  OBVIOUS
<1>1. Below(c) \cap BaseNames = {} /\ Below(d) \cap BaseNames = {}
  BY DEF Below, Derived
<1>2. Based(c) \subseteq BaseNames /\ Based(d) \subseteq BaseNames /\ Based(c) \cap Based(d) = {}
  BY BasedDiffer
<1> DEFINE S == Below(c) \ Below(d)
<1>3. S \subseteq Derived
  BY DEF Below
<1>4. ASSUME NEW x \in Derived, ParentName(x) \in S \cup Based(c)
      PROVE  x \in S
  <2>1. x \in Below(c)
    BY <1>4, BelowIsClosed
  <2>2. ParentName(x) \notin Below(d) \cup Based(d)
    BY <1>1, <1>2, <1>4
  <2>3. x \notin Below(d)
    BY <2>2, BelowIsClosed
  <2> QED  BY <2>1, <2>3
<1>5. S \in Closed(c)
  BY <1>3, <1>4 DEF Closed, Derived
<1>6. Below(c) \cap Below(d) = {}
  BY <1>5 DEF Below
<1> QED  BY <1>1, <1>2, <1>6, HasCodecIs

(* CodecOf is the codec a name has, and UNKNOWN if it has none.            *)
LEMMA CodecOfIs ==
  /\ \A n : \A c \in Codecs : HasCodec(n, c) => CodecOf(n) = c
  /\ \A n : (\A c \in Codecs : ~HasCodec(n, c)) => CodecOf(n) = "UNKNOWN"
  /\ \A n : CodecOf(n) \in Codecs
<1>1. \A n : \A c \in Codecs : HasCodec(n, c) => CodecOf(n) = c
  <2> TAKE n
  <2> TAKE c \in Codecs
  <2> HAVE HasCodec(n, c)
  <2>1. (CHOOSE d \in Codecs : HasCodec(n, d)) = c
    BY CodecIsUnique
  <2> QED  BY <2>1 DEF CodecOf
<1>2. \A n : (\A c \in Codecs : ~HasCodec(n, c)) => CodecOf(n) = "UNKNOWN"
  BY DEF CodecOf
<1> QED  BY <1>1, <1>2 DEF Codecs

(* What dict_build's walk up the chain relies on: a declared type has the  *)
(* codec of its parent, a base type its own and any other name none.       *)
LEMMA CodecOfParent ==
  /\ \A n \in Derived : CodecOf(n) = CodecOf(ParentName(n))
  /\ \A n : n \notin TypeNames => CodecOf(n) = "UNKNOWN"
  /\ \A i \in DOMAIN BaseTypes : CodecOf(BaseTypes[i].name) = BaseTypes[i].codec
<1>1. ASSUME NEW n \in Derived
      PROVE  CodecOf(n) = CodecOf(ParentName(n))
  <2>1. \A c : HasCodec(n, c) <=> HasCodec(ParentName(n), c)
    <3>1. n \notin BaseNames
      BY DEF Derived
    <3> QED  BY <3>1, HasCodecIs, BelowIsClosed, BasedDiffer
  <2> QED  BY <2>1, CodecOfIs
<1>2. \A n : n \notin TypeNames => CodecOf(n) = "UNKNOWN"
  <2>1. \A c : Based(c) \subseteq TypeNames /\ Below(c) \subseteq TypeNames
    BY BasedDiffer DEF TypeNames, Below, Derived
  <2> QED  BY <2>1, HasCodecIs, CodecOfIs
<1>3. \A i \in DOMAIN BaseTypes : CodecOf(BaseTypes[i].name) = BaseTypes[i].codec
  <2>1. \A i \in DOMAIN BaseTypes : HasCodec(BaseTypes[i].name, BaseTypes[i].codec)
    BY DEF HasCodec, Based
  <2> QED  BY <2>1, BaseTypesAre, CodecOfIs
<1> QED  BY <1>1, <1>2, <1>3
-----------------------------------------------------------------------------
(* The elements read before stay where they were.                          *)
LEMMA SeenGrows ==
  ASSUME NEW s \in Seq(Elements), NEW e \in Elements
  PROVE  /\ DOMAIN Append(s, e) = DOMAIN s \cup {Len(s) + 1}
         /\ Len(s) + 1 \notin DOMAIN s
         /\ \A k \in DOMAIN s : Append(s, e)[k] = s[k] /\ k <= Len(s)
         /\ Append(s, e)[Len(s) + 1] = e
OBVIOUS

(* The places of the typedefn elements of a name.                          *)
DeclarationsOf(name) == {k \in Declared("typedefn") : seen[k].name = name}

(* The parent of a name is that of its first declaration.                  *)
LEMMA ParentNameIs ==
  ASSUME seen \in Seq(Elements), NEW name
  PROVE  /\ name \in BaseNames \/ DeclarationsOf(name) = {} => ParentName(name) = NoName
         /\ name \notin BaseNames => \A k \in DeclarationsOf(name) :
              (\A j \in DeclarationsOf(name) : k <= j) => ParentName(name) = seen[k].parent
         /\ DeclarationsOf(name) # {} =>
              \E k \in DeclarationsOf(name) : \A j \in DeclarationsOf(name) : k <= j
<1>1. DeclarationsOf(name) \in SUBSET Nat
  BY DEF DeclarationsOf, Declared
<1>2. ASSUME NEW k \in DeclarationsOf(name), \A j \in DeclarationsOf(name) : k <= j
      PROVE  k = CHOOSE x \in DeclarationsOf(name) : \A j \in DeclarationsOf(name) : x <= j
  BY <1>1, <1>2
<1>3. name \in BaseNames \/ DeclarationsOf(name) = {} => ParentName(name) = NoName
  BY DEF ParentName, DeclarationsOf
<1>4. name \notin BaseNames /\ DeclarationsOf(name) # {} =>
        ParentName(name) = seen[CHOOSE x \in DeclarationsOf(name) :
                                  \A j \in DeclarationsOf(name) : x <= j].parent
  BY DEF ParentName, DeclarationsOf
<1>5. DeclarationsOf(name) # {} =>
        \E k \in DeclarationsOf(name) : \A j \in DeclarationsOf(name) : k <= j
  BY <1>1, LeastOf
<1> QED  BY <1>2, <1>3, <1>4, <1>5

(* An element read declares itself and nothing else.                       *)
LEMMA DeclarationsGrow ==
  ASSUME seen \in Seq(Elements), NEW e \in Elements, seen' = Append(seen, e)
  PROVE  /\ \A tag : tag # e.el => Declared(tag)' = Declared(tag)
         /\ Declared(e.el)' = Declared(e.el) \cup {Len(seen) + 1}
         /\ \A k \in DOMAIN seen : seen'[k] = seen[k]
         /\ seen'[Len(seen) + 1] = e
<1>1. /\ DOMAIN seen' = DOMAIN seen \cup {Len(seen) + 1}
      /\ Len(seen) + 1 \notin DOMAIN seen
      /\ \A k \in DOMAIN seen : seen'[k] = seen[k]
      /\ seen'[Len(seen) + 1] = e
  BY SeenGrows
<1>2. \A tag : Declared(tag)' = {k \in DOMAIN seen' : seen'[k].el = tag}
  BY DEF Declared
<1> QED  BY <1>1, <1>2 DEF Declared

(* A typedefn declares a name; those known keep their parents, as the      *)
(* second declaration of a name does not count.                            *)
LEMMA TypeNamesGrow ==
  ASSUME seen \in Seq(Elements), NEW e \in Elements, seen' = Append(seen, e)
  PROVE  /\ e.el # "typedefn" => /\ TypeNames' = TypeNames
                                 /\ \A n : ParentName(n)' = ParentName(n)
         /\ e.el = "typedefn" => TypeNames' = TypeNames \cup {e.name}
         /\ \A n \in TypeNames : ParentName(n)' = ParentName(n)
         /\ e.el = "typedefn" /\ e.name \notin TypeNames => ParentName(e.name)' = e.parent
<1>1. /\ e.el # "typedefn" => Declared("typedefn")' = Declared("typedefn")
      /\ e.el = "typedefn" => Declared("typedefn")' = Declared("typedefn") \cup {Len(seen) + 1}
      /\ \A k \in Declared("typedefn") : seen'[k] = seen[k] /\ k \in Nat /\ k <= Len(seen)
      /\ seen'[Len(seen) + 1] = e
      /\ Len(seen) \in Nat
  BY DeclarationsGrow DEF Declared
<1>2. seen' \in Seq(Elements)
  OBVIOUS
<1>3. \A n : DeclarationsOf(n)' = {k \in Declared("typedefn")' : seen'[k].name = n}
  BY DEF DeclarationsOf
<1>4. TypeNames' = BaseNames \cup {seen'[k].name : k \in Declared("typedefn")'}
  BY DEF TypeNames
<1>5. e.el # "typedefn" => TypeNames' = TypeNames
  BY <1>1, <1>4 DEF TypeNames
<1>6. e.el = "typedefn" => TypeNames' = TypeNames \cup {e.name}
  <2>1. \A x : x \in TypeNames' <=>
               x \in BaseNames \/ \E k \in Declared("typedefn")' : seen'[k].name = x
    BY <1>4
  <2>2. \A x : x \in TypeNames <=>
               x \in BaseNames \/ \E k \in Declared("typedefn") : seen[k].name = x
    BY DEF TypeNames
  <2> SUFFICES ASSUME e.el = "typedefn" PROVE TypeNames' = TypeNames \cup {e.name}
    OBVIOUS
  <2>3. \A x : (\E k \in Declared("typedefn")' : seen'[k].name = x)
                 <=> (\E k \in Declared("typedefn") : seen[k].name = x) \/ x = e.name
    BY <1>1
  <2> QED  BY <2>1, <2>2, <2>3
<1>7. \A n : e.el # "typedefn" \/ e.name # n => DeclarationsOf(n)' = DeclarationsOf(n)
  BY <1>1, <1>3 DEF DeclarationsOf
<1>8. \A n : e.el = "typedefn" /\ e.name = n =>
               DeclarationsOf(n)' = DeclarationsOf(n) \cup {Len(seen) + 1}
  BY <1>1, <1>3 DEF DeclarationsOf
<1>9. \A n : n \in BaseNames \/ DeclarationsOf(n)' = {} => ParentName(n)' = NoName
  BY DEF ParentName, DeclarationsOf
<1>10. \A n : n \notin BaseNames /\ DeclarationsOf(n)' # {} =>
         ParentName(n)' = seen'[CHOOSE k \in DeclarationsOf(n)' :
                                  \A j \in DeclarationsOf(n)' : k <= j].parent
  BY DEF ParentName, DeclarationsOf
<1>11. \A n : DeclarationsOf(n) \subseteq Declared("typedefn")
  BY DEF DeclarationsOf
<1>12. ASSUME NEW n, NEW k \in DeclarationsOf(n), \A j \in DeclarationsOf(n) : k <= j
       PROVE  k = CHOOSE x \in DeclarationsOf(n)' : \A j \in DeclarationsOf(n)' : x <= j
  <2>1. /\ k \in DeclarationsOf(n)'
        /\ \A j \in DeclarationsOf(n)' : k <= j
        /\ \A j \in DeclarationsOf(n)' : j \in Nat
    BY <1>1, <1>7, <1>8, <1>11, <1>12
  <2> QED  BY <2>1
<1>13. \A n : e.el # "typedefn" \/ n # e.name \/ DeclarationsOf(n) # {} =>
         ParentName(n)' = ParentName(n)
  <2> SUFFICES ASSUME NEW n, e.el # "typedefn" \/ n # e.name \/ DeclarationsOf(n) # {}
               PROVE  ParentName(n)' = ParentName(n)
    OBVIOUS
  <2>1. CASE n \in BaseNames
    BY <2>1, <1>9, ParentNameIs
  <2>2. CASE DeclarationsOf(n) = {}
    BY <2>2, <1>7, <1>9, ParentNameIs
  <2>3. CASE n \notin BaseNames /\ DeclarationsOf(n) # {}
    <3>1. PICK k \in DeclarationsOf(n) : \A j \in DeclarationsOf(n) : k <= j
      BY <2>3, ParentNameIs
    <3>2. ParentName(n) = seen[k].parent
      BY <2>3, <3>1, ParentNameIs
    <3>3. DeclarationsOf(n)' # {}
      BY <2>3, <1>7, <1>8
    <3>4. ParentName(n)' = seen'[k].parent
      BY <2>3, <3>1, <3>3, <1>10, <1>12
    <3> QED  BY <3>2, <3>4, <1>1, <1>11
  <2> QED  BY <2>1, <2>2, <2>3
<1>14. \A n \in TypeNames : n \in BaseNames \/ DeclarationsOf(n) # {}
  BY DEF TypeNames, DeclarationsOf
<1>15. \A n \in TypeNames : ParentName(n)' = ParentName(n)
  <2>1. \A n \in BaseNames : ParentName(n)' = ParentName(n)
    BY <1>9, ParentNameIs
  <2> QED  BY <2>1, <1>13, <1>14
<1>16. e.el = "typedefn" /\ e.name \notin TypeNames => ParentName(e.name)' = e.parent
  <2> SUFFICES ASSUME e.el = "typedefn", e.name \notin TypeNames
               PROVE  ParentName(e.name)' = e.parent
    OBVIOUS
  <2>1. e.name \notin BaseNames /\ DeclarationsOf(e.name) = {}
    BY DEF TypeNames, DeclarationsOf
  <2>2. DeclarationsOf(e.name)' = {Len(seen) + 1}
    BY <1>8, <2>1
  <2>3. Len(seen) + 1 = CHOOSE x \in DeclarationsOf(e.name)' : \A j \in DeclarationsOf(e.name)' : x <= j
    BY <2>2, <1>1
  <2>4. ParentName(e.name)' = seen'[Len(seen) + 1].parent
    BY <1>10, <2>1, <2>2, <2>3
  <2> QED  BY <1>1, <2>4
<1> QED  BY <1>5, <1>6, <1>13, <1>15, <1>16

(* No element changes a codec that a name has.                             *)
LEMMA CodecsStay ==
  ASSUME seen \in Seq(Elements), NEW e \in Elements, seen' = Append(seen, e)
  PROVE  /\ e.el # "typedefn" => \A n : CodecOf(n)' = CodecOf(n)
         /\ \A n : CodecOf(n) # "UNKNOWN" => CodecOf(n)' = CodecOf(n)
<1>1. /\ e.el # "typedefn" => /\ TypeNames' = TypeNames
                              /\ \A n : ParentName(n)' = ParentName(n)
      /\ TypeNames \subseteq TypeNames'
      /\ \A n \in TypeNames : ParentName(n)' = ParentName(n)
  BY TypeNamesGrow
<1>2. \A c : Closed(c)' = {S \in SUBSET (TypeNames' \ BaseNames) :
               \A n \in TypeNames' \ BaseNames : ParentName(n)' \in S \cup Based(c) => n \in S}
  BY DEF Closed
<1>3. \A n, c : HasCodec(n, c)' <=>
                  n \in Based(c) \/ (n \in TypeNames' /\ \A S \in Closed(c)' : n \in S)
  BY DEF HasCodec
<1>4. ASSUME e.el # "typedefn"
      PROVE  \A n : CodecOf(n)' = CodecOf(n)
  <2>1. \A c : Closed(c)' = Closed(c)
    BY <1>1, <1>2, <1>4, Zenon DEF Closed
  <2>2. \A n, c : HasCodec(n, c)' <=> HasCodec(n, c)
    BY <1>1, <1>3, <1>4, <2>1 DEF HasCodec
  <2>3. \A n : CodecOf(n)' = IF \E c \in Codecs : HasCodec(n, c)'
                             THEN CHOOSE c \in Codecs : HasCodec(n, c)' ELSE "UNKNOWN"
    BY DEF CodecOf
  <2>4. \A n : \A c, d \in Codecs : HasCodec(n, c)' /\ HasCodec(n, d)' => c = d
    BY <2>2, CodecIsUnique
  <2>5. ASSUME NEW n, NEW c \in Codecs, HasCodec(n, c)
        PROVE  CodecOf(n)' = c
    BY <2>2, <2>3, <2>4, <2>5
  <2>6. ASSUME NEW n, \A c \in Codecs : ~HasCodec(n, c)
        PROVE  CodecOf(n)' = "UNKNOWN"
    BY <2>2, <2>3, <2>6
  <2> QED  BY <2>5, <2>6, CodecOfIs
<1>5. (\A n, c, d : HasCodec(n, c) /\ HasCodec(n, d) => c = d)'
  BY CodecIsUnique, PTL
<1>6. ASSUME NEW n, NEW c, HasCodec(n, c)
      PROVE  HasCodec(n, c)'
  <2>1. CASE n \in Based(c)
    BY <2>1, <1>3
  <2>2. CASE n \notin Based(c)
    <3>1. n \in TypeNames /\ \A S \in Closed(c) : n \in S
      BY <2>2, <1>6 DEF HasCodec
    <3>2. ASSUME NEW S \in Closed(c)'
          PROVE  S \cap Derived \in Closed(c)
      BY <1>1, <1>2 DEF Closed, Derived
    <3> QED  BY <1>1, <1>3, <3>1, <3>2
  <2> QED  BY <2>1, <2>2
<1>7. \A n : CodecOf(n) # "UNKNOWN" => CodecOf(n)' = CodecOf(n)
  <2> SUFFICES ASSUME NEW n, CodecOf(n) # "UNKNOWN" PROVE CodecOf(n)' = CodecOf(n)
    OBVIOUS
  <2>1. PICK c \in Codecs : HasCodec(n, c)
    BY CodecOfIs
  <2>2. HasCodec(n, c)'
    BY <1>6, <2>1
  <2>3. CodecOf(n)' = IF \E d \in Codecs : HasCodec(n, d)'
                      THEN CHOOSE d \in Codecs : HasCodec(n, d)' ELSE "UNKNOWN"
    BY DEF CodecOf
  <2>4. \A d \in Codecs : HasCodec(n, d)' => d = c
    BY <1>5, <2>2
  <2> QED  BY <2>1, <2>2, <2>3, <2>4, CodecOfIs
<1> QED  BY <1>4, <1>7
-----------------------------------------------------------------------------
(* Within, one element further.                                            *)
LEMMA NestingGrows ==
  ASSUME NEW doc \in Seq(Elements), NEW n \in 1 .. Len(doc), NEW tag, NEW tags
  PROVE  Within(doc, n, tag, tags) <=>
           doc[n].el = tag \/ (doc[n].el \in tags /\ Within(doc, n - 1, tag, tags))
<1>1. ASSUME Within(doc, n, tag, tags)
      PROVE  doc[n].el = tag \/ (doc[n].el \in tags /\ Within(doc, n - 1, tag, tags))
  <2>1. PICK j \in 1 .. n : doc[j].el = tag /\ \A m \in j + 1 .. n : doc[m].el \in tags
    BY <1>1 DEF Within
  <2>2. CASE j = n
    BY <2>1, <2>2
  <2>3. CASE j # n
    <3>1. j \in 1 .. n - 1 /\ n \in j + 1 .. n /\ \A m \in j + 1 .. n - 1 : doc[m].el \in tags
      BY <2>1, <2>3
    <3> QED  BY <2>1, <3>1 DEF Within
  <2> QED  BY <2>2, <2>3
<1>2. ASSUME doc[n].el = tag
      PROVE  Within(doc, n, tag, tags)
  BY <1>2 DEF Within
<1>3. ASSUME doc[n].el \in tags, Within(doc, n - 1, tag, tags)
      PROVE  Within(doc, n, tag, tags)
  <2>1. PICK j \in 1 .. n - 1 : doc[j].el = tag /\ \A m \in j + 1 .. n - 1 : doc[m].el \in tags
    BY <1>3 DEF Within
  <2>2. j \in 1 .. n /\ \A m \in j + 1 .. n : m = n \/ m \in j + 1 .. n - 1
    OBVIOUS
  <2> QED  BY <1>3, <2>1, <2>2 DEF Within
<1> QED  BY <1>1, <1>2, <1>3

(* The elements of a command, one element further.                         *)
LEMMA InCommandGrows ==
  ASSUME NEW doc \in Seq(Elements), NEW n \in 1 .. Len(doc)
  PROVE  InCommand(doc, n) <=>
           doc[n].el = "command" \/ (/\ doc[n].el \in {"requestrules", "section", "avprule"}
                                     /\ InCommand(doc, n - 1))
BY NestingGrows DEF InCommand

(* The elements of a list of rules, one element further.                   *)
LEMMA InRulesGrows ==
  ASSUME NEW doc \in Seq(Elements), NEW n \in 1 .. Len(doc)
  PROVE  InRules(doc, n) <=>
           \/ doc[n].el \in {"requestrules", "answerrules", "grouped"}
           \/ doc[n].el \in {"section", "avprule"} /\ InRules(doc, n - 1)
<1> DEFINE T == {"requestrules", "answerrules", "grouped"}
<1>1. \A k \in {n - 1, n} : InRules(doc, k) <=> \E tag \in T : Within(doc, k, tag, {"section", "avprule"})
  BY DEF InRules
<1>2. \A tag : Within(doc, n, tag, {"section", "avprule"}) <=>
        doc[n].el = tag \/ (doc[n].el \in {"section", "avprule"}
                              /\ Within(doc, n - 1, tag, {"section", "avprule"}))
  BY NestingGrows
<1> QED  BY <1>1, <1>2, Zenon

(* A file starts outside of commands and rules.                            *)
LEMMA OutsideAtStart ==
  ASSUME NEW doc
  PROVE  ~InCommand(doc, 0) /\ ~InRules(doc, 0)
BY DEF InCommand, InRules, Within

(* A start tag takes the next element of some file, whose context the      *)
(* pointers have and which is where it fits.                               *)
LEMMA ElementIsRead ==
  ASSUME Shape, Reading, NEW tag, Start(tag)
  PROVE  /\ Head(rest) \in Elements /\ Head(rest).el = tag
         /\ pc = "parse" /\ pc' = "parse"
         /\ seen' = Append(seen, Head(rest))
         /\ rest' = Tail(rest) /\ rest' \in Seq(Elements) /\ seen' \in Seq(Elements)
         /\ \E doc \in Documents : \E n \in 1 .. Len(doc) :
              /\ doc \in Seq(Elements) /\ doc[n] = Head(rest) /\ Fits(doc, n)
              /\ Context(doc, n - 1)
              /\ rest' = SubSeq(doc, n + 1, Len(doc))
<1>1. /\ pc = "parse" /\ pc' = "parse" /\ rest # << >> /\ rest \in Seq(Elements)
      /\ rest' = Tail(rest) /\ seen' = Append(seen, Head(rest)) /\ Head(rest).el = tag
      /\ seen \in Seq(Elements)
  BY DEF Start, Shape
<1>2. PICK doc \in Documents : \E n \in 0 .. Len(doc) :
        rest = SubSeq(doc, n + 1, Len(doc)) /\ Context(doc, n)
  BY <1>1 DEF Reading
<1>3. doc \in Seq(Elements) /\ \A k \in DOMAIN doc : Fits(doc, k)
  BY DictAssumption DEF DictAssumption
<1>4. PICK m \in 0 .. Len(doc) : rest = SubSeq(doc, m + 1, Len(doc)) /\ Context(doc, m)
  BY <1>2
<1>5. m + 1 \in 1 .. Len(doc) /\ Head(rest) = doc[m + 1] /\ Tail(rest) = SubSeq(doc, m + 2, Len(doc))
  BY <1>1, <1>3, <1>4
<1>6. (m + 1) - 1 = m /\ (m + 1) + 1 = m + 2 /\ m + 1 \in DOMAIN doc
  BY <1>3, <1>5
<1>7. \E n \in 1 .. Len(doc) :
              /\ doc \in Seq(Elements) /\ doc[n] = Head(rest) /\ Fits(doc, n)
              /\ Context(doc, n - 1)
              /\ rest' = SubSeq(doc, n + 1, Len(doc))
  BY <1>1, <1>3, <1>4, <1>5, <1>6
<1>8. Head(rest) \in Elements /\ rest' \in Seq(Elements) /\ seen' \in Seq(Elements)
  BY <1>1
<1> QED  BY <1>1, <1>7, <1>8, Zenon
-----------------------------------------------------------------------------
(* A dictionary with nothing but its base types is in order.               *)
LEMMA InitHandler == Init => HandlerInv
<1> SUFFICES ASSUME Init PROVE HandlerInv
  OBVIOUS
<1>1. BaseTypes \in Seq(TypeEntry) /\ BaseTypes # << >> /\ Len(BaseTypes) = 8
  <2>1. \A i \in 1 .. 8 : BaseTypes[i] =
          [name |-> BaseTypes[i].name, codec |-> BaseTypes[i].codec,
           parent_name |-> NoName, parent |-> Null]
    BY DEF BaseTypes, Null
  <2>2. \A i \in 1 .. 8 : BaseTypes[i] \in TypeEntry
    <3> SUFFICES ASSUME NEW i \in 1 .. 8 PROVE BaseTypes[i] \in TypeEntry
      OBVIOUS
    <3>1. BaseTypes[i].name \in DOMAIN Rank /\ BaseTypes[i].codec \in Codecs
      BY BaseTypesAre, DictAssumption DEF DictAssumption
    <3>2. Null \in Pointer
      BY DEF Null, Pointer
    <3>3. NoName \in Names
      BY DictAssumption DEF DictAssumption
    <3> QED  BY <2>1, <3>1, <3>2, <3>3 DEF TypeEntry
  <2>3. BaseTypes = [i \in 1 .. 8 |-> BaseTypes[i]]
    BY DEF BaseTypes
  <2>4. BaseTypes \in [1 .. 8 -> TypeEntry]
    BY <2>2, <2>3, Zenon
  <2>5. BaseTypes \in Seq(TypeEntry)
    BY <2>4, SeqDef
  <2> QED  BY <2>4, <2>5
<1>2. Shape
  BY <1>1 DEF Init, Shape, Table, NewArray, Null, Pointer
<1>3. TypeOK
  <2>1. /\ apps = NewArray /\ vendors = NewArray /\ cmds = NewArray /\ avps = NewArray
        /\ types.block = 0 /\ types.items = BaseTypes
        /\ pc = "idle" /\ status = "new" /\ loads = 0
        /\ curr = [cmd |-> Null, avp |-> Null, rules |-> 0] /\ walk = [i |-> 0, curr |-> Null]
    BY DEF Init
  <2>2. \A arr : Null \in Pointers(arr)
    BY DEF Pointers
  <2>3. \A arr \in {apps, vendors, cmds, avps, types} : arr.block \in Nat
    BY <2>1 DEF NewArray
  <2>4. DOMAIN cmds.items = {} /\ DOMAIN avps.items = {}
    BY <2>1 DEF NewArray
  <2>5. \A i \in DOMAIN types.items : types.items[i].codec \in Codecs /\ types.items[i].parent = Null
    BY <2>1, BaseTypesAre
  <2>6. loads \in 0 .. MaxLoads
    BY <2>1, DictAssumption DEF DictAssumption
  <2>7. /\ curr.cmd \in Pointers(cmds) /\ curr.avp \in Pointers(avps)
        /\ curr.rules \in {0} \cup DOMAIN arrays
        /\ walk.i \in {0} \cup DOMAIN types.items /\ walk.curr \in Pointers(types)
    BY <2>1, <2>2
  <2> QED  BY <2>1, <2>2, <2>3, <2>4, <2>5, <2>6, <2>7 DEF TypeOK
<1>4. OwnContent /\ NoSharing /\ Reading
  BY DEF Init, OwnContent, NoSharing, Reading, NewArray
<1>5. RulesOnly
  <2>1. DOMAIN cmds.items = {} /\ DOMAIN avps.items = {}
    BY DEF Init, NewArray
  <2> QED  BY <2>1 DEF RulesOnly, RuleArrays, RuleArraysOf
<1> QED  BY <1>2, <1>3, <1>4, <1>5 DEF HandlerInv

(* So it is when a load begins, or fails to,                               *)
LEMMA OpenKeepsHandler ==
  ASSUME HandlerInv, NEW doc \in Documents, Open(doc)
  PROVE  HandlerInv'
<1>1. doc \in Seq(Elements) /\ doc = SubSeq(doc, 1, Len(doc))
  BY DictAssumption DEF DictAssumption
<1>2. /\ UNCHANGED <<seen, apps, vendors, cmds, avps, types, arrays, walk>>
      /\ curr' = [cmd |-> Null, avp |-> Null, rules |-> 0]
      /\ rest' \in {doc, rest}
      /\ loads' \in 0 .. MaxLoads
      /\ pc' \in {"parse", "idle", "dead"} /\ status' \in {status, "loading", "error"}
      /\ pc' = "parse" => rest' = doc
  BY DictAssumption DEF Open, tables, HandlerInv, TypeOK, DictAssumption
<1>3. Shape'
  BY <1>1, <1>2 DEF HandlerInv, Shape, Null, Pointer
<1>4. TypeOK'
  BY <1>2 DEF HandlerInv, TypeOK, Pointers
<1>5. OwnContent' /\ NoSharing' /\ RulesOnly'
  BY <1>2 DEF HandlerInv, OwnContent, NoSharing, RulesOnly, RuleArrays
<1>6. Reading'
  <2>1. Context(doc, 0)'
    BY OutsideAtStart DEF Context
  <2> QED  BY <1>1, <1>2, <2>1 DEF Reading
<1> QED  BY <1>3, <1>4, <1>5, <1>6 DEF HandlerInv

(* when a load fails, crashes or reaches the end of the file,              *)
LEMMA QuietKeepsHandler ==
  ASSUME HandlerInv, Fail \/ EndOfFile \/ BuildCrash
  PROVE  HandlerInv'
<1>1. /\ UNCHANGED <<loads, seen, apps, vendors, cmds, avps, types, arrays, curr, walk>>
      /\ rest' \in {<< >>, rest}
      /\ pc' \in {"idle", "tables", "dead"} /\ status' \in {status, "error"}
  BY DEF Fail, EndOfFile, BuildCrash, tables
<1>2. Shape'
  <2>1. rest \in Seq(Elements) /\ << >> \in Seq(Elements)
    BY DEF HandlerInv, Shape
  <2>2. rest' \in Seq(Elements)
    BY <1>1, <2>1
  <2> QED  BY <1>1, <2>2 DEF HandlerInv, Shape
<1>3. TypeOK'
  BY <1>1 DEF HandlerInv, TypeOK, Pointers
<1>4. OwnContent' /\ NoSharing' /\ RulesOnly'
  BY <1>1 DEF HandlerInv, OwnContent, NoSharing, RulesOnly, RuleArrays
<1> QED  BY <1>1, <1>2, <1>3, <1>4 DEF HandlerInv, Reading

(* What a search returns is a pointer into the table or NULL.              *)
LEMMA FirstNamedPoints ==
  ASSUME NEW S, NEW arr \in Table(S), NEW name
  PROVE  FirstNamed(arr, name) \in Pointers(arr) \cap Pointer
<1>1. \A i \in DOMAIN arr.items : PointerTo(arr, i) \in Pointers(arr) \cap Pointer
  BY DEF PointerTo, Pointers, Pointer, Table
<1>2. Null \in Pointers(arr) \cap Pointer
  BY DEF Null, Pointers, Pointer
<1> QED  BY <1>1, <1>2, FirstNamedOf

(* Elements that touch neither commands nor AVPs keep the invariant.       *)
LEMMA AsideKeepsHandler ==
  ASSUME HandlerInv, NEW tag \in {"base", "application", "vendor", "section", "other"},
         Start(tag), apps' \in Table(App), vendors' \in Table(App),
         UNCHANGED <<cmds, avps, types, arrays, curr>>
  PROVE  HandlerInv'
<1>1. /\ pc = "parse" /\ pc' = "parse" /\ Head(rest).el = tag
      /\ rest' \in Seq(Elements) /\ seen' \in Seq(Elements)
      /\ UNCHANGED <<status, loads, walk>>
  BY ElementIsRead DEF HandlerInv, Start
<1>2. Shape'
  BY <1>1 DEF HandlerInv, Shape
<1>3. TypeOK'
  BY <1>1, <1>2 DEF HandlerInv, TypeOK, Pointers, Shape, Table
<1>4. OwnContent' /\ NoSharing' /\ RulesOnly'
  BY DEF HandlerInv, OwnContent, NoSharing, RulesOnly, RuleArrays
<1>5. PICK doc \in Documents : \E n \in 1 .. Len(doc) :
        /\ doc \in Seq(Elements) /\ doc[n] = Head(rest) /\ Fits(doc, n) /\ Context(doc, n - 1)
        /\ rest' = SubSeq(doc, n + 1, Len(doc))
  BY ElementIsRead DEF HandlerInv
<1>6. PICK n \in 1 .. Len(doc) :
        /\ doc \in Seq(Elements) /\ doc[n] = Head(rest) /\ Context(doc, n - 1)
        /\ rest' = SubSeq(doc, n + 1, Len(doc))
  BY <1>5
<1>7. Context(doc, n)'
  BY <1>1, <1>6, InCommandGrows, InRulesGrows DEF Context, RuleArrays
<1> QED  BY <1>1, <1>2, <1>3, <1>4, <1>6, <1>7 DEF HandlerInv, Reading

(* Applications, vendors and elements that are passed over do so.          *)
LEMMA AppKeepsHandler ==
  ASSUME HandlerInv, (\E tag \in {"base", "application"} : AddApp(tag)) \/ Vendor \/ Other
  PROVE  HandlerInv'
<1>1. apps \in Table(App) /\ vendors \in Table(App)
  BY DEF HandlerInv, Shape
<1>2. ASSUME NEW tag \in {"base", "application"}, AddApp(tag)
      PROVE  HandlerInv'
  <2>1. Start(tag) /\ UNCHANGED <<vendors, cmds, avps, types, arrays, curr>>
    BY <1>2 DEF AddApp
  <2>2. Head(rest) \in Elements
    BY <2>1, ElementIsRead DEF HandlerInv
  <2>3. [id |-> IF tag = "base" THEN 0 ELSE Head(rest).code] \in App
    BY <2>2 DEF App, Elements
  <2>4. apps' \in Table(App)
    BY <1>1, <1>2, <2>3, PushBackAppends DEF AddApp
  <2> QED  BY <1>1, <2>1, <2>4, AsideKeepsHandler
<1>3. CASE Vendor
  <2>1. Start("vendor") /\ UNCHANGED <<apps, cmds, avps, types, arrays, curr>>
    BY <1>3 DEF Vendor
  <2>2. Head(rest) \in Elements
    BY <2>1, ElementIsRead DEF HandlerInv
  <2>3. [id |-> Head(rest).code] \in App
    BY <2>2 DEF App, Elements
  <2>4. vendors' \in Table(App)
    BY <1>1, <1>3, <2>3, PushBackAppends DEF Vendor
  <2> QED  BY <1>1, <2>1, <2>4, AsideKeepsHandler
<1>4. CASE Other
  <2>1. PICK tag \in {"section", "other"} : Start(tag)
    BY <1>4 DEF Other
  <2> QED  BY <1>1, <1>4, <2>1, AsideKeepsHandler DEF Other, tables
<1> QED  BY <1>2, <1>3, <1>4

(* A command brings two arrays nobody has and is the current one.          *)
LEMMA CommandKeepsHandler ==
  ASSUME HandlerInv, Command
  PROVE  HandlerInv'
<1> DEFINE e == Head(rest)
           N == Len(arrays)
           cmd == [name |-> e.name, code |-> e.code, req_rules |-> N + 1, ans_rules |-> N + 2]
<1>1. /\ Start("command") /\ pc = "parse" /\ pc' = "parse" /\ e.el = "command" /\ e \in Elements
      /\ rest' \in Seq(Elements) /\ seen' \in Seq(Elements)
      /\ UNCHANGED <<status, loads, walk, apps, vendors, avps, types>>
  BY ElementIsRead DEF HandlerInv, Start, Command
<1>2. arrays \in Seq(Seq(Rule \cup EnumEntry)) /\ N \in Nat /\ cmds \in Table(Cmd)
  BY DEF HandlerInv, Shape
<1>3. cmd \in Cmd
  BY <1>1, <1>2 DEF Cmd, Elements
<1>4. /\ cmds' \in Table(Cmd) /\ cmds'.items = Append(cmds.items, cmd)
      /\ Len(cmds'.items) = Len(cmds.items) + 1 /\ cmds'.block >= cmds.block
  BY <1>2, <1>3, PushBackAppends DEF Command
<1>5. cmds'.items # << >> /\ cmds'.items \in Seq(Cmd) /\ cmds.items \in Seq(Cmd)
  <2>1. cmds'.items \in Seq(Cmd) /\ cmds.items \in Seq(Cmd)
    BY <1>2, <1>4, Zenon DEF Table
  <2>2. Len(cmds.items) \in Nat
    BY <2>1
  <2>3. Len(cmds'.items) # 0
    BY <1>4, <2>2
  <2> QED  BY <2>1, <2>3
<1>6. curr' = [curr EXCEPT !.cmd = Back(cmds')]
  BY DEF Command
<1>7. Back(cmds') \in Pointers(cmds') /\ Back(cmds') \in Pointer
  BY <1>4, <1>5, BackPoints
<1>8. /\ arrays' = arrays \o << << >>, << >> >>
      /\ arrays' \in Seq(Seq(Rule \cup EnumEntry))
      /\ DOMAIN arrays' = DOMAIN arrays \cup {N + 1, N + 2}
      /\ \A k \in DOMAIN arrays : arrays'[k] = arrays[k]
      /\ arrays'[N + 1] = << >> /\ arrays'[N + 2] = << >>
  <2>1. << << >>, << >> >> \in Seq(Seq(Rule \cup EnumEntry))
    OBVIOUS
  <2>2. arrays' = arrays \o << << >>, << >> >>
    BY DEF Command
  <2> QED  BY <1>2, <2>1, <2>2
<1> HIDE DEF e, N, cmd
<1>9. Shape'
  BY <1>1, <1>4, <1>6, <1>7, <1>8 DEF HandlerInv, Shape
<1>10. /\ \A i \in DOMAIN cmds.items : i \in DOMAIN cmds'.items /\ cmds'.items[i] = cmds.items[i]
       /\ Len(cmds.items) + 1 \in DOMAIN cmds'.items /\ cmds'.items[Len(cmds.items) + 1] = cmd
       /\ \A i \in DOMAIN cmds'.items : \/ i \in DOMAIN cmds.items /\ cmds'.items[i] = cmds.items[i]
                                        \/ cmds'.items[i] = cmd
  BY <1>3, <1>4, <1>5, AppendAdds
<1>11. cmd.req_rules = N + 1 /\ cmd.ans_rules = N + 2
  BY DEF cmd
<1>12. Pointers(cmds) \subseteq Pointers(cmds')
  BY <1>2, <1>4, PointersGrow DEF Table
<1>13. TypeOK'
  <2>1. \A i \in DOMAIN cmds'.items :
          {cmds'.items[i].req_rules, cmds'.items[i].ans_rules} \subseteq DOMAIN arrays'
    <3>1. \A i \in DOMAIN cmds.items :
            {cmds.items[i].req_rules, cmds.items[i].ans_rules} \subseteq DOMAIN arrays
      BY DEF HandlerInv, TypeOK
    <3>2. N + 1 \in DOMAIN arrays' /\ N + 2 \in DOMAIN arrays' /\ \A k \in DOMAIN arrays : k \in DOMAIN arrays'
      BY <1>8
    <3>3. {cmd.req_rules, cmd.ans_rules} \subseteq DOMAIN arrays'
      BY <1>11, <3>2
    <3> SUFFICES ASSUME NEW i \in DOMAIN cmds'.items
                 PROVE  {cmds'.items[i].req_rules, cmds'.items[i].ans_rules} \subseteq DOMAIN arrays'
      OBVIOUS
    <3>4. cmds'.items[i] = cmd \/ (i \in DOMAIN cmds.items /\ cmds'.items[i] = cmds.items[i])
      BY <1>10
    <3> QED  BY <3>1, <3>2, <3>3, <3>4
  <2>2. \A i \in DOMAIN avps'.items :
          avps'.items[i].content \in {0} \cup DOMAIN arrays' /\ avps'.items[i].type \in Pointers(types')
    BY <1>1, <1>8 DEF HandlerInv, TypeOK, Pointers
  <2>3. curr'.cmd \in Pointers(cmds') /\ curr'.avp \in Pointers(avps') /\ curr'.rules \in {0} \cup DOMAIN arrays'
    BY <1>1, <1>6, <1>7, <1>8 DEF HandlerInv, TypeOK, Pointers, Shape
  <2> QED  BY <1>1, <1>4, <2>1, <2>2, <2>3 DEF HandlerInv, TypeOK, Pointers, Table
<1>14. OwnContent'
  BY <1>1 DEF HandlerInv, OwnContent
<1>15. N \in Nat /\ \A i \in DOMAIN avps.items : avps.items[i].content \in 0 .. N
  <2>1. DOMAIN arrays = 1 .. N
    BY <1>2 DEF N
  <2>2. \A i \in DOMAIN avps.items : avps.items[i].content \in {0} \cup DOMAIN arrays
    BY DEF HandlerInv, TypeOK
  <2> QED  BY <1>2, <2>1, <2>2
<1>16. NoSharing'
  <2>1. \A i \in DOMAIN avps.items : \A j \in DOMAIN cmds.items :
          avps.items[i].content \notin {cmds'.items[j].req_rules, cmds'.items[j].ans_rules}
    BY <1>10 DEF HandlerInv, NoSharing
  <2>2. \A i \in DOMAIN avps.items : avps.items[i].content \notin {N + 1, N + 2}
    BY <1>15
  <2>3. \A i \in DOMAIN avps.items : \A j \in DOMAIN cmds'.items :
          avps.items[i].content \notin {cmds'.items[j].req_rules, cmds'.items[j].ans_rules}
    BY <1>10, <1>11, <2>1, <2>2
  <2> QED  BY <1>1, <2>3 DEF NoSharing
<1>17. RuleArrays' = RuleArrays \cup {N + 1, N + 2}
  <2>1. \A k \in Nat :
          (\E i \in DOMAIN cmds'.items : k \in {cmds'.items[i].req_rules, cmds'.items[i].ans_rules})
            <=> \/ \E i \in DOMAIN cmds.items : k \in {cmds.items[i].req_rules, cmds.items[i].ans_rules}
                \/ k \in {N + 1, N + 2}
    BY <1>10, <1>11
  <2>2. N + 1 \in Nat /\ N + 2 \in Nat
    BY <1>2
  <2> QED  BY <1>1, <2>1, <2>2 DEF RuleArrays, RuleArraysOf
<1>18. RulesOnly'
  BY <1>8, <1>17 DEF HandlerInv, RulesOnly
<1>19. PICK doc \in Documents : \E n \in 1 .. Len(doc) :
        /\ doc \in Seq(Elements) /\ doc[n] = Head(rest) /\ Fits(doc, n) /\ Context(doc, n - 1)
        /\ rest' = SubSeq(doc, n + 1, Len(doc))
  BY <1>1, ElementIsRead DEF HandlerInv
<1>20. PICK n \in 1 .. Len(doc) :
        /\ doc \in Seq(Elements) /\ doc[n] = Head(rest)
        /\ rest' = SubSeq(doc, n + 1, Len(doc))
  BY <1>19
<1>21. Context(doc, n)'
  <2>1. doc[n].el = "command"
    BY <1>1, <1>20 DEF e
  <2>2. ~InRules(doc, n)
    BY <1>20, <2>1, InRulesGrows
  <2>3. curr'.cmd = Back(cmds')
    BY <1>6 DEF HandlerInv, Shape
  <2> QED  BY <1>5, <2>1, <2>2, <2>3 DEF Context
<1> QED  BY <1>9, <1>13, <1>14, <1>16, <1>18, <1>20, <1>21 DEF HandlerInv, Reading

(* What the handler finds at its pointers when an element arrives, by the  *)
(* place the element has in the file.                                      *)
LEMMA AtElement ==
  ASSUME HandlerInv, NEW tag, Start(tag)
  PROVE  /\ tag \in {"type", "grouped"} => OnAvp /\ Deref(avps, curr.avp).content = 0
         /\ tag = "enum" => OnAvp /\ Deref(avps, curr.avp).type_name # "grouped"
         /\ tag \in {"requestrules", "answerrules"} => cmds.items # << >> /\ curr.cmd = Back(cmds)
         /\ tag \in {"section", "avprule"} => curr.rules \in RuleArrays
         /\ tag = "type" => Head(rest).name # "grouped"
         /\ tag = "typedefn" => Head(rest).name \in DOMAIN Rank \ {NoName}
<1>1. PICK doc \in Documents : \E n \in 1 .. Len(doc) :
        /\ doc \in Seq(Elements) /\ doc[n] = Head(rest) /\ Fits(doc, n) /\ Context(doc, n - 1)
  BY ElementIsRead DEF HandlerInv
<1>2. PICK n \in 1 .. Len(doc) :
        /\ doc \in Seq(Elements) /\ doc[n] = Head(rest) /\ Fits(doc, n) /\ Context(doc, n - 1)
  BY <1>1
<1>3. doc[n].el = tag
  BY <1>2, ElementIsRead DEF HandlerInv
<1>4. ASSUME n = 1
      PROVE  tag \notin {"type", "grouped", "enum", "requestrules", "answerrules", "section", "avprule"}
  <2>1. ~InCommand(doc, n - 1) /\ ~InRules(doc, n - 1)
    BY <1>4, OutsideAtStart
  <2> QED  BY <1>2, <1>3, <1>4, <2>1 DEF Fits
<1>5. tag \in {"type", "grouped"} => OnAvp /\ Deref(avps, curr.avp).content = 0
  BY <1>2, <1>3, <1>4 DEF Fits, Context
<1>6. tag = "enum" => OnAvp /\ Deref(avps, curr.avp).type_name # "grouped"
  BY <1>2, <1>3, <1>4 DEF Fits, Context
<1>7. tag \in {"requestrules", "answerrules"} => InCommand(doc, n - 1)
  <2>1. tag = "requestrules" => n # 1 /\ doc[n - 1].el = "command"
    BY <1>2, <1>3, <1>4 DEF Fits
  <2>2. tag = "requestrules" => InCommand(doc, n - 1)
    BY <1>2, <2>1, InCommandGrows
  <2> QED  BY <1>2, <1>3, <2>2 DEF Fits
<1>8. tag \in {"section", "avprule"} => InRules(doc, n - 1)
  BY <1>2, <1>3 DEF Fits
<1>9. tag = "type" => Head(rest).name # "grouped"
  BY <1>2, <1>3 DEF Fits
<1>10. tag = "typedefn" => Head(rest).name \in DOMAIN Rank \ {NoName}
  BY <1>2, <1>3 DEF Fits
<1> QED  BY <1>2, <1>5, <1>6, <1>7, <1>8, <1>9, <1>10 DEF Context

(* After an element the pointers have its context if they had that of the  *)
(* one before.                                                             *)
LEMMA ReadingKept ==
  ASSUME HandlerInv, NEW tag, Start(tag),
         \A doc : \A n : (/\ doc \in Seq(Elements) /\ n \in 1 .. Len(doc)
                          /\ doc[n] = Head(rest) /\ doc[n].el = tag
                          /\ Context(doc, n - 1)) => Context(doc, n)'
  PROVE  Reading'
<1>1. PICK doc \in Documents : \E n \in 1 .. Len(doc) :
        /\ doc \in Seq(Elements) /\ doc[n] = Head(rest) /\ Context(doc, n - 1)
        /\ rest' = SubSeq(doc, n + 1, Len(doc))
  BY ElementIsRead DEF HandlerInv
<1>2. PICK n \in 1 .. Len(doc) :
        /\ doc \in Seq(Elements) /\ doc[n] = Head(rest) /\ Context(doc, n - 1)
        /\ rest' = SubSeq(doc, n + 1, Len(doc))
  BY <1>1
<1>3. doc[n].el = tag
  BY <1>2, ElementIsRead DEF HandlerInv
<1>4. Context(doc, n)'
  BY <1>2, <1>3
<1>5. n \in 0 .. Len(doc)
  OBVIOUS
<1> QED  BY <1>2, <1>4, <1>5 DEF Reading

(* The rules that follow are those of the current command.                 *)
LEMMA CommandRulesKeepsHandler ==
  ASSUME HandlerInv, CommandRules
  PROVE  HandlerInv'
<1>1. PICK tag \in {"requestrules", "answerrules"} :
        /\ Start(tag)
        /\ curr' = [curr EXCEPT !.rules = IF tag = "requestrules"
                                          THEN Deref(cmds, curr.cmd).req_rules
                                          ELSE Deref(cmds, curr.cmd).ans_rules]
  BY DEF CommandRules
<1>2. /\ rest' \in Seq(Elements) /\ seen' \in Seq(Elements) /\ pc = "parse" /\ pc' = "parse"
      /\ UNCHANGED <<status, loads, walk, apps, vendors, cmds, avps, types, arrays>>
  BY <1>1, ElementIsRead DEF HandlerInv, Start, CommandRules, tables
<1>3. cmds \in Table(Cmd) /\ cmds.items # << >> /\ curr.cmd = Back(cmds)
  BY <1>1, AtElement DEF HandlerInv, Shape
<1>4. PICK i \in DOMAIN cmds.items : Deref(cmds, curr.cmd) = cmds.items[i]
  BY <1>3, BackPoints
<1>5. cmds.items[i] \in Cmd
  BY <1>3 DEF Table
<1>6. curr'.rules \in RuleArrays /\ curr' = [curr EXCEPT !.rules = curr'.rules] /\ curr'.rules \in Nat
  <2>1. cmds.items[i].req_rules \in RuleArrays /\ cmds.items[i].ans_rules \in RuleArrays
    BY <1>5 DEF Cmd, RuleArrays, RuleArraysOf
  <2>2. curr \in [cmd : Pointer, avp : Pointer, rules : Nat]
    BY DEF HandlerInv, Shape
  <2>3. RuleArrays \subseteq Nat
    BY DEF RuleArrays, RuleArraysOf
  <2> QED  BY <1>1, <1>4, <2>1, <2>2, <2>3
<1>7. Shape'
  BY <1>2, <1>6 DEF HandlerInv, Shape
<1>8. RuleArrays \subseteq DOMAIN arrays
  BY DEF HandlerInv, RulesOnly
<1>9. curr'.cmd = curr.cmd /\ curr'.avp = curr.avp
  BY <1>6 DEF HandlerInv, Shape
<1>10. TypeOK'
  BY <1>2, <1>6, <1>8, <1>9 DEF HandlerInv, TypeOK, Pointers
<1>11. OwnContent' /\ NoSharing' /\ RulesOnly' /\ RuleArrays' = RuleArrays
  BY <1>2 DEF HandlerInv, OwnContent, NoSharing, RulesOnly, RuleArrays
<1>12. ASSUME NEW doc \in Seq(Elements), NEW n \in 1 .. Len(doc), doc[n].el = tag,
              Context(doc, n - 1)
       PROVE  Context(doc, n)'
  BY <1>2, <1>3, <1>6, <1>9, <1>11, <1>12 DEF Context
<1>13. Reading'
  BY <1>1, <1>12, ReadingKept
<1> QED  BY <1>7, <1>10, <1>11, <1>13 DEF HandlerInv

(* A rule goes into an array that holds rules.                             *)
LEMMA AvpRuleKeepsHandler ==
  ASSUME HandlerInv, AvpRule
  PROVE  HandlerInv'
<1> DEFINE rule == [name |-> Head(rest).name, avp |-> Null]
<1>1. /\ Start("avprule") /\ Head(rest) \in Elements
      /\ rest' \in Seq(Elements) /\ seen' \in Seq(Elements) /\ pc = "parse" /\ pc' = "parse"
      /\ UNCHANGED <<status, loads, walk, apps, vendors, cmds, avps, types, curr>>
  BY ElementIsRead DEF HandlerInv, Start, AvpRule
<1>2. curr.rules \in RuleArrays /\ curr.rules \in DOMAIN arrays
  BY <1>1, AtElement DEF HandlerInv, RulesOnly
<1>3. rule \in Rule
  BY <1>1 DEF Rule, Elements, Null, Pointer
<1>4. arrays \in Seq(Seq(Rule \cup EnumEntry))
  BY DEF HandlerInv, Shape
<1>5. arrays' = [arrays EXCEPT ![curr.rules] = Append(arrays[curr.rules], rule)]
  BY DEF AvpRule
<1> HIDE DEF rule
<1>6. arrays[curr.rules] \in Seq(Rule \cup EnumEntry)
  BY <1>2, <1>4
<1>7. /\ Append(arrays[curr.rules], rule) \in Seq(Rule \cup EnumEntry)
      /\ \A r \in DOMAIN Append(arrays[curr.rules], rule) :
           \/ r \in DOMAIN arrays[curr.rules] /\ Append(arrays[curr.rules], rule)[r] = arrays[curr.rules][r]
           \/ Append(arrays[curr.rules], rule)[r] = rule
  BY <1>3, <1>6, AppendAdds
<1>8. arrays' \in Seq(Seq(Rule \cup EnumEntry)) /\ DOMAIN arrays' = DOMAIN arrays
  BY <1>2, <1>4, <1>5, <1>7
<1>9. \A k \in DOMAIN arrays : k # curr.rules => arrays'[k] = arrays[k]
  BY <1>4, <1>5
<1>10. arrays'[curr.rules] = Append(arrays[curr.rules], rule)
  BY <1>2, <1>4, <1>5
<1>11. Shape'
  BY <1>1, <1>8 DEF HandlerInv, Shape
<1>12. TypeOK'
  BY <1>1, <1>8 DEF HandlerInv, TypeOK, Pointers
<1>13. OwnContent' /\ NoSharing' /\ RuleArrays' = RuleArrays
  BY <1>1 DEF HandlerInv, OwnContent, NoSharing, RuleArrays
<1>14. RulesOnly'
  <2>1. \A k \in RuleArrays : k \in DOMAIN arrays /\ \A r \in DOMAIN arrays[k] : arrays[k][r] \in Rule
    BY DEF HandlerInv, RulesOnly
  <2>2. \A r \in DOMAIN arrays'[curr.rules] : arrays'[curr.rules][r] \in Rule
    BY <1>2, <1>3, <1>7, <1>10, <2>1
  <2>3. \A k \in RuleArrays : \A r \in DOMAIN arrays'[k] : arrays'[k][r] \in Rule
    BY <1>9, <2>1, <2>2
  <2> QED  BY <1>8, <1>13, <2>1, <2>3 DEF RulesOnly
<1>15. ASSUME NEW doc \in Seq(Elements), NEW n \in 1 .. Len(doc), doc[n].el = "avprule",
              Context(doc, n - 1)
       PROVE  Context(doc, n)'
  BY <1>1, <1>2, <1>13, <1>15, InCommandGrows DEF Context, OnAvp
<1>16. Reading'
  BY <1>1, <1>15, ReadingKept
<1> QED  BY <1>11, <1>12, <1>13, <1>14, <1>16 DEF HandlerInv

(* An AVP is added, and is the current one even if the table moves.        *)
LEMMA AvpKeepsHandler ==
  ASSUME HandlerInv, Avp
  PROVE  HandlerInv'
<1> DEFINE avp == NewAvp(Head(rest))
<1>1. /\ Start("avp") /\ Head(rest) \in Elements
      /\ rest' \in Seq(Elements) /\ seen' \in Seq(Elements) /\ pc = "parse" /\ pc' = "parse"
      /\ UNCHANGED <<status, loads, walk, apps, vendors, cmds, types, arrays>>
      /\ avps' \in PushBack(avps, avp) /\ curr' = [curr EXCEPT !.avp = Back(avps')]
  BY ElementIsRead DEF HandlerInv, Start, Avp
<1>2. /\ avp \in AvpEntry /\ avp.type_name # "grouped" /\ avp.content = 0 /\ avp.type = Null
  <2>1. Null \in Pointer /\ NoName # "grouped"
    BY DEF Null, Pointer, NoName
  <2>2. NoName \in Names
    BY DictAssumption DEF DictAssumption
  <2>3. Head(rest).name \in Names /\ Head(rest).code \in Code
    BY <1>1 DEF Elements
  <2> QED  BY <2>1, <2>2, <2>3 DEF NewAvp, AvpEntry
<1>3. avps \in Table(AvpEntry) /\ curr \in [cmd : Pointer, avp : Pointer, rules : Nat]
  BY DEF HandlerInv, Shape
<1> HIDE DEF avp
<1>4. /\ avps' \in Table(AvpEntry) /\ avps'.items # << >>
      /\ \A i \in DOMAIN avps.items : i \in DOMAIN avps'.items /\ avps'.items[i] = avps.items[i]
      /\ \A i \in DOMAIN avps'.items : \/ i \in DOMAIN avps.items /\ avps'.items[i] = avps.items[i]
                                       \/ avps'.items[i] = avp
      /\ Back(avps') \in Pointers(avps') /\ Back(avps') \in Pointer
      /\ Deref(avps', Back(avps')) = avp
  BY <1>1, <1>2, <1>3, PushBackAppends
<1>5. curr'.avp = Back(avps') /\ curr'.cmd = curr.cmd /\ curr'.rules = curr.rules
      /\ curr' \in [cmd : Pointer, avp : Pointer, rules : Nat]
  BY <1>1, <1>3, <1>4
<1>6. Shape'
  BY <1>1, <1>4, <1>5 DEF HandlerInv, Shape
<1>7. TypeOK'
  <2>1. \A i \in DOMAIN avps.items :
          avps.items[i].content \in {0} \cup DOMAIN arrays /\ avps.items[i].type \in Pointers(types)
    BY DEF HandlerInv, TypeOK
  <2>2. Null \in Pointers(types)
    BY DEF Pointers
  <2>3. \A i \in DOMAIN avps'.items :
          avps'.items[i].content \in {0} \cup DOMAIN arrays /\ avps'.items[i].type \in Pointers(types)
    BY <1>2, <1>4, <2>1, <2>2
  <2>4. avps'.block \in Nat
    BY <1>4 DEF Table
  <2> QED  BY <1>1, <1>4, <1>5, <2>3, <2>4 DEF HandlerInv, TypeOK, Pointers
<1>8. OwnContent'
  <2>1. \A i \in DOMAIN avps.items : \A j \in DOMAIN avps.items :
          avps.items[i].content = avps.items[j].content /\ avps.items[i].content # 0 => i = j
    BY DEF HandlerInv, OwnContent
  <2> QED  BY <1>2, <1>4, <2>1 DEF OwnContent
<1>9. RulesOnly /\ NoSharing /\ \A i \in DOMAIN cmds.items : 0 \notin {cmds.items[i].req_rules, cmds.items[i].ans_rules}
  <2>1. 0 \notin DOMAIN arrays
    BY DEF HandlerInv, Shape
  <2>2. \A i \in DOMAIN cmds.items :
          {cmds.items[i].req_rules, cmds.items[i].ans_rules} \subseteq DOMAIN arrays
    BY DEF HandlerInv, TypeOK
  <2> QED  BY <2>1, <2>2 DEF HandlerInv
<1>10. NoSharing'
  BY <1>1, <1>2, <1>4, <1>9 DEF NoSharing
<1>11. RuleArrays' = RuleArrays
  <2>1. \A k : (\E i \in DOMAIN avps'.items : avps'.items[i].type_name = "grouped" /\ k = avps'.items[i].content)
                 <=> \E i \in DOMAIN avps.items : avps.items[i].type_name = "grouped" /\ k = avps.items[i].content
    BY <1>2, <1>4
  <2> QED  BY <1>1, <2>1 DEF RuleArrays, RuleArraysOf
<1>12. RulesOnly'
  BY <1>1, <1>9, <1>11 DEF RulesOnly
<1>13. ASSUME NEW doc \in Seq(Elements), NEW n \in 1 .. Len(doc), doc[n].el = "avp"
       PROVE  Context(doc, n)'
  <2>1. ~InCommand(doc, n) /\ ~InRules(doc, n)
    BY <1>13, InCommandGrows, InRulesGrows
  <2> QED  BY <1>2, <1>4, <1>5, <1>13, <2>1 DEF Context, OnAvp
<1>14. Reading'
  BY <1>1, <1>13, ReadingKept
<1> QED  BY <1>6, <1>7, <1>8, <1>10, <1>12, <1>14 DEF HandlerInv

(* A store through array_back changes the last element only.               *)
LEMMA StoreAtBack ==
  ASSUME NEW S, NEW arr \in Table(S), arr.items # << >>, NEW elem \in S
  PROVE  LET new == Store(arr, Back(arr), elem)
             last == Len(arr.items)
         IN /\ new \in Table(S) /\ new.block = arr.block /\ Len(new.items) = last /\ new.items # << >>
            /\ last \in DOMAIN arr.items /\ DOMAIN new.items = DOMAIN arr.items
            /\ new.items[last] = elem
            /\ \A i \in DOMAIN arr.items : i # last => new.items[i] = arr.items[i]
            /\ Pointers(new) = Pointers(arr) /\ Back(new) = Back(arr)
            /\ Deref(new, Back(new)) = elem
<1> DEFINE last == Len(arr.items)
           new == [block |-> arr.block, items |-> [arr.items EXCEPT ![last] = elem]]
<1>1. arr.block \in Nat /\ arr.items \in Seq(S) /\ arr = [block |-> arr.block, items |-> arr.items]
  BY DEF Table
<1>2. last \in DOMAIN arr.items /\ last \in Nat
  BY <1>1
<1>3. Store(arr, Back(arr), elem) = [arr EXCEPT !.items[last] = elem]
  BY BackPoints DEF Store
<1>4. [arr EXCEPT !.items[last] = elem] = new
  <2>1. \A a, b : [[block |-> a, items |-> b] EXCEPT !.items[last] = elem]
                    = [block |-> a, items |-> [b EXCEPT ![last] = elem]]
    OBVIOUS
  <2> QED  BY <1>1, <2>1
<1>5. /\ [arr.items EXCEPT ![last] = elem] \in Seq(S)
      /\ DOMAIN [arr.items EXCEPT ![last] = elem] = DOMAIN arr.items
      /\ Len([arr.items EXCEPT ![last] = elem]) = last
      /\ [arr.items EXCEPT ![last] = elem] # << >>
  BY <1>1, <1>2
<1>6. /\ new \in Table(S) /\ new.block = arr.block /\ Len(new.items) = last /\ new.items # << >>
      /\ DOMAIN new.items = DOMAIN arr.items
      /\ new.items[last] = elem
      /\ \A i \in DOMAIN arr.items : i # last => new.items[i] = arr.items[i]
  BY <1>1, <1>2, <1>5 DEF Table
<1> HIDE DEF new
<1>7. Pointers(new) = Pointers(arr) /\ Back(new) = Back(arr) /\ Deref(new, Back(new)) = elem
  BY <1>6 DEF Pointers, Back, PointerTo, Deref
<1> QED  BY <1>2, <1>3, <1>4, <1>6, <1>7

(* A type goes to the current AVP, which stays without rules.              *)
LEMMA TypeKeepsHandler ==
  ASSUME HandlerInv, Type
  PROVE  HandlerInv'
<1> DEFINE avp == [Deref(avps, curr.avp) EXCEPT !.type_name = Head(rest).name]
           last == Len(avps.items)
<1>1. /\ Start("type") /\ Head(rest) \in Elements
      /\ rest' \in Seq(Elements) /\ seen' \in Seq(Elements) /\ pc = "parse" /\ pc' = "parse"
      /\ UNCHANGED <<status, loads, walk, apps, vendors, cmds, types, arrays, curr>>
      /\ avps' = Store(avps, curr.avp, avp)
  BY ElementIsRead DEF HandlerInv, Start, Type
<1>2. /\ avps \in Table(AvpEntry) /\ avps.items # << >> /\ curr.avp = Back(avps)
      /\ Deref(avps, curr.avp).content = 0 /\ Head(rest).name # "grouped"
  BY <1>1, AtElement DEF HandlerInv, Shape, OnAvp
<1>3. Deref(avps, curr.avp) = avps.items[last] /\ avps.items[last] \in AvpEntry
  BY <1>2, BackPoints DEF Table
<1>4. /\ avp \in AvpEntry /\ avp.type_name # "grouped" /\ avp.content = 0
      /\ avp.type = avps.items[last].type
  BY <1>1, <1>2, <1>3 DEF AvpEntry, Elements
<1> HIDE DEF avp, last
<1>5. /\ avps' \in Table(AvpEntry) /\ avps'.block = avps.block /\ Len(avps'.items) = last /\ avps'.items # << >>
      /\ last \in DOMAIN avps.items /\ DOMAIN avps'.items = DOMAIN avps.items
      /\ avps'.items[last] = avp
      /\ \A i \in DOMAIN avps.items : i # last => avps'.items[i] = avps.items[i]
      /\ Pointers(avps') = Pointers(avps) /\ Back(avps') = Back(avps)
      /\ Deref(avps', Back(avps')) = avp
  BY <1>1, <1>2, <1>4, StoreAtBack DEF last
<1>6. Shape'
  BY <1>1, <1>5 DEF HandlerInv, Shape
<1>7. TypeOK'
  <2>1. \A i \in DOMAIN avps.items :
          avps.items[i].content \in {0} \cup DOMAIN arrays /\ avps.items[i].type \in Pointers(types)
    BY DEF HandlerInv, TypeOK
  <2>2. \A i \in DOMAIN avps'.items :
          avps'.items[i].content \in {0} \cup DOMAIN arrays /\ avps'.items[i].type \in Pointers(types)
    BY <1>4, <1>5, <2>1
  <2>3. avps'.block \in Nat
    BY <1>5 DEF Table
  <2>4. curr.avp \in Pointers(avps')
    BY <1>5 DEF HandlerInv, TypeOK
  <2> QED  BY <1>1, <2>2, <2>3, <2>4 DEF HandlerInv, TypeOK, Pointers
<1>8. OwnContent'
  <2>1. \A i \in DOMAIN avps.items : \A j \in DOMAIN avps.items :
          avps.items[i].content = avps.items[j].content /\ avps.items[i].content # 0 => i = j
    BY DEF HandlerInv, OwnContent
  <2> QED  BY <1>4, <1>5, <2>1 DEF OwnContent
<1>9. avps.items[last].content = 0
  BY <1>2, <1>3
<1>10. NoSharing'
  BY <1>1, <1>4, <1>5, <1>9 DEF HandlerInv, NoSharing
<1>11. RuleArrays' \subseteq RuleArrays
  BY <1>1, <1>4, <1>5 DEF RuleArrays, RuleArraysOf
<1>12. RulesOnly'
  BY <1>1, <1>11 DEF HandlerInv, RulesOnly
<1>13. ASSUME NEW doc \in Seq(Elements), NEW n \in 1 .. Len(doc), doc[n].el = "type"
       PROVE  Context(doc, n)'
  <2>1. ~InCommand(doc, n) /\ ~InRules(doc, n)
    BY <1>13, InCommandGrows, InRulesGrows
  <2>2. curr'.avp = Back(avps')
    BY <1>1, <1>2, <1>5
  <2> QED  BY <1>4, <1>5, <1>13, <2>1, <2>2 DEF Context, OnAvp
<1>14. Reading'
  BY <1>1, <1>13, ReadingKept
<1> QED  BY <1>6, <1>7, <1>8, <1>10, <1>12, <1>14 DEF HandlerInv

(* The next array is nobody's yet.                                         *)
LEMMA ArrayNumbers ==
  ASSUME HandlerInv
  PROVE  /\ Len(arrays) \in Nat /\ DOMAIN arrays = 1 .. Len(arrays)
         /\ Len(arrays) + 1 \notin DOMAIN arrays /\ Len(arrays) + 1 # 0
         /\ \A i \in DOMAIN avps.items :
              /\ avps.items[i].content # Len(arrays) + 1
              /\ avps.items[i].content \in {0} \cup DOMAIN arrays
              /\ avps.items[i].type \in Pointers(types)
         /\ \A j \in DOMAIN cmds.items :
              /\ Len(arrays) + 1 \notin {cmds.items[j].req_rules, cmds.items[j].ans_rules}
              /\ {cmds.items[j].req_rules, cmds.items[j].ans_rules} \subseteq DOMAIN arrays
<1>1. Len(arrays) \in Nat /\ DOMAIN arrays = 1 .. Len(arrays)
  BY DEF HandlerInv, Shape
<1>2. \A i \in DOMAIN avps.items :
        avps.items[i].content \in {0} \cup DOMAIN arrays /\ avps.items[i].type \in Pointers(types)
  BY DEF HandlerInv, TypeOK
<1>3. \A j \in DOMAIN cmds.items :
        {cmds.items[j].req_rules, cmds.items[j].ans_rules} \subseteq DOMAIN arrays
  BY DEF HandlerInv, TypeOK
<1>4. Len(arrays) + 1 \notin DOMAIN arrays /\ Len(arrays) + 1 # 0
  BY <1>1
<1> QED  BY <1>1, <1>2, <1>3, <1>4

(* An AVP that gets the next array shares it with none.                    *)
LEMMA StoreKeepsContent ==
  ASSUME HandlerInv, OnAvp, NEW avp \in AvpEntry, avps' = Store(avps, curr.avp, avp),
         avp.content = Len(arrays) + 1, UNCHANGED cmds
  PROVE  OwnContent' /\ NoSharing'
<1> DEFINE last == Len(avps.items)
<1>1. avps \in Table(AvpEntry) /\ avps.items # << >> /\ curr.avp = Back(avps)
  BY DEF HandlerInv, Shape, OnAvp
<1> HIDE DEF last
<1>2. /\ last \in DOMAIN avps.items /\ DOMAIN avps'.items = DOMAIN avps.items
      /\ avps'.items[last] = avp
      /\ \A i \in DOMAIN avps.items : i # last => avps'.items[i] = avps.items[i]
  BY <1>1, StoreAtBack DEF last
<1>3. /\ \A i \in DOMAIN avps.items : avps.items[i].content # Len(arrays) + 1
      /\ \A j \in DOMAIN cmds.items :
           Len(arrays) + 1 \notin {cmds.items[j].req_rules, cmds.items[j].ans_rules}
  BY ArrayNumbers
<1>4. OwnContent /\ NoSharing
  BY DEF HandlerInv
<1>5. OwnContent'
  BY <1>2, <1>3, <1>4 DEF OwnContent
<1>6. NoSharing'
  BY <1>2, <1>3, <1>4 DEF NoSharing
<1> QED  BY <1>5, <1>6

(* A store to the current AVP keeps the types.                             *)
LEMMA StoreKeepsTypes ==
  ASSUME HandlerInv, OnAvp, NEW avp \in AvpEntry, avps' = Store(avps, curr.avp, avp),
         DOMAIN arrays \subseteq DOMAIN arrays', avp.content \in DOMAIN arrays',
         avp.type \in Pointers(types),
         curr'.rules \in {0} \cup DOMAIN arrays', curr'.avp = curr.avp, curr'.cmd = curr.cmd,
         UNCHANGED <<pc, status, loads, walk, apps, vendors, cmds, types>>
  PROVE  TypeOK'
<1> DEFINE last == Len(avps.items)
<1>1. avps \in Table(AvpEntry) /\ avps.items # << >> /\ curr.avp = Back(avps)
  BY DEF HandlerInv, Shape, OnAvp
<1> HIDE DEF last
<1>2. /\ last \in DOMAIN avps.items /\ DOMAIN avps'.items = DOMAIN avps.items
      /\ avps'.items[last] = avp /\ avps' \in Table(AvpEntry)
      /\ \A i \in DOMAIN avps.items : i # last => avps'.items[i] = avps.items[i]
      /\ Pointers(avps') = Pointers(avps)
  BY <1>1, StoreAtBack DEF last
<1>3. \A i \in DOMAIN avps'.items :
        avps'.items[i].content \in {0} \cup DOMAIN arrays' /\ avps'.items[i].type \in Pointers(types)
  BY <1>2, ArrayNumbers
<1>4. \A j \in DOMAIN cmds.items :
        {cmds.items[j].req_rules, cmds.items[j].ans_rules} \subseteq DOMAIN arrays'
  BY ArrayNumbers
<1>5. avps'.block \in Nat
  BY <1>2 DEF Table
<1>6. curr'.avp \in Pointers(avps')
  BY <1>2 DEF HandlerInv, TypeOK
<1> QED  BY <1>3, <1>4, <1>5, <1>6 DEF HandlerInv, TypeOK, Pointers

(* A grouped AVP gets an array of its own for the rules that follow.       *)
LEMMA GroupedKeepsHandler ==
  ASSUME HandlerInv, Grouped
  PROVE  HandlerInv'
<1> DEFINE N == Len(arrays)
           avp == [Deref(avps, curr.avp) EXCEPT !.type_name = "grouped", !.content = N + 1]
           last == Len(avps.items)
<1>1. /\ Start("grouped") /\ Head(rest) \in Elements
      /\ rest' \in Seq(Elements) /\ seen' \in Seq(Elements) /\ pc = "parse" /\ pc' = "parse"
      /\ UNCHANGED <<pc, status, loads, walk, apps, vendors, cmds, types>>
      /\ arrays' = Append(arrays, << >>)
      /\ avps' = Store(avps, curr.avp, avp) /\ curr' = [curr EXCEPT !.rules = N + 1]
  BY ElementIsRead DEF HandlerInv, Start, Grouped
<1>2. OnAvp /\ Deref(avps, curr.avp).content = 0
  BY <1>1, AtElement
<1>3. avps \in Table(AvpEntry) /\ avps.items # << >> /\ curr.avp = Back(avps)
  BY <1>2 DEF HandlerInv, Shape, OnAvp
<1>4. last \in DOMAIN avps.items /\ Deref(avps, curr.avp) = avps.items[last] /\ avps.items[last] \in AvpEntry
  BY <1>3, BackPoints DEF Table
<1>5. /\ N \in Nat /\ DOMAIN arrays = 1 .. N /\ arrays \in Seq(Seq(Rule \cup EnumEntry))
      /\ curr \in [cmd : Pointer, avp : Pointer, rules : Nat]
  BY ArrayNumbers DEF HandlerInv, Shape
<1>6. /\ avp \in AvpEntry /\ avp.type_name = "grouped" /\ avp.content = N + 1
      /\ avp.type = avps.items[last].type
  <2>1. "grouped" \in Names
    BY DictAssumption DEF DictAssumption
  <2>2. N + 1 \in Nat
    BY <1>5
  <2> HIDE DEF N, last
  <2> QED  BY <1>4, <2>1, <2>2 DEF AvpEntry
<1>7. /\ arrays' \in Seq(Seq(Rule \cup EnumEntry))
      /\ \A k \in DOMAIN arrays : k \in DOMAIN arrays' /\ arrays'[k] = arrays[k]
      /\ N + 1 \in DOMAIN arrays' /\ arrays'[N + 1] = << >>
  BY <1>1, <1>5, AppendAdds
<1>8. /\ curr' \in [cmd : Pointer, avp : Pointer, rules : Nat]
      /\ curr'.avp = curr.avp /\ curr'.cmd = curr.cmd /\ curr'.rules = N + 1
  BY <1>1, <1>5
<1> HIDE DEF avp, last, N
<1>9. /\ avps' \in Table(AvpEntry) /\ avps'.items # << >>
      /\ last \in DOMAIN avps'.items /\ DOMAIN avps'.items = DOMAIN avps.items
      /\ avps'.items[last] = avp
      /\ \A i \in DOMAIN avps.items : i # last => avps'.items[i] = avps.items[i]
  BY <1>1, <1>3, <1>6, StoreAtBack DEF last
<1>10. Shape'
  BY <1>1, <1>7, <1>8, <1>9 DEF HandlerInv, Shape
<1>11. TypeOK'
  <2>1. avp.type \in Pointers(types)
    BY <1>4, <1>6 DEF HandlerInv, TypeOK
  <2>2. DOMAIN arrays \subseteq DOMAIN arrays' /\ avp.content \in DOMAIN arrays' /\ curr'.rules \in {0} \cup DOMAIN arrays'
    BY <1>6, <1>7, <1>8
  <2> QED  BY <1>1, <1>2, <1>6, <1>8, <2>1, <2>2, StoreKeepsTypes
<1>12. OwnContent' /\ NoSharing'
  BY <1>1, <1>2, <1>6, StoreKeepsContent DEF N
<1>13. RuleArrays' \subseteq RuleArrays \cup {N + 1} /\ N + 1 \in RuleArrays'
  <2>1. RuleArrays' \subseteq RuleArrays \cup {N + 1}
    BY <1>1, <1>6, <1>9 DEF RuleArrays, RuleArraysOf
  <2>2. N + 1 \in Nat
    BY <1>5
  <2>3. N + 1 \in RuleArrays'
    BY <1>6, <1>9, <2>2 DEF RuleArrays, RuleArraysOf
  <2> QED  BY <2>1, <2>3
<1>14. RulesOnly'
  BY <1>7, <1>13 DEF HandlerInv, RulesOnly
<1>15. ASSUME NEW doc \in Seq(Elements), NEW n \in 1 .. Len(doc), doc[n].el = "grouped"
       PROVE  Context(doc, n)'
  <2>1. ~InCommand(doc, n)
    BY <1>15, InCommandGrows
  <2> QED  BY <1>8, <1>13, <1>15, <2>1 DEF Context
<1>16. Reading'
  BY <1>1, <1>15, ReadingKept
<1> QED  BY <1>10, <1>11, <1>12, <1>14, <1>16 DEF HandlerInv

(* Enum values go into an array of their AVP, made with the first.         *)
LEMMA EnumKeepsHandler ==
  ASSUME HandlerInv, Enum
  PROVE  HandlerInv'
<1> DEFINE N == Len(arrays)
           old == Deref(avps, curr.avp)
           e == [name |-> Head(rest).name, code |-> Head(rest).code]
           avp == [old EXCEPT !.content = N + 1]
           last == Len(avps.items)
<1>1. /\ Start("enum") /\ Head(rest) \in Elements
      /\ rest' \in Seq(Elements) /\ seen' \in Seq(Elements) /\ pc = "parse" /\ pc' = "parse"
      /\ UNCHANGED <<pc, status, loads, walk, apps, vendors, cmds, types, curr>>
      /\ \/ /\ old.content = 0
            /\ arrays' = Append(arrays, <<e>>)
            /\ avps' = Store(avps, curr.avp, avp)
         \/ /\ old.content # 0
            /\ arrays' = [arrays EXCEPT ![old.content] = Append(@, e)]
            /\ UNCHANGED avps
  BY ElementIsRead DEF HandlerInv, Start, Enum
<1>2. OnAvp /\ old.type_name # "grouped"
  BY <1>1, AtElement
<1>3. avps \in Table(AvpEntry) /\ avps.items # << >> /\ curr.avp = Back(avps)
  BY <1>2 DEF HandlerInv, Shape, OnAvp
<1>4. last \in DOMAIN avps.items /\ old = avps.items[last] /\ avps.items[last] \in AvpEntry
  BY <1>3, BackPoints DEF Table
<1>5. N \in Nat /\ DOMAIN arrays = 1 .. N /\ arrays \in Seq(Seq(Rule \cup EnumEntry))
  BY ArrayNumbers DEF HandlerInv, Shape
<1>6. e \in Rule \cup EnumEntry
  BY <1>1 DEF EnumEntry, Elements
<1>7. /\ avp \in AvpEntry /\ avp.type_name # "grouped" /\ avp.content = N + 1
      /\ avp.type = old.type
  BY <1>2, <1>4, <1>5 DEF AvpEntry
<1> HIDE DEF avp, last, N, e, old
<1>8. ASSUME NEW doc \in Seq(Elements), NEW n \in 1 .. Len(doc), doc[n].el = "enum",
             OnAvp', Deref(avps, curr.avp)'.type_name # "grouped"
      PROVE  Context(doc, n)'
  <2>1. ~InCommand(doc, n) /\ ~InRules(doc, n)
    BY <1>8, InCommandGrows, InRulesGrows
  <2> QED  BY <1>8, <2>1 DEF Context
<1>9. CASE old.content = 0
  <2>1. arrays' = Append(arrays, <<e>>) /\ avps' = Store(avps, curr.avp, avp)
    BY <1>1, <1>9
  <2>2. <<e>> \in Seq(Rule \cup EnumEntry)
    BY <1>6
  <2>3. /\ arrays' \in Seq(Seq(Rule \cup EnumEntry))
        /\ \A k \in DOMAIN arrays : k \in DOMAIN arrays' /\ arrays'[k] = arrays[k]
        /\ N + 1 \in DOMAIN arrays' /\ arrays'[N + 1] = <<e>>
    BY <1>5, <2>1, <2>2, AppendAdds DEF N
  <2>4. /\ avps' \in Table(AvpEntry) /\ avps'.items # << >>
        /\ last \in DOMAIN avps'.items /\ DOMAIN avps'.items = DOMAIN avps.items
        /\ avps'.items[last] = avp /\ Back(avps') = Back(avps) /\ Deref(avps', Back(avps')) = avp
        /\ \A i \in DOMAIN avps.items : i # last => avps'.items[i] = avps.items[i]
    BY <1>3, <1>7, <2>1, StoreAtBack DEF last
  <2>5. Shape'
    BY <1>1, <2>3, <2>4 DEF HandlerInv, Shape
  <2>6. TypeOK'
    <3>1. avp.type \in Pointers(types)
      BY <1>4, <1>7, ArrayNumbers
    <3>2. DOMAIN arrays \subseteq DOMAIN arrays' /\ avp.content \in DOMAIN arrays'
      BY <1>7, <2>3
    <3>3. curr'.rules \in {0} \cup DOMAIN arrays' /\ curr'.avp = curr.avp /\ curr'.cmd = curr.cmd
      BY <1>1, <3>2 DEF HandlerInv, TypeOK
    <3> QED  BY <1>1, <1>2, <1>7, <2>1, <3>1, <3>2, <3>3, StoreKeepsTypes
  <2>7. OwnContent' /\ NoSharing'
    BY <1>1, <1>2, <1>7, <2>1, StoreKeepsContent DEF N
  <2>8. RuleArrays' \subseteq RuleArrays
    BY <1>1, <1>7, <2>4 DEF RuleArrays, RuleArraysOf
  <2>9. RulesOnly'
    BY <2>3, <2>8 DEF HandlerInv, RulesOnly
  <2>10. OnAvp' /\ Deref(avps, curr.avp)'.type_name # "grouped"
    <3>1. curr'.avp = Back(avps')
      BY <1>1, <1>3, <2>4
    <3> QED  BY <1>7, <2>4, <3>1 DEF OnAvp
  <2>11. Reading'
    BY <1>1, <1>8, <2>10, ReadingKept
  <2> QED  BY <2>5, <2>6, <2>7, <2>9, <2>11 DEF HandlerInv
<1>10. CASE old.content # 0
  <2>1. arrays' = [arrays EXCEPT ![old.content] = Append(@, e)] /\ UNCHANGED avps
    BY <1>1, <1>10
  <2>2. old.content \in DOMAIN arrays
    BY <1>4, <1>10, ArrayNumbers
  <2>3. Append(arrays[old.content], e) \in Seq(Rule \cup EnumEntry)
    BY <1>5, <1>6, <2>2, AppendAdds
  <2>4. /\ arrays' \in Seq(Seq(Rule \cup EnumEntry)) /\ DOMAIN arrays' = DOMAIN arrays
        /\ \A k \in DOMAIN arrays : k # old.content => arrays'[k] = arrays[k]
    BY <1>5, <2>1, <2>2, <2>3
  <2>5. Shape'
    BY <1>1, <2>1, <2>4 DEF HandlerInv, Shape
  <2>6. TypeOK'
    BY <1>1, <2>1, <2>4 DEF HandlerInv, TypeOK, Pointers
  <2>7. OwnContent' /\ NoSharing' /\ RuleArrays' = RuleArrays
    BY <1>1, <2>1 DEF HandlerInv, OwnContent, NoSharing, RuleArrays
  <2>8. old.content \notin RuleArrays
    <3>1. \A j \in DOMAIN cmds.items : old.content \notin {cmds.items[j].req_rules, cmds.items[j].ans_rules}
      BY <1>4 DEF HandlerInv, NoSharing
    <3>2. \A i \in DOMAIN avps.items : avps.items[i].content = old.content => i = last
      BY <1>4, <1>10 DEF HandlerInv, OwnContent
    <3> QED  BY <1>2, <1>4, <3>1, <3>2 DEF RuleArrays, RuleArraysOf
  <2>9. RulesOnly'
    BY <2>4, <2>7, <2>8 DEF HandlerInv, RulesOnly
  <2>10. OnAvp' /\ Deref(avps, curr.avp)'.type_name # "grouped"
    BY <1>1, <1>2, <2>1 DEF OnAvp, old
  <2>11. Reading'
    BY <1>1, <1>8, <2>10, ReadingKept
  <2> QED  BY <2>5, <2>6, <2>7, <2>9, <2>11 DEF HandlerInv
<1> QED  BY <1>9, <1>10

(* A type is added with its declaration or dropped.                        *)
LEMMA TypeDefnKeepsHandler ==
  ASSUME HandlerInv, TypeDefn
  PROVE  HandlerInv'
<1> DEFINE type == NewType(Head(rest))
<1>1. /\ Start("typedefn") /\ Head(rest) \in Elements
      /\ rest' \in Seq(Elements) /\ seen' \in Seq(Elements) /\ pc = "parse" /\ pc' = "parse"
      /\ UNCHANGED <<status, loads, walk, apps, vendors, cmds, avps, arrays, curr>>
      /\ UNCHANGED types \/ types' \in PushBack(types, type)
  BY ElementIsRead DEF HandlerInv, Start, TypeDefn, AddAvpType
<1>2. Head(rest).name \in DOMAIN Rank
  BY <1>1, AtElement
<1>3. type \in TypeEntry /\ type.parent = Null
  <2>1. Null \in Pointer /\ "UNKNOWN" \in Codecs
    BY DEF Null, Pointer, Codecs
  <2>2. Head(rest).parent \in Names
    BY <1>1 DEF Elements
  <2> QED  BY <1>2, <2>1, <2>2 DEF TypeEntry, NewType
<1>4. types \in Table(TypeEntry) /\ types.items # << >>
  BY DEF HandlerInv, Shape
<1> HIDE DEF type
<1>5. /\ types' \in Table(TypeEntry) /\ types'.items # << >> /\ Pointers(types) \subseteq Pointers(types')
      /\ \A i \in DOMAIN types.items : i \in DOMAIN types'.items
      /\ \A i \in DOMAIN types'.items : \/ i \in DOMAIN types.items /\ types'.items[i] = types.items[i]
                                        \/ types'.items[i] = type
  <2>1. CASE UNCHANGED types
    BY <1>4, <2>1
  <2>2. CASE types' \in PushBack(types, type)
    BY <1>3, <1>4, <2>2, PushBackAppends
  <2> QED  BY <1>1, <2>1, <2>2
<1>6. Shape'
  BY <1>1, <1>5 DEF HandlerInv, Shape
<1>7. TypeOK'
  <2>1. \A i \in DOMAIN types.items :
          types.items[i].codec \in Codecs /\ types.items[i].parent \in Pointers(types)
    BY DEF HandlerInv, TypeOK
  <2>2. Null \in Pointers(types)
    BY DEF Pointers
  <2>3. \A i \in DOMAIN types'.items :
          types'.items[i].codec \in Codecs /\ types'.items[i].parent \in Pointers(types')
    BY <1>3, <1>5, <2>1, <2>2 DEF TypeEntry
  <2>4. \A i \in DOMAIN avps.items :
          avps.items[i].content \in {0} \cup DOMAIN arrays /\ avps.items[i].type \in Pointers(types')
    BY <1>5, ArrayNumbers
  <2>5. types'.block \in Nat
    BY <1>5 DEF Table
  <2>6. walk'.i \in {0} \cup DOMAIN types'.items /\ walk'.curr \in Pointers(types')
    BY <1>1, <1>5 DEF HandlerInv, TypeOK
  <2> QED  BY <1>1, <2>3, <2>4, <2>5, <2>6 DEF HandlerInv, TypeOK, Pointers
<1>8. OwnContent' /\ NoSharing' /\ RulesOnly' /\ RuleArrays' = RuleArrays
  BY <1>1 DEF HandlerInv, OwnContent, NoSharing, RulesOnly, RuleArrays
<1>9. ASSUME NEW doc \in Seq(Elements), NEW n \in 1 .. Len(doc), doc[n].el = "typedefn"
      PROVE  Context(doc, n)'
  BY <1>9, InCommandGrows, InRulesGrows DEF Context
<1>10. Reading'
  BY <1>1, <1>9, ReadingKept
<1> QED  BY <1>6, <1>7, <1>8, <1>10 DEF HandlerInv

(* A function on 1 to n is a sequence of length n.                         *)
LEMMA IsASeqOfLength ==
  ASSUME NEW S, NEW n \in Nat, NEW f \in [1 .. n -> S]
  PROVE  f \in Seq(S) /\ Len(f) = n
BY SeqDef

(* A sort keeps the elements, the block and the pointers.                  *)
LEMMA SortedKeeps ==
  ASSUME NEW S, NEW arr \in Table(S), NEW key \in [DOMAIN arr.items -> Int],
         NEW new \in Sorted(arr, key)
  PROVE  /\ new \in Table(S) /\ new.block = arr.block
         /\ DOMAIN new.items = DOMAIN arr.items /\ Len(new.items) = Len(arr.items)
         /\ Pointers(new) = Pointers(arr)
         /\ \A n \in DOMAIN arr.items : \E i \in DOMAIN arr.items : new.items[n] = arr.items[i]
         /\ \A i \in DOMAIN arr.items : \E n \in DOMAIN arr.items : new.items[n] = arr.items[i]
<1>0. PICK at \in [DOMAIN arr.items -> DOMAIN arr.items] : Reorders(at, arr, key, new)
  BY SortedIsReordered
<1>1. /\ new = [block |-> arr.block, items |-> [n \in DOMAIN arr.items |-> arr.items[at[n]]]]
      /\ \A i \in DOMAIN arr.items : \E n \in DOMAIN arr.items : at[n] = i
  BY <1>0 DEF Reorders
<1>2. arr.block \in Nat /\ arr.items \in Seq(S) /\ Len(arr.items) \in Nat
      /\ DOMAIN arr.items = 1 .. Len(arr.items)
  BY DEF Table
<1>3. new.items = [n \in 1 .. Len(arr.items) |-> arr.items[at[n]]]
  BY <1>1, <1>2
<1>4. new.items \in [1 .. Len(arr.items) -> S]
  <2>1. \A n \in 1 .. Len(arr.items) : arr.items[at[n]] \in S
    <3>1. \A n \in 1 .. Len(arr.items) : at[n] \in DOMAIN arr.items
      BY <1>1, <1>2
    <3>2. \A i \in DOMAIN arr.items : arr.items[i] \in S
      BY <1>2
    <3> QED  BY <3>1, <3>2
  <2> QED  BY <1>3, <2>1
<1>5. new.items \in Seq(S) /\ Len(new.items) = Len(arr.items)
  <2>1. new.items \in Seq(S)
    BY <1>2, <1>4, IsASeqOfLength
  <2>2. DOMAIN new.items = 1 .. Len(arr.items)
    BY <1>4
  <2> QED  BY <1>2, <2>1, <2>2
<1>6. new \in Table(S) /\ new.block = arr.block
  BY <1>1, <1>2, <1>5 DEF Table
<1>7. DOMAIN new.items = DOMAIN arr.items
  BY <1>2, <1>3
<1>8. Pointers(new) = Pointers(arr)
  BY <1>6, <1>7 DEF Pointers
<1>9. \A n \in DOMAIN arr.items : new.items[n] = arr.items[at[n]] /\ at[n] \in DOMAIN arr.items
  BY <1>1, <1>2, <1>3
<1> QED  BY <1>1, <1>5, <1>6, <1>7, <1>8, <1>9

(* dict_build_rules keeps the rules and their names, and points those      *)
(* without an AVP to the first of their name.                              *)
LEMMA BindIs ==
  ASSUME NEW rules \in Seq(Rule \cup EnumEntry), \A r \in DOMAIN rules : rules[r] \in Rule,
         NEW table \in Table(AvpEntry)
  PROVE  LET bound == Bind(rules, table)
         IN /\ bound \in Seq(Rule \cup EnumEntry) /\ DOMAIN bound = DOMAIN rules
            /\ \A r \in DOMAIN rules :
                 /\ bound[r] \in Rule /\ bound[r].name = rules[r].name
                 /\ bound[r].avp = IF rules[r].avp # Null THEN rules[r].avp
                                   ELSE FirstNamed(table, rules[r].name)
<1> DEFINE bound == Bind(rules, table)
           after(r) == IF rules[r].avp # Null THEN rules[r]
                       ELSE [rules[r] EXCEPT !.avp = FirstNamed(table, rules[r].name)]
<1>1. bound = [r \in DOMAIN rules |-> after(r)]
  BY DEF Bind
<1>2. ASSUME NEW r \in DOMAIN rules
      PROVE  /\ after(r) \in Rule /\ after(r).name = rules[r].name
             /\ after(r).avp = IF rules[r].avp # Null THEN rules[r].avp
                               ELSE FirstNamed(table, rules[r].name)
  <2>1. FirstNamed(table, rules[r].name) \in Pointer /\ rules[r] \in Rule
    BY FirstNamedPoints
  <2> QED  BY <2>1 DEF Rule
<1> HIDE DEF after, bound
<1>3. DOMAIN bound = DOMAIN rules /\ \A r \in DOMAIN rules : bound[r] = after(r)
  BY <1>1
<1>4. DOMAIN rules = 1 .. Len(rules) /\ Len(rules) \in Nat
  OBVIOUS
<1>5. bound \in [1 .. Len(rules) -> Rule \cup EnumEntry]
  BY <1>1, <1>2, <1>4
<1>6. bound \in Seq(Rule \cup EnumEntry)
  BY <1>4, <1>5, SeqDef
<1> QED  BY <1>2, <1>3, <1>6 DEF bound

(* Binding some of the rule arrays leaves the others, and leaves rules     *)
(* where rules were.                                                       *)
LEMMA BoundArrays ==
  ASSUME HandlerInv, NEW table \in Table(AvpEntry), NEW K \in SUBSET RuleArrays,
         arrays' = [k \in DOMAIN arrays |-> IF k \in K THEN Bind(arrays[k], table) ELSE arrays[k]]
  PROVE  /\ arrays' \in Seq(Seq(Rule \cup EnumEntry)) /\ DOMAIN arrays' = DOMAIN arrays
         /\ \A k \in RuleArrays :
              /\ k \in DOMAIN arrays /\ DOMAIN arrays'[k] = DOMAIN arrays[k]
              /\ \A r \in DOMAIN arrays[k] :
                   /\ arrays[k][r] \in Rule
                   /\ arrays'[k][r] \in Rule /\ arrays'[k][r].name = arrays[k][r].name
                   /\ k \notin K => arrays'[k][r] = arrays[k][r]
                   /\ k \in K => arrays'[k][r].avp = IF arrays[k][r].avp # Null THEN arrays[k][r].avp
                                                     ELSE FirstNamed(table, arrays[k][r].name)
<1>1. /\ arrays \in Seq(Seq(Rule \cup EnumEntry))
      /\ \A k \in RuleArrays : k \in DOMAIN arrays /\ \A r \in DOMAIN arrays[k] : arrays[k][r] \in Rule
  BY DEF HandlerInv, Shape, RulesOnly
<1>2. \A k \in DOMAIN arrays : arrays[k] \in Seq(Rule \cup EnumEntry)
  BY <1>1
<1>3. ASSUME NEW k \in K
      PROVE  LET bound == Bind(arrays[k], table)
             IN /\ bound \in Seq(Rule \cup EnumEntry) /\ DOMAIN bound = DOMAIN arrays[k]
                /\ \A r \in DOMAIN arrays[k] :
                     /\ bound[r] \in Rule /\ bound[r].name = arrays[k][r].name
                     /\ bound[r].avp = IF arrays[k][r].avp # Null THEN arrays[k][r].avp
                                       ELSE FirstNamed(table, arrays[k][r].name)
  BY <1>1, <1>2, BindIs
<1>4. DOMAIN arrays' = DOMAIN arrays
  OBVIOUS
<1>5. /\ \A k \in K : k \in DOMAIN arrays /\ arrays'[k] = Bind(arrays[k], table)
      /\ \A k \in DOMAIN arrays \ K : arrays'[k] = arrays[k]
  BY <1>1
<1>6. \A k \in DOMAIN arrays : arrays'[k] \in Seq(Rule \cup EnumEntry)
  BY <1>2, <1>3, <1>5
<1>7. DOMAIN arrays = 1 .. Len(arrays) /\ Len(arrays) \in Nat
  BY <1>1
<1>8. arrays' \in [1 .. Len(arrays) -> Seq(Rule \cup EnumEntry)]
  BY <1>6, <1>7
<1>9. arrays' \in Seq(Seq(Rule \cup EnumEntry))
  BY <1>7, <1>8, SeqDef
<1> QED  BY <1>1, <1>3, <1>4, <1>5, <1>9

(* Codes can be compared.                                                  *)
LEMMA CodesAreNumbers == \A c \in Code : c \in Int
BY DEF Code

(* Sorting the tables and binding the rules of commands keeps the          *)
(* invariant.                                                              *)
LEMMA BuildTablesKeepsHandler ==
  ASSUME HandlerInv, BuildTables
  PROVE  HandlerInv'
<1> DEFINE K == {k \in DOMAIN arrays : \E i \in DOMAIN cmds.items :
                   k \in {cmds.items[i].req_rules, cmds.items[i].ans_rules}}
<1>1. /\ pc' = "types" /\ UNCHANGED <<status, loads, rest, seen, avps, types, curr, walk>>
      /\ apps' \in Sorted(apps, Ids(apps)) /\ vendors' \in Sorted(vendors, Ids(vendors))
      /\ cmds' \in Sorted(cmds, Codes(cmds))
      /\ arrays' = [k \in DOMAIN arrays |-> IF k \in K THEN Bind(arrays[k], avps) ELSE arrays[k]]
  BY DEF BuildTables
<1>2. /\ apps \in Table(App) /\ vendors \in Table(App) /\ cmds \in Table(Cmd)
      /\ avps \in Table(AvpEntry)
  BY DEF HandlerInv, Shape
<1>3. /\ Ids(apps) \in [DOMAIN apps.items -> Int] /\ Ids(vendors) \in [DOMAIN vendors.items -> Int]
      /\ Codes(cmds) \in [DOMAIN cmds.items -> Int]
  <2>1. \A i \in DOMAIN apps.items : apps.items[i] \in App
    BY <1>2 DEF Table
  <2>2. \A i \in DOMAIN vendors.items : vendors.items[i] \in App
    BY <1>2 DEF Table
  <2>3. \A i \in DOMAIN cmds.items : cmds.items[i] \in Cmd
    BY <1>2 DEF Table
  <2>4. \A app \in App : app.id \in Int
    BY CodesAreNumbers DEF App
  <2>5. \A cmd \in Cmd : cmd.code \in Int
    BY CodesAreNumbers DEF Cmd
  <2> QED  BY <2>1, <2>2, <2>3, <2>4, <2>5 DEF Ids, Codes
<1>4. apps' \in Table(App) /\ vendors' \in Table(App)
  <2>1. apps' \in Table(App)
    BY <1>1, <1>2, <1>3, SortedKeeps
  <2>2. vendors' \in Table(App)
    BY <1>1, <1>2, <1>3, SortedKeeps
  <2> QED  BY <2>1, <2>2
<1>5. /\ cmds' \in Table(Cmd) /\ DOMAIN cmds'.items = DOMAIN cmds.items /\ Pointers(cmds') = Pointers(cmds)
      /\ \A n \in DOMAIN cmds.items : \E i \in DOMAIN cmds.items : cmds'.items[n] = cmds.items[i]
      /\ \A i \in DOMAIN cmds.items : \E n \in DOMAIN cmds.items : cmds'.items[n] = cmds.items[i]
  <2>1. cmds' \in Sorted(cmds, Codes(cmds)) /\ cmds \in Table(Cmd) /\ Codes(cmds) \in [DOMAIN cmds.items -> Int]
    BY <1>1, <1>2, <1>3
  <2>2. cmds' \in Table(Cmd) /\ DOMAIN cmds'.items = DOMAIN cmds.items /\ Pointers(cmds') = Pointers(cmds)
    BY <2>1, SortedKeeps
  <2>3. \A n \in DOMAIN cmds.items : \E i \in DOMAIN cmds.items : cmds'.items[n] = cmds.items[i]
    BY <2>1, SortedKeeps
  <2>4. \A i \in DOMAIN cmds.items : \E n \in DOMAIN cmds.items : cmds'.items[n] = cmds.items[i]
    BY <2>1, SortedKeeps
  <2> QED  BY <2>2, <2>3, <2>4
<1>6. K \in SUBSET RuleArrays
  <2>1. DOMAIN arrays \subseteq Nat
    BY ArrayNumbers
  <2> QED  BY <2>1 DEF RuleArrays, RuleArraysOf
<1> HIDE DEF K
<1>7. /\ arrays' \in Seq(Seq(Rule \cup EnumEntry)) /\ DOMAIN arrays' = DOMAIN arrays
      /\ \A k \in RuleArrays : /\ k \in DOMAIN arrays /\ DOMAIN arrays'[k] = DOMAIN arrays[k]
                               /\ \A r \in DOMAIN arrays[k] : arrays'[k][r] \in Rule
  BY <1>1, <1>2, <1>6, BoundArrays
<1>8. Shape'
  BY <1>1, <1>4, <1>5, <1>7 DEF HandlerInv, Shape
<1>9. TypeOK'
  <2>1. \A i \in DOMAIN cmds'.items :
          {cmds'.items[i].req_rules, cmds'.items[i].ans_rules} \subseteq DOMAIN arrays'
    BY <1>5, <1>7, ArrayNumbers
  <2>2. apps'.block \in Nat /\ vendors'.block \in Nat /\ cmds'.block \in Nat
    BY <1>4, <1>5 DEF Table
  <2>3. curr'.cmd \in Pointers(cmds') /\ curr'.rules \in {0} \cup DOMAIN arrays'
    BY <1>1, <1>5, <1>7 DEF HandlerInv, TypeOK
  <2>4. \A i \in DOMAIN avps.items :
          avps.items[i].content \in {0} \cup DOMAIN arrays' /\ avps.items[i].type \in Pointers(types)
    BY <1>7, ArrayNumbers
  <2> QED  BY <1>1, <2>1, <2>2, <2>3, <2>4 DEF HandlerInv, TypeOK, Pointers
<1>10. OwnContent'
  BY <1>1 DEF HandlerInv, OwnContent
<1>11. NoSharing'
  <2>1. \A i \in DOMAIN avps.items : \A j \in DOMAIN cmds.items :
          avps.items[i].content \notin {cmds.items[j].req_rules, cmds.items[j].ans_rules}
    BY DEF HandlerInv, NoSharing
  <2>2. \A i \in DOMAIN avps.items : \A j \in DOMAIN cmds'.items :
          avps.items[i].content \notin {cmds'.items[j].req_rules, cmds'.items[j].ans_rules}
    BY <1>5, <2>1
  <2> QED  BY <1>1, <2>2 DEF NoSharing
<1>12. RuleArrays' = RuleArrays
  BY <1>1, <1>5 DEF RuleArrays, RuleArraysOf
<1>13. RulesOnly'
  BY <1>7, <1>12 DEF RulesOnly
<1> QED  BY <1>1, <1>8, <1>9, <1>10, <1>11, <1>13 DEF HandlerInv, Reading

(* Types and AVPs are sorted by numbers.                                   *)
LEMMA KeysAreNumbers ==
  ASSUME HandlerInv
  PROVE  /\ Ranks(types) \in [DOMAIN types.items -> Int]
         /\ Codes(avps) \in [DOMAIN avps.items -> Int]
<1>1. types \in Table(TypeEntry) /\ avps \in Table(AvpEntry)
  BY DEF HandlerInv, Shape
<1>2. \A i \in DOMAIN types.items : Rank[types.items[i].name] \in Int
  <2>1. \A i \in DOMAIN types.items : types.items[i].name \in DOMAIN Rank
    <3>1. \A i \in DOMAIN types.items : types.items[i] \in TypeEntry
      BY <1>1 DEF Table
    <3>2. \A type \in TypeEntry : type.name \in DOMAIN Rank
      BY DEF TypeEntry
    <3> QED  BY <3>1, <3>2
  <2>2. \A n \in DOMAIN Rank : Rank[n] \in Int
    BY DictAssumption DEF DictAssumption
  <2> QED  BY <2>1, <2>2
<1>3. \A i \in DOMAIN avps.items : avps.items[i].code \in Int
  <2>1. \A i \in DOMAIN avps.items : avps.items[i] \in AvpEntry
    BY <1>1 DEF Table
  <2>2. \A avp \in AvpEntry : avp.code \in Int
    BY CodesAreNumbers DEF AvpEntry
  <2> QED  BY <2>1, <2>2
<1> QED  BY <1>2, <1>3 DEF Ranks, Codes

(* What linking the types in the sorted table makes of them.               *)
ChainedFrom(table) ==
  /\ table \in Table(TypeEntry) /\ Pointers(table) = Pointers(types)
  /\ types' \in Table(TypeEntry) /\ types'.block = table.block
  /\ DOMAIN types'.items = DOMAIN table.items /\ DOMAIN table.items = DOMAIN types.items
  /\ types'.items # << >> /\ Pointers(types') = Pointers(types)
  /\ Len(types'.items) = Len(types.items)
  /\ \A i \in DOMAIN types.items :
       /\ types'.items[i] = [table.items[i] EXCEPT !.parent = ParentIn(table, table.items[i])]
       /\ types'.items[i].codec \in Codecs /\ types'.items[i].parent \in Pointers(types)

(* ChainTypes makes this of some order of the types.                       *)
LEMMA ChainedTypesAre ==
  ASSUME HandlerInv, ChainTypes
  PROVE  \E table \in Sorted(types, Ranks(types)) : ChainedFrom(table)
<1>1. PICK table \in Sorted(types, Ranks(types)) :
        types' = [table EXCEPT !.items = [i \in DOMAIN table.items |->
                    [table.items[i] EXCEPT !.parent = ParentIn(table, table.items[i])]]]
  BY DEF ChainTypes
<1>2. types \in Table(TypeEntry) /\ types.items # << >> /\ Ranks(types) \in [DOMAIN types.items -> Int]
  BY KeysAreNumbers DEF HandlerInv, Shape
<1>3. /\ table \in Table(TypeEntry) /\ table.block = types.block
      /\ DOMAIN table.items = DOMAIN types.items /\ Len(table.items) = Len(types.items)
      /\ Pointers(table) = Pointers(types)
  BY <1>1, <1>2, SortedKeeps
<1>4. \A n \in DOMAIN types.items : \E i \in DOMAIN types.items : table.items[n] = types.items[i]
  BY <1>1, <1>2, SortedKeeps
<1>5. \A i \in DOMAIN types.items :
        /\ table.items[i] \in TypeEntry
        /\ table.items[i].codec \in Codecs /\ table.items[i].parent \in Pointers(types) \cap Pointer
  <2>1. \A i \in DOMAIN types.items :
          types.items[i].codec \in Codecs /\ types.items[i].parent \in Pointers(types)
    BY DEF HandlerInv, TypeOK
  <2>2. \A i \in DOMAIN types.items : table.items[i] \in TypeEntry
    BY <1>3 DEF Table
  <2>3. \A i \in DOMAIN types.items :
          table.items[i].codec \in Codecs /\ table.items[i].parent \in Pointers(types)
    BY <1>4, <2>1
  <2> QED  BY <2>2, <2>3 DEF TypeEntry
<1>6. \A i \in DOMAIN types.items : ParentIn(table, table.items[i]) \in Pointers(types) \cap Pointer
  BY <1>3, <1>5, FirstNamedPoints DEF ParentIn
<1> DEFINE after == [i \in DOMAIN table.items |->
                       [table.items[i] EXCEPT !.parent = ParentIn(table, table.items[i])]]
<1>7. types' = [block |-> table.block, items |-> after]
  BY <1>1, <1>3 DEF Table
<1>8. /\ DOMAIN after = DOMAIN types.items
      /\ \A i \in DOMAIN types.items :
           after[i] = [table.items[i] EXCEPT !.parent = ParentIn(table, table.items[i])]
  BY <1>3
<1> HIDE DEF after
<1>9. ASSUME NEW i \in DOMAIN types.items
      PROVE  /\ after[i] \in TypeEntry
             /\ after[i].codec \in Codecs /\ after[i].parent \in Pointers(types)
  <2>1. /\ table.items[i] \in TypeEntry /\ table.items[i].codec \in Codecs
        /\ ParentIn(table, table.items[i]) \in Pointers(types) \cap Pointer
        /\ after[i] = [table.items[i] EXCEPT !.parent = ParentIn(table, table.items[i])]
    BY <1>5, <1>6, <1>8
  <2> QED  BY <2>1 DEF TypeEntry
<1>10. Len(types.items) \in Nat /\ DOMAIN types.items = 1 .. Len(types.items) /\ Len(types.items) # 0
  BY <1>2 DEF Table
<1>11. after \in [1 .. Len(types.items) -> TypeEntry]
  <2>1. after = [i \in 1 .. Len(types.items) |-> after[i]]
    BY <1>3, <1>10 DEF after
  <2> QED  BY <1>9, <1>10, <2>1
<1>12. after \in Seq(TypeEntry) /\ Len(after) = Len(types.items)
  BY <1>10, <1>11, IsASeqOfLength
<1>13. /\ types' \in Table(TypeEntry) /\ types'.block = table.block /\ types'.items = after
       /\ types'.items # << >>
  BY <1>3, <1>7, <1>10, <1>12 DEF Table
<1>14. Pointers(types') = Pointers(types)
  BY <1>3, <1>8, <1>13 DEF Pointers
<1> QED  BY <1>3, <1>8, <1>9, <1>12, <1>13, <1>14 DEF ChainedFrom

(* Sorting and linking the types keeps the invariant.                      *)
LEMMA ChainTypesKeepsHandler ==
  ASSUME HandlerInv, ChainTypes
  PROVE  HandlerInv'
<1>1. /\ types' \in Table(TypeEntry) /\ types'.items # << >> /\ Pointers(types') = Pointers(types)
      /\ DOMAIN types'.items = DOMAIN types.items
      /\ \A i \in DOMAIN types.items :
           types'.items[i].codec \in Codecs /\ types'.items[i].parent \in Pointers(types)
  BY ChainedTypesAre DEF ChainedFrom
<1>2. /\ pc' = "avps"
      /\ UNCHANGED <<status, loads, rest, seen, apps, vendors, cmds, avps, arrays, curr, walk>>
  BY DEF ChainTypes
<1>3. Shape'
  BY <1>1, <1>2 DEF HandlerInv, Shape
<1>4. TypeOK'
  <2>1. \A i \in DOMAIN avps.items :
          avps.items[i].content \in {0} \cup DOMAIN arrays /\ avps.items[i].type \in Pointers(types')
    BY <1>1, ArrayNumbers
  <2>2. types'.block \in Nat
    BY <1>1 DEF Table
  <2>3. walk.i \in {0} \cup DOMAIN types'.items /\ walk.curr \in Pointers(types')
    BY <1>1 DEF HandlerInv, TypeOK
  <2> QED  BY <1>1, <1>2, <2>1, <2>2, <2>3 DEF HandlerInv, TypeOK, Pointers
<1>5. OwnContent' /\ NoSharing' /\ RulesOnly'
  BY <1>2 DEF HandlerInv, OwnContent, NoSharing, RulesOnly, RuleArrays
<1> QED  BY <1>2, <1>3, <1>4, <1>5 DEF HandlerInv, Reading

(* So does a turn of the loop over the parents.                            *)
LEMMA WalkUpKeepsHandler ==
  ASSUME HandlerInv, WalkUp
  PROVE  HandlerInv'
<1>1. /\ pc = "codecs" /\ walk.curr # Null /\ walk' = [walk EXCEPT !.curr = Deref(types, walk.curr).parent]
      /\ UNCHANGED <<pc, status, loads, rest, seen, apps, vendors, cmds, avps, types, arrays, curr>>
  BY DEF WalkUp, UnknownCodec, tables
<1>2. types \in Table(TypeEntry) /\ walk \in [i : Nat, curr : Pointer]
  BY DEF HandlerInv, Shape
<1>3. walk.curr.slot \in DOMAIN types.items
  BY <1>1 DEF HandlerInv, TypeOK, Pointers
<1>4. types.items[walk.curr.slot].parent \in Pointers(types) \cap Pointer
  <2>1. types.items[walk.curr.slot] \in TypeEntry
    BY <1>2, <1>3 DEF Table
  <2>2. types.items[walk.curr.slot].parent \in Pointers(types)
    BY <1>3 DEF HandlerInv, TypeOK
  <2> QED  BY <2>1, <2>2 DEF TypeEntry
<1>5. walk' \in [i : Nat, curr : Pointer] /\ walk'.i = walk.i /\ walk'.curr \in Pointers(types)
  BY <1>1, <1>2, <1>4 DEF Deref
<1>6. Shape'
  BY <1>1, <1>5 DEF HandlerInv, Shape
<1>7. TypeOK'
  BY <1>1, <1>5 DEF HandlerInv, TypeOK, Pointers
<1>8. OwnContent' /\ NoSharing' /\ RulesOnly'
  BY <1>1 DEF HandlerInv, OwnContent, NoSharing, RulesOnly, RuleArrays
<1> QED  BY <1>1, <1>6, <1>7, <1>8 DEF HandlerInv, Reading

(* The end of that loop sets the codec of type i at most.                  *)
LEMMA SetCodecSets ==
  ASSUME HandlerInv, SetCodec
  PROVE  /\ types' \in Table(TypeEntry) /\ types'.block = types.block
         /\ DOMAIN types'.items = DOMAIN types.items /\ types'.items # << >>
         /\ Len(types'.items) = Len(types.items) /\ Pointers(types') = Pointers(types)
         /\ \A i \in DOMAIN types.items :
              \/ /\ walk.curr = Null \/ i # walk.i
                 /\ types'.items[i] = types.items[i]
              \/ /\ walk.curr # Null /\ i = walk.i
                 /\ walk.curr.slot \in DOMAIN types.items
                 /\ types'.items[i] = [types.items[i] EXCEPT !.codec = Deref(types, walk.curr).codec]
         /\ \A i \in DOMAIN types.items :
              types'.items[i].codec \in Codecs /\ types'.items[i].parent \in Pointers(types)
<1>1. /\ types \in Table(TypeEntry) /\ types.items # << >>
      /\ \A i \in DOMAIN types.items :
           types.items[i].codec \in Codecs /\ types.items[i].parent \in Pointers(types)
  BY DEF HandlerInv, Shape, TypeOK
<1>2. CASE walk.curr = Null
  BY <1>1, <1>2 DEF SetCodec
<1>3. CASE walk.curr # Null
  <2> DEFINE c == Deref(types, walk.curr).codec
             after == [types.items EXCEPT ![walk.i] = [types.items[walk.i] EXCEPT !.codec = c]]
  <2>1. walk.curr.slot \in DOMAIN types.items
    BY <1>3 DEF HandlerInv, TypeOK, Pointers
  <2>2. c \in Codecs
    BY <1>1, <2>1 DEF Deref
  <2>3. types' = [types EXCEPT !.items[walk.i].codec = c]
    BY <1>3 DEF SetCodec
  <2>4. types = [block |-> types.block, items |-> types.items] /\ types.items \in Seq(TypeEntry)
    BY <1>1 DEF Table
  <2> HIDE DEF c
  <2>5. types' = [block |-> types.block, items |-> after]
    BY <2>3, <2>4
  <2>6. \A i \in DOMAIN types.items : types.items[i] \in TypeEntry
    BY <2>4
  <2>7. ASSUME NEW i \in DOMAIN types.items
        PROVE  /\ after[i] = IF i = walk.i THEN [types.items[i] EXCEPT !.codec = c] ELSE types.items[i]
               /\ after[i] \in TypeEntry /\ after[i].codec \in Codecs /\ after[i].parent \in Pointers(types)
    BY <1>1, <2>2, <2>6, <2>7 DEF TypeEntry
  <2>8. Len(types.items) \in Nat /\ DOMAIN types.items = 1 .. Len(types.items) /\ Len(types.items) # 0
    BY <1>1, <2>4
  <2>9. DOMAIN after = DOMAIN types.items
    OBVIOUS
  <2>10. after \in [1 .. Len(types.items) -> TypeEntry]
    <3>1. after = [i \in 1 .. Len(types.items) |-> after[i]]
      BY <2>8
    <3> HIDE DEF after
    <3> QED  BY <2>7, <2>8, <3>1
  <2> HIDE DEF after
  <2>11. after \in Seq(TypeEntry) /\ Len(after) = Len(types.items)
    BY <2>8, <2>10, IsASeqOfLength
  <2>12. types' \in Table(TypeEntry) /\ types'.block = types.block /\ types'.items = after
         /\ after # << >>
    BY <1>1, <2>5, <2>8, <2>11 DEF Table
  <2>13. Pointers(types') = Pointers(types)
    BY <2>9, <2>12 DEF Pointers
  <2> QED  BY <1>3, <2>1, <2>7, <2>9, <2>11, <2>12, <2>13 DEF c
<1> QED  BY <1>2, <1>3

(* It keeps the invariant.                                                 *)
LEMMA SetCodecKeepsHandler ==
  ASSUME HandlerInv, SetCodec
  PROVE  HandlerInv'
<1>1. /\ types' \in Table(TypeEntry) /\ types'.items # << >> /\ Pointers(types') = Pointers(types)
      /\ DOMAIN types'.items = DOMAIN types.items
      /\ \A i \in DOMAIN types.items :
           types'.items[i].codec \in Codecs /\ types'.items[i].parent \in Pointers(types)
  BY SetCodecSets
<1>2. /\ pc' \in {"codecs", "idle"} /\ status' \in {status, "ok"} /\ pc' # "parse"
      /\ \/ walk.i < Len(types.items) /\ walk' = [i |-> walk.i + 1, curr |-> PointerTo(types, walk.i + 1)]
         \/ walk' = [i |-> 0, curr |-> Null]
      /\ UNCHANGED <<loads, rest, seen, apps, vendors, cmds, avps, arrays, curr>>
  BY DEF SetCodec
<1>3. walk'.i \in {0} \cup DOMAIN types'.items /\ walk'.curr \in Pointers(types')
      /\ walk' \in [i : Nat, curr : Pointer]
  <2>1. walk.i \in Nat /\ types \in Table(TypeEntry)
    BY DEF HandlerInv, Shape
  <2>2. CASE walk.i < Len(types.items) /\ walk' = [i |-> walk.i + 1, curr |-> PointerTo(types, walk.i + 1)]
    <3>1. walk.i + 1 \in DOMAIN types.items /\ walk.i + 1 \in Nat /\ types.block \in Nat
      BY <2>1, <2>2 DEF Table
    <3>2. PointerTo(types, walk.i + 1) \in Pointers(types) \cap Pointer
      BY <3>1 DEF PointerTo, Pointers, Pointer
    <3> QED  BY <1>1, <2>2, <3>1, <3>2
  <2>3. CASE walk' = [i |-> 0, curr |-> Null]
    <3>1. Null \in Pointers(types) \cap Pointer
      BY DEF Null, Pointers, Pointer
    <3> QED  BY <1>1, <2>3, <3>1
  <2> QED  BY <1>2, <2>2, <2>3
<1>4. Shape'
  BY <1>1, <1>2, <1>3 DEF HandlerInv, Shape
<1>5. TypeOK'
  <2>1. \A i \in DOMAIN avps.items :
          avps.items[i].content \in {0} \cup DOMAIN arrays /\ avps.items[i].type \in Pointers(types')
    BY <1>1, ArrayNumbers
  <2>2. types'.block \in Nat
    BY <1>1 DEF Table
  <2> QED  BY <1>1, <1>2, <1>3, <2>1, <2>2 DEF HandlerInv, TypeOK, Pointers
<1>6. OwnContent' /\ NoSharing' /\ RulesOnly'
  BY <1>2 DEF HandlerInv, OwnContent, NoSharing, RulesOnly, RuleArrays
<1> QED  BY <1>2, <1>4, <1>5, <1>6 DEF HandlerInv, Reading

(* What joining the AVPs in the sorted table to their types makes of them. *)
BuiltFrom(table) ==
  /\ table \in Table(AvpEntry) /\ table.block = avps.block
  /\ DOMAIN table.items = DOMAIN avps.items
  /\ \E at \in [DOMAIN avps.items -> DOMAIN avps.items] :
       /\ \A i, j \in DOMAIN avps.items : at[i] = at[j] => i = j
       /\ \A i \in DOMAIN avps.items : \E n \in DOMAIN avps.items : at[n] = i
       /\ \A n \in DOMAIN avps.items : table.items[n] = avps.items[at[n]]
  /\ \A i \in DOMAIN avps.items : \E n \in DOMAIN avps.items : table.items[n] = avps.items[i]
  /\ avps' \in Table(AvpEntry) /\ avps'.block = avps.block
  /\ DOMAIN avps'.items = DOMAIN avps.items /\ Pointers(avps') = Pointers(avps)
  /\ \A i \in DOMAIN avps.items :
       /\ table.items[i] \in AvpEntry
       /\ avps'.items[i] = [table.items[i] EXCEPT !.type = TypeOf(table.items[i])]
       /\ TypeOf(table.items[i]) \in Pointers(types) \cap Pointer
  /\ arrays' = BindGrouped(table)

(* BuildAvps makes this of some order of the AVPs.                         *)
LEMMA BuiltAvpsAre ==
  ASSUME HandlerInv, BuildAvps
  PROVE  \E table \in Sorted(avps, Codes(avps)) : BuiltFrom(table)
<1>1. PICK table \in Sorted(avps, Codes(avps)) :
        /\ avps' = [table EXCEPT !.items = [i \in DOMAIN table.items |->
                      [table.items[i] EXCEPT !.type = TypeOf(table.items[i])]]]
        /\ arrays' = BindGrouped(table)
  BY DEF BuildAvps
<1>2. avps \in Table(AvpEntry) /\ Codes(avps) \in [DOMAIN avps.items -> Int]
  BY KeysAreNumbers DEF HandlerInv, Shape
<1>3. /\ table \in Table(AvpEntry) /\ table.block = avps.block
      /\ DOMAIN table.items = DOMAIN avps.items /\ Len(table.items) = Len(avps.items)
      /\ Pointers(table) = Pointers(avps)
  BY <1>1, <1>2, SortedKeeps
<1>a. PICK at \in [DOMAIN avps.items -> DOMAIN avps.items] :
        Reorders(at, avps, Codes(avps), table)
  BY <1>1, <1>2, SortedIsReordered
<1>4. /\ table = [block |-> avps.block, items |-> [n \in DOMAIN avps.items |-> avps.items[at[n]]]]
      /\ \A i, j \in DOMAIN avps.items : at[i] = at[j] => i = j
      /\ \A i \in DOMAIN avps.items : \E n \in DOMAIN avps.items : at[n] = i
  BY <1>a DEF Reorders
<1>5. \A n \in DOMAIN avps.items : table.items[n] = avps.items[at[n]]
  BY <1>4
<1>6. \A i \in DOMAIN avps.items : table.items[i] \in AvpEntry
  BY <1>3 DEF Table
<1>7. \A i \in DOMAIN avps.items : TypeOf(table.items[i]) \in Pointers(types) \cap Pointer
  <2>1. types \in Table(TypeEntry) /\ types.items # << >>
    BY DEF HandlerInv, Shape
  <2>2. \A i \in DOMAIN avps.items : table.items[i].type \in Pointers(types) \cap Pointer
    <3>1. \A i \in DOMAIN avps.items : avps.items[i].type \in Pointers(types)
      BY ArrayNumbers
    <3>2. \A i \in DOMAIN avps.items : table.items[i].type \in Pointer
      BY <1>6 DEF AvpEntry
    <3> QED  BY <1>5, <3>1, <3>2
  <2>3. PointerTo(types, 1) \in Pointers(types) \cap Pointer
    <3>1. types.block \in Nat /\ 1 \in DOMAIN types.items
      BY <2>1 DEF Table
    <3> QED  BY <3>1 DEF PointerTo, Pointers, Pointer
  <2>4. \A n : FirstNamed(types, n) \in Pointers(types) \cap Pointer
    BY <2>1, FirstNamedPoints
  <2> QED  BY <2>2, <2>3, <2>4 DEF TypeOf
<1> DEFINE after == [i \in DOMAIN table.items |->
                       [table.items[i] EXCEPT !.type = TypeOf(table.items[i])]]
<1>8. avps' = [block |-> table.block, items |-> after]
  BY <1>1, <1>3 DEF Table
<1>9. /\ DOMAIN after = DOMAIN avps.items
      /\ \A i \in DOMAIN avps.items :
           after[i] = [table.items[i] EXCEPT !.type = TypeOf(table.items[i])]
  BY <1>3
<1> HIDE DEF after
<1>10. ASSUME NEW i \in DOMAIN avps.items PROVE after[i] \in AvpEntry
  <2>1. /\ table.items[i] \in AvpEntry /\ TypeOf(table.items[i]) \in Pointer
        /\ after[i] = [table.items[i] EXCEPT !.type = TypeOf(table.items[i])]
    BY <1>6, <1>7, <1>9
  <2> QED  BY <2>1 DEF AvpEntry
<1>11. Len(avps.items) \in Nat /\ DOMAIN avps.items = 1 .. Len(avps.items)
  BY <1>2 DEF Table
<1>12. after \in [1 .. Len(avps.items) -> AvpEntry]
  <2>1. after = [i \in 1 .. Len(avps.items) |-> after[i]]
    BY <1>3, <1>11 DEF after
  <2> QED  BY <1>10, <1>11, <2>1
<1>13. after \in Seq(AvpEntry)
  BY <1>11, <1>12, IsASeqOfLength
<1>14. avps' \in Table(AvpEntry) /\ avps'.block = avps.block /\ avps'.items = after
  BY <1>3, <1>8, <1>13 DEF Table
<1>15. Pointers(avps') = Pointers(avps)
  BY <1>9, <1>14 DEF Pointers
<1>16. \A i \in DOMAIN avps.items : \E n \in DOMAIN avps.items : table.items[n] = avps.items[i]
  BY <1>4, <1>5
<1>17. \E f \in [DOMAIN avps.items -> DOMAIN avps.items] :
         /\ \A i, j \in DOMAIN avps.items : f[i] = f[j] => i = j
         /\ \A i \in DOMAIN avps.items : \E n \in DOMAIN avps.items : f[n] = i
         /\ \A n \in DOMAIN avps.items : table.items[n] = avps.items[f[n]]
  BY <1>4, <1>5
<1> QED  BY <1>1, <1>3, <1>6, <1>7, <1>9, <1>14, <1>15, <1>16, <1>17 DEF BuiltFrom

(* Sorting the AVPs under their rules and joining them to their types      *)
(* keeps the invariant: the arrays go with the AVPs.                       *)
LEMMA BuildAvpsKeepsHandler ==
  ASSUME HandlerInv, BuildAvps
  PROVE  HandlerInv'
<1>1. PICK table \in Sorted(avps, Codes(avps)) : BuiltFrom(table)
  BY BuiltAvpsAre
<1>2. PICK at \in [DOMAIN avps.items -> DOMAIN avps.items] :
        /\ \A i, j \in DOMAIN avps.items : at[i] = at[j] => i = j
        /\ \A n \in DOMAIN avps.items : table.items[n] = avps.items[at[n]]
  BY <1>1 DEF BuiltFrom
<1>3. /\ pc' = "codecs" /\ walk' = [i |-> 1, curr |-> PointerTo(types, 1)]
      /\ UNCHANGED <<status, loads, rest, seen, apps, vendors, cmds, types, curr>>
  BY DEF BuildAvps
<1>4. \A i \in DOMAIN avps.items :
        /\ avps'.items[i].content = table.items[i].content
        /\ avps'.items[i].type_name = table.items[i].type_name
        /\ avps'.items[i].type \in Pointers(types)
  <2>1. \A i \in DOMAIN avps.items : table.items[i] \in AvpEntry
    BY <1>1 DEF BuiltFrom
  <2>2. \A i \in DOMAIN avps.items :
          avps'.items[i] = [table.items[i] EXCEPT !.type = TypeOf(table.items[i])]
    BY <1>1 DEF BuiltFrom
  <2>3. \A i \in DOMAIN avps.items : TypeOf(table.items[i]) \in Pointers(types)
    BY <1>1 DEF BuiltFrom
  <2> QED  BY <2>1, <2>2, <2>3 DEF AvpEntry
<1>15. /\ DOMAIN table.items = DOMAIN avps.items /\ DOMAIN avps'.items = DOMAIN avps.items
       /\ table \in Table(AvpEntry) /\ avps' \in Table(AvpEntry) /\ Pointers(avps') = Pointers(avps)
  BY <1>1 DEF BuiltFrom
<1>16. /\ \A n \in DOMAIN avps.items : at[n] \in DOMAIN avps.items /\ table.items[n] = avps.items[at[n]]
       /\ \A i \in DOMAIN avps.items : \E n \in DOMAIN avps.items : table.items[n] = avps.items[i]
  BY <1>1, <1>2 DEF BuiltFrom
<1> DEFINE K == {k \in DOMAIN arrays : \E i \in DOMAIN table.items :
                   table.items[i].type_name = "grouped" /\ table.items[i].content = k}
<1>5. K \in SUBSET RuleArrays
  <2>1. DOMAIN arrays \subseteq Nat
    BY ArrayNumbers
  <2> QED  BY <1>15, <1>16, <2>1 DEF RuleArrays, RuleArraysOf
<1>6. arrays' = [k \in DOMAIN arrays |-> IF k \in K THEN Bind(arrays[k], table) ELSE arrays[k]]
  BY <1>1 DEF BindGrouped, BuiltFrom
<1> HIDE DEF K
<1>7. /\ arrays' \in Seq(Seq(Rule \cup EnumEntry)) /\ DOMAIN arrays' = DOMAIN arrays
      /\ \A k \in RuleArrays : /\ k \in DOMAIN arrays /\ DOMAIN arrays'[k] = DOMAIN arrays[k]
                               /\ \A r \in DOMAIN arrays[k] : arrays'[k][r] \in Rule
  BY <1>5, <1>6, <1>15, BoundArrays
<1>8. /\ walk' \in [i : Nat, curr : Pointer]
      /\ walk'.i \in {0} \cup DOMAIN types.items /\ walk'.curr \in Pointers(types)
  <2>1. types.block \in Nat /\ 1 \in DOMAIN types.items
    BY DEF HandlerInv, Shape, Table
  <2>2. PointerTo(types, 1) \in Pointers(types) \cap Pointer
    BY <2>1 DEF PointerTo, Pointers, Pointer
  <2> QED  BY <1>3, <2>1, <2>2
<1>9. Shape'
  BY <1>3, <1>7, <1>8, <1>15 DEF HandlerInv, Shape
<1>10. TypeOK'
  <2>1. \A i \in DOMAIN avps.items : avps'.items[i].content \in {0} \cup DOMAIN arrays
    BY <1>2, <1>4, ArrayNumbers
  <2>2. \A i \in DOMAIN avps'.items :
          avps'.items[i].content \in {0} \cup DOMAIN arrays' /\ avps'.items[i].type \in Pointers(types')
    BY <1>3, <1>4, <1>7, <1>15, <2>1
  <2>3. avps'.block \in Nat
    BY <1>15 DEF Table
  <2>4. curr'.avp \in Pointers(avps')
    BY <1>3, <1>15 DEF HandlerInv, TypeOK
  <2> QED  BY <1>3, <1>7, <1>8, <2>2, <2>3, <2>4 DEF HandlerInv, TypeOK, Pointers
<1>11. OwnContent'
  <2>1. \A i \in DOMAIN avps.items : \A j \in DOMAIN avps.items :
          avps.items[i].content = avps.items[j].content /\ avps.items[i].content # 0 => i = j
    BY DEF HandlerInv, OwnContent
  <2>2. \A i \in DOMAIN avps.items : avps'.items[i].content = avps.items[at[i]].content
    BY <1>4, <1>16
  <2>3. \A i, j \in DOMAIN avps.items : at[i] = at[j] => i = j
    BY <1>2
  <2>4. \A i \in DOMAIN avps.items : at[i] \in DOMAIN avps.items
    BY <1>16
  <2>5. \A i \in DOMAIN avps.items : \A j \in DOMAIN avps.items :
          avps'.items[i].content = avps'.items[j].content /\ avps'.items[i].content # 0 => i = j
    BY <2>1, <2>2, <2>3, <2>4
  <2>6. DOMAIN avps'.items = DOMAIN avps.items
    BY <1>15
  <2> QED  BY <2>5, <2>6 DEF OwnContent
<1>12. NoSharing'
  <2>1. \A i \in DOMAIN avps.items : \A j \in DOMAIN cmds.items :
          avps.items[i].content \notin {cmds.items[j].req_rules, cmds.items[j].ans_rules}
    BY DEF HandlerInv, NoSharing
  <2>2. \A i \in DOMAIN avps.items : avps'.items[i].content = avps.items[at[i]].content
    BY <1>4, <1>16
  <2>3. \A i \in DOMAIN avps.items : at[i] \in DOMAIN avps.items
    BY <1>16
  <2>4. \A i \in DOMAIN avps.items : \A j \in DOMAIN cmds.items :
          avps'.items[i].content \notin {cmds.items[j].req_rules, cmds.items[j].ans_rules}
    BY <2>1, <2>2, <2>3
  <2>5. DOMAIN avps'.items = DOMAIN avps.items
    BY <1>15
  <2> QED  BY <1>3, <2>4, <2>5 DEF NoSharing
<1>13. RuleArrays' = RuleArrays
  <2>1. \A k : (\E i \in DOMAIN avps'.items : avps'.items[i].type_name = "grouped" /\ k = avps'.items[i].content)
                 <=> \E i \in DOMAIN avps.items : avps.items[i].type_name = "grouped" /\ k = avps.items[i].content
    <3>1. DOMAIN avps'.items = DOMAIN avps.items
      BY <1>15
    <3>2. \A n \in DOMAIN avps.items :
            /\ at[n] \in DOMAIN avps.items
            /\ avps'.items[n].content = avps.items[at[n]].content
            /\ avps'.items[n].type_name = avps.items[at[n]].type_name
      BY <1>4, <1>16
    <3>3. \A i \in DOMAIN avps.items : \E n \in DOMAIN avps.items :
            /\ avps'.items[n].content = avps.items[i].content
            /\ avps'.items[n].type_name = avps.items[i].type_name
      <4> SUFFICES ASSUME NEW i \in DOMAIN avps.items
                   PROVE  \E n \in DOMAIN avps.items :
                            /\ avps'.items[n].content = avps.items[i].content
                            /\ avps'.items[n].type_name = avps.items[i].type_name
        OBVIOUS
      <4>1. PICK n \in DOMAIN avps.items : table.items[n] = avps.items[i]
        BY <1>16
      <4> QED  BY <1>4, <4>1
    <3> SUFFICES ASSUME NEW k
                 PROVE  (\E i \in DOMAIN avps'.items : avps'.items[i].type_name = "grouped" /\ k = avps'.items[i].content)
                          <=> \E i \in DOMAIN avps.items : avps.items[i].type_name = "grouped" /\ k = avps.items[i].content
      OBVIOUS
    <3>4. ASSUME NEW i \in DOMAIN avps'.items, avps'.items[i].type_name = "grouped", k = avps'.items[i].content
          PROVE  \E j \in DOMAIN avps.items : avps.items[j].type_name = "grouped" /\ k = avps.items[j].content
      <4>1. i \in DOMAIN avps.items
        BY <3>1
      <4>2. at[i] \in DOMAIN avps.items
        BY <3>2, <4>1
      <4> QED  BY <3>2, <3>4, <4>1, <4>2
    <3>5. ASSUME NEW i \in DOMAIN avps.items, avps.items[i].type_name = "grouped", k = avps.items[i].content
          PROVE  \E j \in DOMAIN avps'.items : avps'.items[j].type_name = "grouped" /\ k = avps'.items[j].content
      <4>1. PICK n \in DOMAIN avps.items : /\ avps'.items[n].content = avps.items[i].content
                                           /\ avps'.items[n].type_name = avps.items[i].type_name
        BY <3>3
      <4> QED  BY <3>1, <3>5, <4>1
    <3> QED  BY <3>4, <3>5
  <2> QED  BY <1>3, <2>1 DEF RuleArrays, RuleArraysOf
<1>14. RulesOnly'
  BY <1>7, <1>13 DEF RulesOnly
<1> QED  BY <1>3, <1>9, <1>10, <1>11, <1>12, <1>14 DEF HandlerInv, Reading

(* Every step does.                                                        *)
LEMMA NextKeepsHandler == HandlerInv /\ [Next]_vars => HandlerInv'
<1> SUFFICES ASSUME HandlerInv, [Next]_vars PROVE HandlerInv'
  OBVIOUS
<1>1. ASSUME NEW doc \in Documents, Open(doc) PROVE HandlerInv'
  BY <1>1, OpenKeepsHandler
<1>2. CASE Fail \/ EndOfFile \/ BuildCrash
  BY <1>2, QuietKeepsHandler
<1>3. CASE (\E tag \in {"base", "application"} : AddApp(tag)) \/ Vendor \/ Other
  BY <1>3, AppKeepsHandler
<1>4. CASE Command
  BY <1>4, CommandKeepsHandler
<1>5. CASE CommandRules
  BY <1>5, CommandRulesKeepsHandler
<1>6. CASE AvpRule
  BY <1>6, AvpRuleKeepsHandler
<1>7. CASE Avp
  BY <1>7, AvpKeepsHandler
<1>8. CASE Type
  BY <1>8, TypeKeepsHandler
<1>9. CASE Grouped
  BY <1>9, GroupedKeepsHandler
<1>10. CASE Enum
  BY <1>10, EnumKeepsHandler
<1>11. CASE TypeDefn
  BY <1>11, TypeDefnKeepsHandler
<1>12. CASE BuildTables
  BY <1>12, BuildTablesKeepsHandler
<1>13. CASE ChainTypes
  BY <1>13, ChainTypesKeepsHandler
<1>14. CASE BuildAvps
  BY <1>14, BuildAvpsKeepsHandler
<1>15. CASE WalkUp
  BY <1>15, WalkUpKeepsHandler
<1>16. CASE SetCodec
  BY <1>16, SetCodecKeepsHandler
<1>17. CASE UNCHANGED vars
  <2>1. /\ UNCHANGED <<pc, status, loads, rest, seen, curr, walk>>
        /\ UNCHANGED <<apps, vendors, cmds, avps, types, arrays>>
    BY <1>17 DEF vars, tables
  <2>2. Shape' /\ OwnContent' /\ NoSharing' /\ RulesOnly'
    BY <2>1 DEF HandlerInv, Shape, OwnContent, NoSharing, RulesOnly, RuleArrays
  <2>3. TypeOK'
    BY <2>1 DEF HandlerInv, TypeOK, Pointers
  <2>4. \A doc, n : Context(doc, n) => Context(doc, n)'
    BY <2>1 DEF Context, OnAvp, RuleArrays
  <2>5. Reading'
    BY <2>1, <2>4 DEF HandlerInv, Reading
  <2> QED  BY <2>2, <2>3, <2>5 DEF HandlerInv
<1> QED  BY <1>1, <1>2, <1>3, <1>4, <1>5, <1>6, <1>7, <1>8, <1>9, <1>10, <1>11, <1>12, <1>13,
            <1>14, <1>15, <1>16, <1>17 DEF Next, Element, Build

(* The handler writes to the entries it means to: through any number of    *)
(* loads, failed ones too, curr_avp, curr_cmd and curr_rules are on the    *)
(* entries that enclose the element read.                                  *)
THEOREM HandlerKeepsShape == Spec => []HandlerInv
BY InitHandler, NextKeepsHandler, PTL DEF Spec

(* Blocks, slots and array numbers are in range at every step.             *)
THEOREM TypeCorrect == Spec => []TypeOK
<1>1. HandlerInv => TypeOK
  BY DEF HandlerInv
<1> QED  BY <1>1, HandlerKeepsShape, PTL
-----------------------------------------------------------------------------
(* Every AVP known before is known after.                                  *)
AvpsStay ==
  \A i \in DOMAIN avps.items : \E j \in DOMAIN avps'.items :
    avps'.items[j].code = avps.items[i].code /\ avps'.items[j].name = avps.items[i].name

(* A store that keeps code and name does not lose an AVP.                  *)
LEMMA StoreKeepsAvps ==
  ASSUME HandlerInv, OnAvp, NEW avp \in AvpEntry, avps' = Store(avps, curr.avp, avp),
         avp.code = Deref(avps, curr.avp).code, avp.name = Deref(avps, curr.avp).name
  PROVE  AvpsStay
<1> DEFINE last == Len(avps.items)
<1>1. avps \in Table(AvpEntry) /\ avps.items # << >> /\ curr.avp = Back(avps)
  BY DEF HandlerInv, Shape, OnAvp
<1>2. last \in DOMAIN avps.items /\ Deref(avps, curr.avp) = avps.items[last]
  BY <1>1, BackPoints
<1> HIDE DEF last
<1>3. /\ DOMAIN avps'.items = DOMAIN avps.items /\ avps'.items[last] = avp
      /\ \A i \in DOMAIN avps.items : i # last => avps'.items[i] = avps.items[i]
  BY <1>1, StoreAtBack DEF last
<1>4. \A i \in DOMAIN avps.items :
        avps'.items[i].code = avps.items[i].code /\ avps'.items[i].name = avps.items[i].name
  BY <1>2, <1>3
<1> QED  BY <1>3, <1>4 DEF AvpsStay

(* The current AVP is an entry of the table.                               *)
LEMMA EntryAtBack ==
  ASSUME HandlerInv, OnAvp
  PROVE  Deref(avps, curr.avp) \in AvpEntry
<1>1. avps \in Table(AvpEntry) /\ avps.items # << >> /\ curr.avp = Back(avps)
  BY DEF HandlerInv, Shape, OnAvp
<1> QED  BY <1>1, BackPoints DEF Table

(* No step loses an AVP, and an avp element adds its own.                  *)
LEMMA EveryStepKeepsAvps ==
  ASSUME HandlerInv, [Next]_vars
  PROVE  /\ AvpsStay
         /\ \/ seen' = seen
            \/ \E e \in Elements :
                 /\ seen' = Append(seen, e)
                 /\ e.el = "avp" => \E j \in DOMAIN avps'.items :
                      avps'.items[j].code = e.code /\ avps'.items[j].name = e.name
<1>1. UNCHANGED avps => AvpsStay
  BY DEF AvpsStay
<1>2. ASSUME NEW tag, Start(tag)
      PROVE  Head(rest) \in Elements /\ Head(rest).el = tag /\ seen' = Append(seen, Head(rest))
  BY <1>2, ElementIsRead DEF HandlerInv
<1>3. ASSUME NEW doc \in Documents, Open(doc)
      PROVE  seen' = seen /\ AvpsStay
  BY <1>1, <1>3 DEF Open, tables
<1>4. CASE Fail \/ EndOfFile \/ BuildTables \/ ChainTypes \/ BuildCrash \/ WalkUp \/ SetCodec
  BY <1>1, <1>4 DEF Fail, EndOfFile, BuildTables, ChainTypes, BuildCrash, WalkUp, SetCodec, tables
<1>5. ASSUME NEW tag, tag # "avp", Start(tag), UNCHANGED avps
      PROVE  AvpsStay /\ \E e \in Elements : seen' = Append(seen, e) /\ e.el # "avp"
  BY <1>1, <1>2, <1>5
<1>6. ASSUME NEW tag \in {"base", "application"}, AddApp(tag)
      PROVE  AvpsStay /\ \E e \in Elements : seen' = Append(seen, e) /\ e.el # "avp"
  <2>1. Start(tag) /\ UNCHANGED avps
    BY <1>6 DEF AddApp
  <2> QED  BY <1>5, <2>1
<1>7. CASE Vendor \/ Command \/ AvpRule \/ TypeDefn
  <2>1. \E tag \in {"vendor", "command", "avprule", "typedefn"} : Start(tag) /\ UNCHANGED avps
    BY <1>7 DEF Vendor, Command, AvpRule, TypeDefn
  <2> QED  BY <1>5, <2>1
<1>8. CASE CommandRules \/ Other
  <2>1. \E tag \in {"requestrules", "answerrules", "section", "other"} : Start(tag) /\ UNCHANGED avps
    BY <1>8 DEF CommandRules, Other, tables
  <2> QED  BY <1>5, <2>1
<1>9. CASE Avp
  <2>1. Start("avp") /\ avps' \in PushBack(avps, NewAvp(Head(rest)))
    BY <1>9 DEF Avp
  <2>2. Head(rest) \in Elements /\ seen' = Append(seen, Head(rest)) /\ avps \in Table(AvpEntry)
    BY <1>2, <2>1 DEF HandlerInv, Shape
  <2>3. NewAvp(Head(rest)) \in AvpEntry
    <3>1. Null \in Pointer
      BY DEF Null, Pointer
    <3>2. NoName \in Names
      BY DictAssumption DEF DictAssumption
    <3>3. Head(rest).name \in Names /\ Head(rest).code \in Code
      BY <2>2 DEF Elements
    <3> QED  BY <3>1, <3>2, <3>3 DEF NewAvp, AvpEntry
  <2>4. /\ \A i \in DOMAIN avps.items : i \in DOMAIN avps'.items /\ avps'.items[i] = avps.items[i]
        /\ Len(avps'.items) \in DOMAIN avps'.items
        /\ avps'.items[Len(avps'.items)] = NewAvp(Head(rest))
    BY <2>1, <2>2, <2>3, PushBackAppends
  <2>5. AvpsStay
    BY <2>4 DEF AvpsStay
  <2>6. NewAvp(Head(rest)).code = Head(rest).code /\ NewAvp(Head(rest)).name = Head(rest).name
    BY DEF NewAvp
  <2> QED  BY <2>2, <2>4, <2>5, <2>6
<1>10. CASE Type
  <2> DEFINE avp == [Deref(avps, curr.avp) EXCEPT !.type_name = Head(rest).name]
  <2>1. Start("type") /\ avps' = Store(avps, curr.avp, avp)
    BY <1>10 DEF Type
  <2>2. OnAvp /\ Head(rest) \in Elements /\ seen' = Append(seen, Head(rest)) /\ Head(rest).el = "type"
    BY <1>2, <2>1, AtElement
  <2>3. Deref(avps, curr.avp) \in AvpEntry
    BY <2>2, EntryAtBack
  <2>4. avp \in AvpEntry /\ avp.code = Deref(avps, curr.avp).code /\ avp.name = Deref(avps, curr.avp).name
    BY <2>2, <2>3 DEF AvpEntry, Elements
  <2>5. AvpsStay
    BY <2>1, <2>2, <2>4, StoreKeepsAvps
  <2> QED  BY <2>2, <2>5
<1>11. CASE Grouped
  <2> DEFINE avp == [Deref(avps, curr.avp) EXCEPT !.type_name = "grouped", !.content = Len(arrays) + 1]
  <2>1. Start("grouped") /\ avps' = Store(avps, curr.avp, avp)
    BY <1>11 DEF Grouped
  <2>2. OnAvp /\ Head(rest) \in Elements /\ seen' = Append(seen, Head(rest)) /\ Head(rest).el = "grouped"
    BY <1>2, <2>1, AtElement
  <2>3. Deref(avps, curr.avp) \in AvpEntry
    BY <2>2, EntryAtBack
  <2>4. Len(arrays) + 1 \in Nat
    BY ArrayNumbers
  <2>5. "grouped" \in Names
    BY DictAssumption DEF DictAssumption
  <2>6. avp \in AvpEntry /\ avp.code = Deref(avps, curr.avp).code /\ avp.name = Deref(avps, curr.avp).name
    BY <2>3, <2>4, <2>5 DEF AvpEntry
  <2>7. AvpsStay
    BY <2>1, <2>2, <2>6, StoreKeepsAvps
  <2> QED  BY <2>2, <2>7
<1>12. CASE Enum
  <2> DEFINE avp == [Deref(avps, curr.avp) EXCEPT !.content = Len(arrays) + 1]
  <2>1. Start("enum") /\ (UNCHANGED avps \/ avps' = Store(avps, curr.avp, avp))
    BY <1>12 DEF Enum
  <2>2. OnAvp /\ Head(rest) \in Elements /\ seen' = Append(seen, Head(rest)) /\ Head(rest).el = "enum"
    BY <1>2, <2>1, AtElement
  <2>3. Deref(avps, curr.avp) \in AvpEntry
    BY <2>2, EntryAtBack
  <2>4. Len(arrays) + 1 \in Nat
    BY ArrayNumbers
  <2>5. avp \in AvpEntry /\ avp.code = Deref(avps, curr.avp).code /\ avp.name = Deref(avps, curr.avp).name
    BY <2>3, <2>4 DEF AvpEntry
  <2>6. AvpsStay
    BY <1>1, <2>1, <2>2, <2>5, StoreKeepsAvps
  <2> QED  BY <2>2, <2>6
<1>13. CASE BuildAvps
  <2>1. PICK table \in Sorted(avps, Codes(avps)) : BuiltFrom(table)
    BY <1>13, BuiltAvpsAre
  <2>2. \A n \in DOMAIN avps.items :
          avps'.items[n].code = table.items[n].code /\ avps'.items[n].name = table.items[n].name
    <3>1. \A n \in DOMAIN avps.items :
            /\ table.items[n] \in AvpEntry
            /\ avps'.items[n] = [table.items[n] EXCEPT !.type = TypeOf(table.items[n])]
      BY <2>1 DEF BuiltFrom
    <3> QED  BY <3>1 DEF AvpEntry
  <2>3. /\ DOMAIN avps'.items = DOMAIN avps.items
        /\ \A i \in DOMAIN avps.items : \E n \in DOMAIN avps.items : table.items[n] = avps.items[i]
    BY <2>1 DEF BuiltFrom
  <2>4. AvpsStay
    BY <2>2, <2>3 DEF AvpsStay
  <2> QED  BY <1>13, <2>4 DEF BuildAvps
<1>14. CASE UNCHANGED vars
  BY <1>1, <1>14 DEF vars, tables
<1> QED  BY <1>3, <1>4, <1>6, <1>7, <1>8, <1>9, <1>10, <1>11, <1>12, <1>13, <1>14 DEF Next, Element, Build

(* At the start nothing is declared.                                       *)
LEMMA ListedAtInit == Init => Listed
BY DEF Init, Listed, Declared

(* What is declared stays listed.                                          *)
LEMMA ListedKept == HandlerInv /\ Listed /\ [Next]_vars => Listed'
<1> SUFFICES ASSUME HandlerInv, Listed, [Next]_vars, NEW k \in Declared("avp")'
             PROVE  \E j \in DOMAIN avps'.items :
                      avps'.items[j].code = seen'[k].code /\ avps'.items[j].name = seen'[k].name
  BY DEF Listed
<1>1. seen \in Seq(Elements)
  BY DEF HandlerInv, Shape
<1>2. ASSUME k \in Declared("avp"), seen'[k] = seen[k]
      PROVE  \E j \in DOMAIN avps'.items :
               avps'.items[j].code = seen'[k].code /\ avps'.items[j].name = seen'[k].name
  <2>1. PICK i \in DOMAIN avps.items :
          avps.items[i].code = seen[k].code /\ avps.items[i].name = seen[k].name
    BY <1>2 DEF Listed
  <2>2. PICK j \in DOMAIN avps'.items :
          avps'.items[j].code = avps.items[i].code /\ avps'.items[j].name = avps.items[i].name
    BY EveryStepKeepsAvps DEF AvpsStay
  <2> QED  BY <1>2, <2>1, <2>2
<1>3. CASE seen' = seen
  BY <1>2, <1>3 DEF Declared
<1>4. ASSUME NEW e \in Elements, seen' = Append(seen, e),
             e.el = "avp" => \E j \in DOMAIN avps'.items :
                               avps'.items[j].code = e.code /\ avps'.items[j].name = e.name
      PROVE  \E j \in DOMAIN avps'.items :
               avps'.items[j].code = seen'[k].code /\ avps'.items[j].name = seen'[k].name
  <2>1. /\ \A tag : tag # e.el => Declared(tag)' = Declared(tag)
        /\ Declared(e.el)' = Declared(e.el) \cup {Len(seen) + 1}
        /\ \A j \in DOMAIN seen : seen'[j] = seen[j]
        /\ seen'[Len(seen) + 1] = e
    BY <1>1, <1>4, DeclarationsGrow
  <2>2. Declared("avp") \subseteq DOMAIN seen
    BY DEF Declared
  <2>3. CASE k \in Declared("avp")
    BY <1>2, <2>1, <2>2, <2>3
  <2>4. CASE k \notin Declared("avp")
    <3>1. e.el = "avp" /\ k = Len(seen) + 1
      BY <2>1, <2>4
    <3> QED  BY <1>4, <2>1, <3>1
  <2> QED  BY <2>3, <2>4
<1> QED  BY <1>3, <1>4, EveryStepKeepsAvps

(* At the start nothing is open.                                           *)
LEMMA UnreadAtInit == Init => Unread /\ Unbound /\ Bound
BY DEF Init, Unread, Unbound, Bound, Ready, NewArray

(* Before the first load nothing happens.                                  *)
LEMMA UnreadKept == HandlerInv /\ Unread /\ [Next]_vars => Unread'
<1> SUFFICES ASSUME HandlerInv, Unread, [Next]_vars PROVE Unread'
  OBVIOUS
<1>1. ASSUME NEW doc \in Documents, Open(doc) PROVE Unread'
  BY <1>1 DEF Open, Unread, HandlerInv, TypeOK
<1>2. CASE UNCHANGED vars
  BY <1>2 DEF vars, tables, Unread
<1>3. ASSUME pc # "idle", UNCHANGED loads PROVE Unread'
  BY <1>3 DEF Unread
<1>4. CASE Element
  BY <1>3, <1>4 DEF Element, Start, AddApp, Vendor, Command, CommandRules, AvpRule, Avp, Type, Grouped,
                    Enum, TypeDefn, Other
<1>5. CASE Fail \/ EndOfFile \/ Build
  BY <1>3, <1>5 DEF Fail, EndOfFile, Build, BuildTables, ChainTypes, BuildCrash, BuildAvps, WalkUp, SetCodec
<1> QED  BY <1>1, <1>2, <1>4, <1>5 DEF Next

(* The array of a grouped AVP is a rule array.                             *)
LEMMA GroupedContent ==
  ASSUME HandlerInv, NEW i \in DOMAIN avps.items, avps.items[i].type_name = "grouped"
  PROVE  avps.items[i].content \in RuleArrays /\ avps.items[i].content \in DOMAIN arrays
<1>1. avps.items[i].content \in Nat
  <2>1. avps \in Table(AvpEntry)
    BY DEF HandlerInv, Shape
  <2>2. avps.items[i] \in AvpEntry
    BY <2>1 DEF Table
  <2> QED  BY <2>2 DEF AvpEntry
<1> QED  BY <1>1 DEF HandlerInv, RulesOnly, RuleArrays, RuleArraysOf

(* New arrays do not bind the rules there are.                             *)
LEMMA ArraysGrowUnbound ==
  ASSUME HandlerInv, AllUnbound, UNCHANGED avps,
         \A k \in DOMAIN arrays : arrays'[k] = arrays[k]
  PROVE  AllUnbound'
BY GroupedContent DEF AllUnbound

(* A new rule is not bound.                                                *)
LEMMA AvpRuleUnbound ==
  ASSUME HandlerInv, AllUnbound, AvpRule
  PROVE  AllUnbound'
<1> DEFINE rule == [name |-> Head(rest).name, avp |-> Null]
<1>1. Start("avprule") /\ UNCHANGED avps
      /\ arrays' = [arrays EXCEPT ![curr.rules] = Append(arrays[curr.rules], rule)]
  BY DEF AvpRule
<1>2. curr.rules \in RuleArrays /\ curr.rules \in DOMAIN arrays
  BY <1>1, AtElement DEF HandlerInv, RulesOnly
<1>3. arrays \in Seq(Seq(Rule \cup EnumEntry))
  BY DEF HandlerInv, Shape
<1>4. rule.avp = Null
  OBVIOUS
<1>5. rule \in Rule
  <2>1. Head(rest) \in Elements
    BY <1>1, ElementIsRead DEF HandlerInv
  <2> QED  BY <2>1 DEF Rule, Elements, Null, Pointer
<1> HIDE DEF rule
<1>6. arrays[curr.rules] \in Seq(Rule \cup EnumEntry)
  BY <1>2, <1>3
<1>7. \A r \in DOMAIN Append(arrays[curr.rules], rule) :
        \/ r \in DOMAIN arrays[curr.rules] /\ Append(arrays[curr.rules], rule)[r] = arrays[curr.rules][r]
        \/ Append(arrays[curr.rules], rule)[r] = rule
  BY <1>5, <1>6, AppendAdds
<1>8. /\ \A k \in DOMAIN arrays : k # curr.rules => arrays'[k] = arrays[k]
      /\ arrays'[curr.rules] = Append(arrays[curr.rules], rule)
  BY <1>1, <1>2, <1>3
<1>0. avps' = avps
  BY <1>1
<1> SUFFICES ASSUME NEW i \in DOMAIN avps.items, avps.items[i].type_name = "grouped",
                    NEW r \in DOMAIN arrays'[avps.items[i].content]
             PROVE  arrays'[avps.items[i].content][r].avp = Null
  BY <1>0 DEF AllUnbound
<1>9. avps.items[i].content \in DOMAIN arrays
  BY GroupedContent
<1>10. \A s \in DOMAIN arrays[avps.items[i].content] : arrays[avps.items[i].content][s].avp = Null
  BY DEF AllUnbound
<1>11. CASE avps.items[i].content = curr.rules
  BY <1>4, <1>7, <1>8, <1>10, <1>11
<1>12. CASE avps.items[i].content # curr.rules
  BY <1>8, <1>9, <1>10, <1>12
<1> QED  BY <1>11, <1>12

(* A new AVP has no rules.                                                 *)
LEMMA AvpUnbound ==
  ASSUME HandlerInv, AllUnbound, Avp
  PROVE  AllUnbound'
<1> DEFINE avp == NewAvp(Head(rest))
<1>1. Start("avp") /\ avps' \in PushBack(avps, avp) /\ UNCHANGED arrays /\ avps \in Table(AvpEntry)
  BY DEF Avp, HandlerInv, Shape
<1>2. avp \in AvpEntry
  <2>1. Null \in Pointer
    BY DEF Null, Pointer
  <2>2. NoName \in Names
    BY DictAssumption DEF DictAssumption
  <2>3. Head(rest).name \in Names /\ Head(rest).code \in Code
    BY <1>1, ElementIsRead DEF HandlerInv, Elements
  <2> QED  BY <2>1, <2>2, <2>3 DEF NewAvp, AvpEntry
<1>3. avp.type_name # "grouped"
  BY DEF NewAvp, NoName
<1> HIDE DEF avp
<1>4. \A i \in DOMAIN avps'.items : \/ i \in DOMAIN avps.items /\ avps'.items[i] = avps.items[i]
                                    \/ avps'.items[i] = avp
  BY <1>1, <1>2, PushBackAppends
<1> QED  BY <1>1, <1>3, <1>4 DEF AllUnbound

(* A store to the current AVP binds nothing.                               *)
LEMMA StoreUnbound ==
  ASSUME HandlerInv, AllUnbound, OnAvp, NEW avp \in AvpEntry, avps' = Store(avps, curr.avp, avp),
         \A k \in DOMAIN arrays : arrays'[k] = arrays[k],
         avp.type_name # "grouped" \/ arrays'[avp.content] = << >>
  PROVE  AllUnbound'
<1> DEFINE last == Len(avps.items)
<1>1. avps \in Table(AvpEntry) /\ avps.items # << >> /\ curr.avp = Back(avps)
  BY DEF HandlerInv, Shape, OnAvp
<1> HIDE DEF last
<1>2. /\ DOMAIN avps'.items = DOMAIN avps.items /\ avps'.items[last] = avp
      /\ \A i \in DOMAIN avps.items : i # last => avps'.items[i] = avps.items[i]
  BY <1>1, StoreAtBack DEF last
<1> SUFFICES ASSUME NEW i \in DOMAIN avps.items, avps'.items[i].type_name = "grouped",
                    NEW r \in DOMAIN arrays'[avps'.items[i].content]
             PROVE  arrays'[avps'.items[i].content][r].avp = Null
  BY <1>2 DEF AllUnbound
<1>3. CASE i = last
  BY <1>2, <1>3
<1>4. CASE i # last
  <2>1. avps'.items[i] = avps.items[i]
    BY <1>2, <1>4
  <2>2. avps.items[i].content \in DOMAIN arrays
    BY <2>1, GroupedContent
  <2> QED  BY <2>1, <2>2 DEF AllUnbound
<1> QED  BY <1>3, <1>4

(* No element binds a rule of a grouped AVP.                               *)
LEMMA ElementUnbound ==
  ASSUME HandlerInv, AllUnbound, Element
  PROVE  AllUnbound'
<1>1. ASSUME UNCHANGED <<avps, arrays>> PROVE AllUnbound'
  BY <1>1 DEF AllUnbound
<1>2. CASE (\E tag \in {"base", "application"} : AddApp(tag)) \/ Vendor \/ CommandRules \/ TypeDefn \/ Other
  BY <1>1, <1>2 DEF AddApp, Vendor, CommandRules, TypeDefn, Other, tables
<1>3. arrays \in Seq(Seq(Rule \cup EnumEntry)) /\ Len(arrays) + 1 \in Nat
  BY ArrayNumbers DEF HandlerInv, Shape
<1>4. CASE Command
  <2>1. << << >>, << >> >> \in Seq(Seq(Rule \cup EnumEntry))
    OBVIOUS
  <2>2. arrays' = arrays \o << << >>, << >> >> /\ UNCHANGED avps
    BY <1>4 DEF Command
  <2>3. \A k \in DOMAIN arrays : arrays'[k] = arrays[k]
    BY <1>3, <2>1, <2>2
  <2> QED  BY <2>2, <2>3, ArraysGrowUnbound
<1>5. CASE AvpRule
  BY <1>5, AvpRuleUnbound
<1>6. CASE Avp
  BY <1>6, AvpUnbound
<1>7. CASE Type
  <2> DEFINE avp == [Deref(avps, curr.avp) EXCEPT !.type_name = Head(rest).name]
  <2>1. Start("type") /\ avps' = Store(avps, curr.avp, avp) /\ UNCHANGED arrays
    BY <1>7 DEF Type
  <2>2. OnAvp /\ Head(rest).name # "grouped" /\ Head(rest) \in Elements
    BY <2>1, AtElement, ElementIsRead DEF HandlerInv
  <2>3. Deref(avps, curr.avp) \in AvpEntry
    BY <2>2, EntryAtBack
  <2>4. avp \in AvpEntry /\ avp.type_name # "grouped"
    BY <2>2, <2>3 DEF AvpEntry, Elements
  <2> HIDE DEF avp
  <2> QED  BY <2>1, <2>2, <2>4, StoreUnbound
<1>8. CASE Grouped
  <2> DEFINE avp == [Deref(avps, curr.avp) EXCEPT !.type_name = "grouped", !.content = Len(arrays) + 1]
  <2>1. Start("grouped") /\ avps' = Store(avps, curr.avp, avp) /\ arrays' = Append(arrays, << >>)
    BY <1>8 DEF Grouped
  <2>2. OnAvp
    BY <2>1, AtElement
  <2>3. Deref(avps, curr.avp) \in AvpEntry
    BY <2>2, EntryAtBack
  <2>4. "grouped" \in Names
    BY DictAssumption DEF DictAssumption
  <2>5. avp \in AvpEntry /\ avp.content = Len(arrays) + 1
    BY <1>3, <2>3, <2>4 DEF AvpEntry
  <2> HIDE DEF avp
  <2>6. (\A k \in DOMAIN arrays : arrays'[k] = arrays[k]) /\ arrays'[Len(arrays) + 1] = << >>
    BY <1>3, <2>1, AppendAdds
  <2> QED  BY <2>1, <2>2, <2>5, <2>6, StoreUnbound
<1>9. CASE Enum
  <2> DEFINE old == Deref(avps, curr.avp)
             avp == [old EXCEPT !.content = Len(arrays) + 1]
             e == [name |-> Head(rest).name, code |-> Head(rest).code]
  <2>1. Start("enum")
    BY <1>9 DEF Enum
  <2>2. OnAvp /\ old.type_name # "grouped" /\ Head(rest) \in Elements
    BY <2>1, AtElement, ElementIsRead DEF HandlerInv
  <2>3. old \in AvpEntry
    BY <2>2, EntryAtBack
  <2>4. CASE /\ arrays' = Append(arrays, <<e>>)
             /\ avps' = Store(avps, curr.avp, avp)
    <3>1. avp \in AvpEntry /\ avp.type_name # "grouped"
      BY <1>3, <2>2, <2>3 DEF AvpEntry
    <3>2. <<e>> \in Seq(Rule \cup EnumEntry)
      BY <2>2 DEF Elements, EnumEntry
    <3> HIDE DEF avp, e
    <3>3. \A k \in DOMAIN arrays : arrays'[k] = arrays[k]
      BY <1>3, <2>4, <3>2, AppendAdds
    <3> QED  BY <2>2, <2>4, <3>1, <3>3, StoreUnbound
  <2>5. CASE /\ old.content # 0
             /\ arrays' = [arrays EXCEPT ![old.content] = Append(@, e)]
             /\ UNCHANGED avps
    <3>1. \A k \in DOMAIN arrays : k # old.content => arrays'[k] = arrays[k]
      BY <1>3, <2>5
    <3>2. PICK last \in DOMAIN avps.items : old = avps.items[last]
      <4>1. avps \in Table(AvpEntry) /\ avps.items # << >> /\ curr.avp = Back(avps)
        BY <2>2 DEF HandlerInv, Shape, OnAvp
      <4> QED  BY <4>1, BackPoints
    <3>3. \A i \in DOMAIN avps.items :
            avps.items[i].type_name = "grouped" => avps.items[i].content # old.content
      BY <2>2, <2>5, <3>2 DEF HandlerInv, OwnContent
    <3> HIDE DEF old
    <3>4. ASSUME NEW i \in DOMAIN avps.items, avps.items[i].type_name = "grouped"
          PROVE  arrays'[avps.items[i].content] = arrays[avps.items[i].content]
      BY <3>1, <3>3, <3>4, GroupedContent
    <3>5. UNCHANGED avps
      BY <2>5
    <3> QED  BY <3>4, <3>5 DEF AllUnbound
  <2> QED  BY <1>9, <2>4, <2>5 DEF Enum
<1> QED  BY <1>2, <1>4, <1>5, <1>6, <1>7, <1>8, <1>9 DEF Element

(* Nothing else does before the AVPs are sorted: the rules that            *)
(* BuildTables binds are those of commands.                                *)
LEMMA UnboundKept == HandlerInv /\ Unread /\ Unbound /\ [Next]_vars => Unbound'
<1> SUFFICES ASSUME HandlerInv, Unread, Unbound, [Next]_vars,
                    loads' = 1, pc' \in {"parse", "tables", "types", "avps"}
             PROVE  AllUnbound'
  BY DEF Unbound
<1>1. ASSUME NEW doc \in Documents, Open(doc) PROVE AllUnbound'
  <2>1. loads = 0 /\ UNCHANGED avps
    BY <1>1 DEF Open, HandlerInv, TypeOK, tables
  <2>2. avps'.items = << >>
    BY <2>1 DEF Unread
  <2> QED  BY <2>2 DEF AllUnbound
<1>2. CASE Element
  <2>1. pc = "parse" /\ loads = 1
    BY <1>2 DEF Element, Start, AddApp, Vendor, Command, CommandRules, AvpRule, Avp, Type, Grouped, Enum,
                TypeDefn, Other
  <2> QED  BY <1>2, <2>1, ElementUnbound DEF Unbound
<1>3. CASE EndOfFile \/ ChainTypes \/ UNCHANGED vars
  <2>1. UNCHANGED <<avps, arrays, loads>> /\ pc \in {"parse", "tables", "types", "avps"}
    BY <1>3 DEF EndOfFile, ChainTypes, vars, tables
  <2> QED  BY <2>1 DEF Unbound, AllUnbound
<1>4. CASE BuildTables
  <2>1. pc = "tables" /\ loads = 1 /\ UNCHANGED avps
    BY <1>4 DEF BuildTables
  <2>2. AllUnbound
    BY <2>1 DEF Unbound
  <2>3. arrays' = [k \in DOMAIN arrays |->
                     IF \E i \in DOMAIN cmds.items : k \in {cmds.items[i].req_rules, cmds.items[i].ans_rules}
                     THEN Bind(arrays[k], avps) ELSE arrays[k]]
    BY <1>4 DEF BuildTables
  <2>4. ASSUME NEW i \in DOMAIN avps.items, avps.items[i].type_name = "grouped"
        PROVE  arrays'[avps.items[i].content] = arrays[avps.items[i].content]
    <3>1. avps.items[i].content \in DOMAIN arrays
      BY <2>4, GroupedContent
    <3>2. \A j \in DOMAIN cmds.items :
            avps.items[i].content \notin {cmds.items[j].req_rules, cmds.items[j].ans_rules}
      BY DEF HandlerInv, NoSharing
    <3> QED  BY <2>3, <3>1, <3>2
  <2> QED  BY <2>1, <2>2, <2>4 DEF AllUnbound
<1>5. CASE Fail \/ BuildCrash \/ BuildAvps \/ WalkUp \/ SetCodec
  BY <1>5 DEF Fail, BuildCrash, BuildAvps, WalkUp, SetCodec
<1> QED  BY <1>1, <1>2, <1>3, <1>4, <1>5 DEF Next, Build

(* Then all of them are bound, in the sorted table, each to an AVP of its  *)
(* name.                                                                   *)
LEMMA BuildAvpsBinds ==
  ASSUME HandlerInv, Listed, AllUnbound, BuildAvps
  PROVE  AllBound'
<1>1. PICK table \in Sorted(avps, Codes(avps)) : BuiltFrom(table)
  BY BuiltAvpsAre
<1>2. /\ table \in Table(AvpEntry) /\ table.block = avps.block
      /\ avps'.block = avps.block /\ avps' \in Table(AvpEntry)
      /\ DOMAIN table.items = DOMAIN avps.items /\ DOMAIN avps'.items = DOMAIN avps.items
  BY <1>1 DEF BuiltFrom
<1>3. \A n \in DOMAIN avps.items : \E i \in DOMAIN avps.items : table.items[n] = avps.items[i]
  BY <1>1 DEF BuiltFrom
<1>4. \A i \in DOMAIN avps.items :
        /\ avps'.items[i].content = table.items[i].content
        /\ avps'.items[i].type_name = table.items[i].type_name
        /\ avps'.items[i].name = table.items[i].name
  <2>1. \A i \in DOMAIN avps.items :
          /\ table.items[i] \in AvpEntry
          /\ avps'.items[i] = [table.items[i] EXCEPT !.type = TypeOf(table.items[i])]
    BY <1>1 DEF BuiltFrom
  <2> QED  BY <2>1 DEF AvpEntry
<1> DEFINE K == {k \in DOMAIN arrays : \E i \in DOMAIN table.items :
                   table.items[i].type_name = "grouped" /\ table.items[i].content = k}
<1>5. arrays' = [k \in DOMAIN arrays |-> IF k \in K THEN Bind(arrays[k], table) ELSE arrays[k]]
  BY <1>1 DEF BindGrouped, BuiltFrom
<1>6. K \in SUBSET RuleArrays
  BY <1>2, <1>3, GroupedContent
<1>7. Listed'
  BY ListedKept DEF Next, Build
<1> SUFFICES ASSUME NEW i \in DOMAIN avps.items, avps'.items[i].type_name = "grouped",
                    NEW r \in DOMAIN arrays'[avps'.items[i].content]
             PROVE  RuleBound(arrays[avps.items[i].content][r])'
  BY <1>2 DEF AllBound
<1> DEFINE c == avps'.items[i].content
           name == arrays[c][r].name
<1>8. PICK j \in DOMAIN avps.items : table.items[i] = avps.items[j]
  BY <1>3
<1>9. c = avps.items[j].content /\ avps.items[j].type_name = "grouped"
  BY <1>4, <1>8
<1>10. c \in RuleArrays /\ c \in DOMAIN arrays
  BY <1>9, GroupedContent
<1>11. c \in K
  BY <1>2, <1>4, <1>10
<1> HIDE DEF K, c
<1>12. /\ DOMAIN arrays'[c] = DOMAIN arrays[c]
       /\ \A s \in DOMAIN arrays[c] :
            /\ arrays'[c][s].name = arrays[c][s].name
            /\ arrays'[c][s].avp = IF arrays[c][s].avp # Null THEN arrays[c][s].avp
                                   ELSE FirstNamed(table, arrays[c][s].name)
  <2>1. \A k \in RuleArrays :
          /\ k \in DOMAIN arrays /\ DOMAIN arrays'[k] = DOMAIN arrays[k]
          /\ \A s \in DOMAIN arrays[k] :
               /\ arrays[k][s] \in Rule
               /\ arrays'[k][s] \in Rule /\ arrays'[k][s].name = arrays[k][s].name
               /\ k \notin K => arrays'[k][s] = arrays[k][s]
               /\ k \in K => arrays'[k][s].avp = IF arrays[k][s].avp # Null THEN arrays[k][s].avp
                                                 ELSE FirstNamed(table, arrays[k][s].name)
    BY <1>2, <1>5, <1>6, BoundArrays
  <2> QED  BY <1>10, <1>11, <2>1
<1>13. r \in DOMAIN arrays[c]
  BY <1>12 DEF c
<1>14. arrays[c][r].avp = Null
  BY <1>9, <1>13 DEF AllUnbound
<1>15. arrays'[c][r].avp = FirstNamed(table, name) /\ arrays'[c][r].name = name
  BY <1>12, <1>13, <1>14
<1> HIDE DEF name
<1>16. CASE /\ FirstNamed(table, name) = Null
            /\ \A n \in DOMAIN table.items : table.items[n].name # name
  <2>1. \A n \in DOMAIN avps'.items : avps'.items[n].name # name
    BY <1>2, <1>4, <1>16
  <2>2. \A k \in Declared("avp")' : seen'[k].name # name
    BY <1>7, <2>1 DEF Listed
  <2> QED  BY <1>15, <1>16, <2>2 DEF RuleBound, c
<1>17. CASE /\ FirstNamed(table, name) # Null
            /\ \E n \in DOMAIN table.items :
                 table.items[n].name = name /\ FirstNamed(table, name) = PointerTo(table, n)
  <2>1. PICK n \in DOMAIN table.items :
          table.items[n].name = name /\ FirstNamed(table, name) = PointerTo(table, n)
    BY <1>17
  <2>2. Live(avps', PointerTo(table, n)) /\ Deref(avps', PointerTo(table, n)).name = name
    BY <1>2, <1>4, <2>1 DEF Live, PointerTo, Deref
  <2> QED  BY <1>15, <1>17, <2>1, <2>2 DEF RuleBound, c
<1> QED  BY <1>2, <1>16, <1>17, FirstNamedOf

(* The AVPs do not move again in the first load.                           *)
LEMMA BoundKept == HandlerInv /\ Listed /\ Unread /\ Unbound /\ Bound /\ [Next]_vars => Bound'
<1> SUFFICES ASSUME HandlerInv, Listed, Unread, Unbound, Bound, [Next]_vars,
                    loads' = 1, pc' = "codecs" \/ Ready'
             PROVE  AllBound'
  BY DEF Bound, AllBound
<1>1. ASSUME NEW doc \in Documents, Open(doc) PROVE FALSE
  <2>1. loads = 0
    BY <1>1 DEF Open, HandlerInv, TypeOK
  <2> QED  BY <1>1, <2>1 DEF Open, Unread, Ready
<1>2. CASE Element
  BY <1>2 DEF Element, Start, AddApp, Vendor, Command, CommandRules, AvpRule, Avp, Type, Grouped, Enum,
              TypeDefn, Other, Ready
<1>3. CASE Fail \/ EndOfFile \/ BuildTables \/ ChainTypes \/ BuildCrash
  BY <1>3 DEF Fail, EndOfFile, BuildTables, ChainTypes, BuildCrash, Ready
<1>4. CASE BuildAvps
  <2>1. pc = "avps" /\ loads = 1
    BY <1>4 DEF BuildAvps
  <2>2. AllUnbound
    BY <2>1 DEF Unbound
  <2> QED  BY <1>4, <2>2, BuildAvpsBinds
<1>5. CASE WalkUp \/ SetCodec \/ UNCHANGED vars
  <2>1. UNCHANGED <<avps, arrays, loads, seen>> /\ (pc = "codecs" \/ Ready)
    BY <1>5 DEF WalkUp, SetCodec, vars, tables, Ready
  <2>2. AllBound
    BY <2>1 DEF Bound, AllBound
  <2>3. Declared("avp")' = Declared("avp") /\ seen' = seen /\ avps' = avps /\ arrays' = arrays
    BY <2>1 DEF Declared
  <2>4. \A rule : RuleBound(rule)' <=> RuleBound(rule)
    BY <2>3 DEF RuleBound, Live, Deref
  <2> QED  BY <2>2, <2>3, <2>4 DEF AllBound
<1> QED  BY <1>1, <1>2, <1>3, <1>4, <1>5 DEF Next, Build

(* After the first load each rule of a grouped AVP points to the AVP it    *)
(* names (dict.c:353, 217-220); NULL is left for undeclared names only.    *)
THEOREM GroupedRulesAreNamed == Spec => []GroupedRulesNamed
<1> DEFINE Inv == HandlerInv /\ Listed /\ Unread /\ Unbound /\ Bound
<1>1. Init => Inv
  BY InitHandler, ListedAtInit, UnreadAtInit
<1>2. Inv /\ [Next]_vars => Inv'
  BY NextKeepsHandler, ListedKept, UnreadKept, UnboundKept, BoundKept
<1>3. Inv => GroupedRulesNamed
  BY DEF Bound, AllBound, GroupedRulesNamed
<1> QED  BY <1>1, <1>2, <1>3, PTL DEF Spec
-----------------------------------------------------------------------------
(* What is declared depends on the elements read only.                     *)
LEMMA SeenStays ==
  ASSUME seen' = seen
  PROVE  /\ \A tag : Declared(tag)' = Declared(tag)
         /\ TypeNames' = TypeNames
         /\ \A n : ParentName(n)' = ParentName(n)
         /\ \A n : CodecOf(n)' = CodecOf(n)
<1>1. \A tag : Declared(tag)' = Declared(tag)
  BY DEF Declared
<1>2. TypeNames' = TypeNames
  BY <1>1 DEF TypeNames
<1>3. \A n : ParentName(n)' = ParentName(n)
  <2> SUFFICES ASSUME NEW n PROVE ParentName(n)' = ParentName(n)
    OBVIOUS
  <2>1. DeclarationsOf(n)' = DeclarationsOf(n)
    BY <1>1 DEF DeclarationsOf
  <2>2. ParentName(n) = IF n \in BaseNames \/ DeclarationsOf(n) = {} THEN NoName
                        ELSE seen[CHOOSE k \in DeclarationsOf(n) : \A j \in DeclarationsOf(n) : k <= j].parent
    BY DEF ParentName, DeclarationsOf
  <2>3. ParentName(n)' = IF n \in BaseNames \/ DeclarationsOf(n)' = {} THEN NoName
                         ELSE seen'[CHOOSE k \in DeclarationsOf(n)' : \A j \in DeclarationsOf(n)' : k <= j].parent
    BY DEF ParentName, DeclarationsOf
  <2> QED  BY <2>1, <2>2, <2>3
<1>4. \A c : Closed(c)' = Closed(c)
  BY <1>2, <1>3 DEF Closed
<1>5. \A n, c : HasCodec(n, c)' <=> HasCodec(n, c)
  BY <1>2, <1>4 DEF HasCodec
<1>6. \A n : CodecOf(n)' = CodecOf(n)
  <2>1. \A n : CodecOf(n)' = IF \E c \in Codecs : HasCodec(n, c)'
                             THEN CHOOSE c \in Codecs : HasCodec(n, c)' ELSE "UNKNOWN"
    BY DEF CodecOf
  <2>2. \A n : \A c, d \in Codecs : HasCodec(n, c)' /\ HasCodec(n, d)' => c = d
    BY <1>5, CodecIsUnique
  <2>3. ASSUME NEW n, NEW c \in Codecs, HasCodec(n, c)
        PROVE  CodecOf(n)' = c
    BY <1>5, <2>1, <2>2, <2>3
  <2>4. ASSUME NEW n, \A c \in Codecs : ~HasCodec(n, c)
        PROVE  CodecOf(n)' = "UNKNOWN"
    BY <1>5, <2>1, <2>4
  <2> QED  BY <2>3, <2>4, CodecOfIs
<1> QED  BY <1>1, <1>2, <1>3, <1>6

(* A base type has a codec.                                                *)
LEMMA BaseCodecIsKnown == \A n \in BaseNames : CodecOf(n) # "UNKNOWN"
BY CodecOfParent, BaseTypesAre DEF BaseNames

(* At the start the types are the base types.                              *)
LEMMA TypesAtInit == Init => DeclaredTypes /\ Linked /\ Walking /\ Exact /\ Typed
<1> SUFFICES ASSUME Init PROVE DeclaredTypes /\ Linked /\ Walking /\ Exact /\ Typed
  OBVIOUS
<1>1. Linked /\ Walking /\ Exact /\ Typed
  BY DEF Init, Linked, Walking, Exact, Typed, Ready
<1>2. types.items = BaseTypes /\ Declared("typedefn") = {}
  BY DEF Init, Declared
<1>3. TypeNames = BaseNames
  BY <1>2 DEF TypeNames
<1>4. \A n : ParentName(n) = NoName
  BY <1>2 DEF ParentName
<1>5. NoName \notin TypeNames /\ \A n \in TypeNames : \E i \in DOMAIN types.items : types.items[i].name = n
  BY <1>2, <1>3, BaseTypesAre DEF BaseNames
<1>6. ASSUME NEW i \in DOMAIN types.items
      PROVE  /\ types.items[i].name \in TypeNames
             /\ types.items[i].parent_name = ParentName(types.items[i].name)
             /\ types.items[i].codec = CodecOf(types.items[i].name)
             /\ types.items[i].parent = Null
  BY <1>2, <1>3, <1>4, <1>6, CodecOfParent, BaseTypesAre DEF BaseNames
<1>7. DeclaredTypes
  BY <1>5, <1>6 DEF DeclaredTypes
<1> QED  BY <1>1, <1>7

(* A type as DeclaredTypes has it.                                         *)
AsDeclared(type) ==
  /\ type.name \in TypeNames
  /\ type.parent_name = ParentName(type.name)
  /\ type.codec \in {"UNKNOWN", CodecOf(type.name)}
  /\ type.name \in BaseNames => type.codec = CodecOf(type.name)
  /\ type.parent # Null => type.parent_name \in TypeNames

(* A typedefn adds the type it declares, once.                             *)
LEMMA TypeDefnDeclares ==
  ASSUME HandlerInv, DeclaredTypes, TypeDefn
  PROVE  DeclaredTypes'
<1>0. PICK e \in Elements : e = Head(rest)
  BY ElementIsRead DEF HandlerInv, TypeDefn
<1> DEFINE type == NewType(e)
<1>1. /\ Start("typedefn") /\ e.el = "typedefn" /\ seen' = Append(seen, e)
      /\ seen \in Seq(Elements) /\ types \in Table(TypeEntry)
      /\ \/ FirstNamed(types, type.name) # Null /\ UNCHANGED types
         \/ FirstNamed(types, type.name) = Null /\ types' \in PushBack(types, type)
  BY <1>0, ElementIsRead DEF HandlerInv, Start, TypeDefn, AddAvpType, Shape
<1>2. e.name \in DOMAIN Rank \ {NoName}
  BY <1>0, <1>1, AtElement
<1>3. /\ type \in TypeEntry /\ type.parent = Null /\ type.name = e.name /\ type.codec = "UNKNOWN"
      /\ type.parent_name = e.parent
  <2>1. Null \in Pointer /\ "UNKNOWN" \in Codecs
    BY DEF Null, Pointer, Codecs
  <2>2. e.parent \in Names
    BY <1>1 DEF Elements
  <2> QED  BY <1>2, <2>1, <2>2 DEF TypeEntry, NewType
<1> HIDE DEF type
<1>4. /\ TypeNames' = TypeNames \cup {e.name}
      /\ \A n \in TypeNames : ParentName(n)' = ParentName(n)
      /\ e.name \notin TypeNames => ParentName(e.name)' = e.parent
  <2>1. seen \in Seq(Elements) /\ e \in Elements /\ seen' = Append(seen, e) /\ e.el = "typedefn"
    BY <1>1
  <2>2. TypeNames' = TypeNames \cup {e.name}
    BY <2>1, TypeNamesGrow
  <2>3. \A n \in TypeNames : ParentName(n)' = ParentName(n)
    BY <2>1, TypeNamesGrow
  <2>4. e.name \notin TypeNames => ParentName(e.name)' = e.parent
    BY <2>1, TypeNamesGrow
  <2> QED  BY <2>2, <2>3, <2>4
<1>5. \A n : CodecOf(n) # "UNKNOWN" => CodecOf(n)' = CodecOf(n)
  BY <1>1, CodecsStay
<1>6. /\ NoName \notin TypeNames
      /\ \A n \in TypeNames : \E i \in DOMAIN types.items : types.items[i].name = n
      /\ \A i \in DOMAIN types.items : AsDeclared(types.items[i])
  BY DEF DeclaredTypes, AsDeclared
<1>7. ASSUME NEW t, AsDeclared(t)
      PROVE  AsDeclared(t)'
  BY <1>4, <1>5, <1>7, BaseCodecIsKnown DEF AsDeclared
<1>8. NoName \notin TypeNames'
  BY <1>2, <1>4, <1>6
<1>9. CASE FirstNamed(types, type.name) # Null /\ UNCHANGED types
  <2>1. \E i \in DOMAIN types.items : types.items[i].name = e.name
    BY <1>1, <1>3, <1>9, FirstNamedOf
  <2>2. e.name \in TypeNames
    BY <1>6, <2>1 DEF AsDeclared
  <2>3. TypeNames' = TypeNames
    BY <1>4, <2>2
  <2>4. \A i \in DOMAIN types.items : AsDeclared(types.items[i])'
    BY <1>6, <1>7, <1>9 DEF AsDeclared
  <2> QED  BY <1>6, <1>8, <1>9, <2>3, <2>4 DEF DeclaredTypes, AsDeclared
<1>10. CASE FirstNamed(types, type.name) = Null /\ types' \in PushBack(types, type)
  <2>1. \A i \in DOMAIN types.items : types.items[i].name # e.name
    BY <1>1, <1>3, <1>10, FirstNamedOf
  <2>2. e.name \notin TypeNames
    BY <1>6, <2>1
  <2>3. /\ \A i \in DOMAIN types.items : i \in DOMAIN types'.items /\ types'.items[i] = types.items[i]
        /\ Len(types'.items) \in DOMAIN types'.items /\ types'.items[Len(types'.items)] = type
        /\ \A i \in DOMAIN types'.items : \/ i \in DOMAIN types.items /\ types'.items[i] = types.items[i]
                                          \/ types'.items[i] = type
    BY <1>1, <1>3, <1>10, PushBackAppends
  <2>4. e.name \notin BaseNames
    BY <2>2 DEF TypeNames
  <2>5. \A i \in DOMAIN types'.items : AsDeclared(types.items[i])'
    <3> SUFFICES ASSUME NEW i \in DOMAIN types'.items PROVE AsDeclared(types.items[i])'
      OBVIOUS
    <3>1. CASE i \in DOMAIN types.items /\ types'.items[i] = types.items[i]
      BY <1>6, <1>7, <3>1 DEF AsDeclared
    <3>2. CASE types'.items[i] = type
      <4>1. AsDeclared(type)'
        BY <1>3, <1>4, <2>2, <2>4 DEF AsDeclared
      <4> QED  BY <3>2, <4>1 DEF AsDeclared
    <3> QED  BY <2>3, <3>1, <3>2
  <2>6. \A n \in TypeNames' : \E i \in DOMAIN types'.items : types'.items[i].name = n
    BY <1>3, <1>4, <1>6, <2>3
  <2> QED  BY <1>8, <2>5, <2>6 DEF DeclaredTypes, AsDeclared
<1> QED  BY <1>1, <1>9, <1>10

(* The sort keeps the declared types, and each is linked to its parent,    *)
(* wherever the sort has put it.                                           *)
LEMMA ChainTypesLinks ==
  ASSUME HandlerInv, DeclaredTypes, ChainTypes
  PROVE  /\ DeclaredTypes' /\ Linked'
         /\ \A i \in DOMAIN types'.items : AsDeclared(types.items[i])'
<1>1. PICK table \in Sorted(types, Ranks(types)) : ChainedFrom(table)
  BY ChainedTypesAre
<1>2. types \in Table(TypeEntry) /\ Ranks(types) \in [DOMAIN types.items -> Int]
  BY KeysAreNumbers DEF HandlerInv, Shape
<1>3. /\ \A n \in DOMAIN types.items : \E i \in DOMAIN types.items : table.items[n] = types.items[i]
      /\ \A i \in DOMAIN types.items : \E n \in DOMAIN types.items : table.items[n] = types.items[i]
  BY <1>1, <1>2, SortedKeeps
<1>4. /\ table \in Table(TypeEntry) /\ types'.block = table.block
      /\ DOMAIN types'.items = DOMAIN table.items /\ DOMAIN table.items = DOMAIN types.items
      /\ \A i \in DOMAIN types.items :
           types'.items[i] = [table.items[i] EXCEPT !.parent = ParentIn(table, table.items[i])]
  BY <1>1 DEF ChainedFrom
<1>5. \A i \in DOMAIN types.items :
        /\ types'.items[i].name = table.items[i].name
        /\ types'.items[i].codec = table.items[i].codec
        /\ types'.items[i].parent_name = table.items[i].parent_name
        /\ types'.items[i].parent = ParentIn(table, table.items[i])
  <2>1. \A i \in DOMAIN types.items : table.items[i] \in TypeEntry
    BY <1>4 DEF Table
  <2> QED  BY <1>4, <2>1 DEF TypeEntry
<1>6. pc' = "avps" /\ seen' = seen
  BY DEF ChainTypes
<1>7. /\ TypeNames' = TypeNames
      /\ \A n : ParentName(n)' = ParentName(n)
      /\ \A n : CodecOf(n)' = CodecOf(n)
  BY <1>6, SeenStays
<1>8. /\ NoName \notin TypeNames
      /\ \A n \in TypeNames : \E i \in DOMAIN types.items : types.items[i].name = n
      /\ \A i \in DOMAIN types.items : AsDeclared(types.items[i])
  BY DEF DeclaredTypes, AsDeclared
<1>9. \A i \in DOMAIN types.items : AsDeclared(table.items[i])
  BY <1>3, <1>8
<1>10. \A n \in TypeNames : \E i \in DOMAIN types.items : table.items[i].name = n
  <2> SUFFICES ASSUME NEW n \in TypeNames PROVE \E i \in DOMAIN types.items : table.items[i].name = n
    OBVIOUS
  <2>1. PICK j \in DOMAIN types.items : types.items[j].name = n
    BY <1>8
  <2>2. PICK i \in DOMAIN types.items : table.items[i] = types.items[j]
    BY <1>3
  <2> QED  BY <2>1, <2>2
<1>11. ASSUME NEW i \in DOMAIN types.items
       PROVE  LET type == types'.items[i] IN
                IF type.parent_name \in TypeNames
                THEN Live(types', type.parent) /\ Deref(types', type.parent).name = type.parent_name
                ELSE type.parent = Null
  <2> DEFINE name == table.items[i].parent_name
  <2>1. types'.items[i].parent_name = name /\ types'.items[i].parent = ParentIn(table, table.items[i])
    BY <1>5
  <2> HIDE DEF name
  <2>2. CASE name \in TypeNames
    <3>1. FirstNamed(table, name) # Null
      BY <1>4, <1>10, <2>2, FirstNamedOf
    <3>2. PICK n \in DOMAIN table.items :
            table.items[n].name = name /\ FirstNamed(table, name) = PointerTo(table, n)
      BY <1>4, <3>1, FirstNamedOf
    <3>3. ParentIn(table, table.items[i]) = PointerTo(table, n)
      BY <1>8, <2>2, <3>1, <3>2 DEF ParentIn, name
    <3>4. Live(types', PointerTo(table, n)) /\ Deref(types', PointerTo(table, n)) = types'.items[n]
      BY <1>4, <3>2 DEF Live, PointerTo, Deref
    <3>5. types'.items[n].name = name
      BY <1>4, <1>5, <3>2
    <3> QED  BY <2>1, <2>2, <3>3, <3>4, <3>5
  <2>3. CASE name \notin TypeNames
    <3>1. \A n \in DOMAIN table.items : table.items[n].name # name
      BY <1>4, <1>9, <2>3 DEF AsDeclared
    <3>2. FirstNamed(table, name) = Null
      BY <1>4, <3>1, FirstNamedOf
    <3>3. ParentIn(table, table.items[i]) = table.items[i].parent
      BY <3>2 DEF ParentIn, name
    <3>4. table.items[i].parent = Null
      BY <1>9, <2>3 DEF AsDeclared, name
    <3> QED  BY <2>1, <2>3, <3>3, <3>4
  <2> QED  BY <2>2, <2>3
<1>12. Linked'
  BY <1>4, <1>6, <1>7, <1>11 DEF Linked
<1>13. \A i \in DOMAIN types'.items : AsDeclared(types.items[i])'
  <2> SUFFICES ASSUME NEW i \in DOMAIN types.items PROVE AsDeclared(types.items[i])'
    BY <1>4
  <2>1. AsDeclared(table.items[i])
    BY <1>9
  <2>2. types'.items[i].parent # Null => types'.items[i].parent_name \in TypeNames
    BY <1>11
  <2> QED  BY <1>5, <1>7, <2>1, <2>2 DEF AsDeclared
<1>14. \A n \in TypeNames' : \E i \in DOMAIN types'.items : types'.items[i].name = n
  BY <1>4, <1>5, <1>7, <1>10
<1>15. DeclaredTypes'
  BY <1>7, <1>8, <1>13, <1>14 DEF DeclaredTypes, AsDeclared
<1> QED  BY <1>12, <1>13, <1>15

(* The end of the walk up gives type i the codec of its name, whether the  *)
(* walk ended at a base type, at a type set before or at none.             *)
LEMMA SetCodecIsExact ==
  ASSUME HandlerInv, DeclaredTypes, Linked, Walking, SetCodec
  PROVE  DeclaredTypes' /\ Linked' /\ Walking' /\ Exact'
<1>1. /\ pc = "codecs" /\ seen' = seen
      /\ ~UnknownCodec(walk.curr)
      /\ \/ /\ walk.i < Len(types.items) /\ pc' = "codecs"
            /\ walk' = [i |-> walk.i + 1, curr |-> PointerTo(types, walk.i + 1)]
         \/ walk.i = Len(types.items) /\ pc' = "idle"
  BY DEF SetCodec
<1>2. types \in Table(TypeEntry) /\ walk \in [i : Nat, curr : Pointer]
  BY DEF HandlerInv, Shape
<1>3. /\ TypeNames' = TypeNames
      /\ \A n : ParentName(n)' = ParentName(n)
      /\ \A n : CodecOf(n)' = CodecOf(n)
  BY <1>1, SeenStays
<1>4. /\ types'.block = types.block
      /\ DOMAIN types'.items = DOMAIN types.items /\ Len(types'.items) = Len(types.items)
      /\ \A i \in DOMAIN types.items :
           \/ /\ walk.curr = Null \/ i # walk.i
              /\ types'.items[i] = types.items[i]
           \/ /\ walk.curr # Null /\ i = walk.i
              /\ types'.items[i] = [types.items[i] EXCEPT !.codec = Deref(types, walk.curr).codec]
  BY SetCodecSets
<1>5. /\ walk.i \in DOMAIN types.items
      /\ \A j \in 1 .. walk.i - 1 : types.items[j].codec = CodecOf(types.items[j].name)
      /\ walk.curr = Null => CodecOf(types.items[walk.i].name) = "UNKNOWN"
      /\ walk.curr # Null =>
           /\ Live(types, walk.curr)
           /\ CodecOf(Deref(types, walk.curr).name) = CodecOf(types.items[walk.i].name)
  BY <1>1 DEF Walking
<1>6. /\ NoName \notin TypeNames
      /\ \A n \in TypeNames : \E i \in DOMAIN types.items : types.items[i].name = n
      /\ \A i \in DOMAIN types.items : AsDeclared(types.items[i])
  BY DEF DeclaredTypes, AsDeclared
<1>7. \A i \in DOMAIN types.items :
        /\ types'.items[i].name = types.items[i].name
        /\ types'.items[i].parent_name = types.items[i].parent_name
        /\ types'.items[i].parent = types.items[i].parent
        /\ i # walk.i => types'.items[i].codec = types.items[i].codec
  <2>1. \A i \in DOMAIN types.items : types.items[i] \in TypeEntry
    BY <1>2 DEF Table
  <2> QED  BY <1>4, <2>1 DEF TypeEntry
<1>8. types'.items[walk.i].codec = CodecOf(types.items[walk.i].name)
  <2>1. CASE walk.curr = Null
    <3>1. types'.items[walk.i] = types.items[walk.i]
      BY <1>4, <1>5, <2>1
    <3>2. types.items[walk.i].codec \in {"UNKNOWN", CodecOf(types.items[walk.i].name)}
      BY <1>5, <1>6 DEF AsDeclared
    <3> QED  BY <1>5, <2>1, <3>1, <3>2
  <2>2. CASE walk.curr # Null
    <3>1. types'.items[walk.i].codec = Deref(types, walk.curr).codec
      <4>1. types.items[walk.i] \in TypeEntry
        BY <1>2, <1>5 DEF Table
      <4> QED  BY <1>4, <1>5, <2>2, <4>1 DEF TypeEntry
    <3>2. Deref(types, walk.curr).codec # "UNKNOWN"
      BY <1>1, <2>2 DEF UnknownCodec
    <3>3. AsDeclared(Deref(types, walk.curr))
      BY <1>5, <1>6, <2>2 DEF Live, Deref
    <3> QED  BY <1>5, <2>2, <3>1, <3>2, <3>3 DEF AsDeclared
  <2> QED  BY <2>1, <2>2
<1>9. DeclaredTypes'
  <2>1. \A i \in DOMAIN types'.items : AsDeclared(types.items[i])'
    <3> SUFFICES ASSUME NEW i \in DOMAIN types.items PROVE AsDeclared(types.items[i])'
      BY <1>4
    <3>1. AsDeclared(types.items[i])
      BY <1>6
    <3> QED  BY <1>3, <1>7, <1>8, <3>1 DEF AsDeclared
  <2>2. \A n \in TypeNames' : \E i \in DOMAIN types'.items : types'.items[i].name = n
    BY <1>3, <1>4, <1>6, <1>7
  <2> QED  BY <1>3, <1>6, <2>1, <2>2 DEF DeclaredTypes, AsDeclared
<1>10. ASSUME NEW p
       PROVE  /\ Live(types', p) <=> Live(types, p)
              /\ Live(types, p) => Deref(types', p).name = Deref(types, p).name
  BY <1>4, <1>7 DEF Live, Deref
<1>11. Linked'
  <2>1. ASSUME NEW i \in DOMAIN types'.items
        PROVE  LET type == types'.items[i] IN
                 IF type.parent_name \in TypeNames
                 THEN Live(types', type.parent) /\ Deref(types', type.parent).name = type.parent_name
                 ELSE type.parent = Null
    <3>1. i \in DOMAIN types.items
      BY <1>4
    <3>2. IF types.items[i].parent_name \in TypeNames
          THEN Live(types, types.items[i].parent)
               /\ Deref(types, types.items[i].parent).name = types.items[i].parent_name
          ELSE types.items[i].parent = Null
      BY <1>1, <3>1 DEF Linked
    <3>3. /\ Live(types', types.items[i].parent) <=> Live(types, types.items[i].parent)
          /\ Live(types, types.items[i].parent) =>
               Deref(types', types.items[i].parent).name = Deref(types, types.items[i].parent).name
      BY <1>10
    <3>4. types'.items[i].parent_name = types.items[i].parent_name
          /\ types'.items[i].parent = types.items[i].parent
      BY <1>7, <3>1
    <3> QED  BY <3>2, <3>3, <3>4
  <2> QED  BY <1>3, <2>1 DEF Linked
<1>12. \A j \in 1 .. walk.i : types'.items[j].codec = CodecOf(types'.items[j].name)
  <2>1. DOMAIN types.items = 1 .. Len(types.items) /\ Len(types.items) \in Nat
    BY <1>2 DEF Table
  <2>2. \A j \in 1 .. walk.i : j \in DOMAIN types.items /\ (j = walk.i \/ j \in 1 .. walk.i - 1)
    BY <1>2, <1>5, <2>1
  <2> QED  BY <1>5, <1>7, <1>8, <2>2
<1>13. Walking'
  <2> SUFFICES ASSUME walk.i < Len(types.items), pc' = "codecs",
                      walk' = [i |-> walk.i + 1, curr |-> PointerTo(types, walk.i + 1)]
               PROVE  Walking'
    BY <1>1 DEF Walking
  <2>1. walk'.i = walk.i + 1 /\ walk'.curr = PointerTo(types, walk.i + 1)
    OBVIOUS
  <2>2. walk.i + 1 \in DOMAIN types'.items /\ (walk.i + 1) - 1 = walk.i
    BY <1>2, <1>4 DEF Table
  <2>3. PointerTo(types, walk.i + 1) # Null
    BY <1>2 DEF PointerTo, Null, Table
  <2>4. Live(types', PointerTo(types, walk.i + 1))
        /\ Deref(types', PointerTo(types, walk.i + 1)) = types'.items[walk.i + 1]
    BY <1>4, <2>2 DEF Live, PointerTo, Deref
  <2>5. \A j \in 1 .. walk.i : types'.items[j].codec = CodecOf(types.items[j].name)'
    BY <1>3, <1>12
  <2> QED  BY <2>1, <2>2, <2>3, <2>4, <2>5 DEF Walking
<1>14. Exact'
  <2> SUFFICES ASSUME walk.i = Len(types.items), pc' = "idle", NEW i \in DOMAIN types'.items
               PROVE  types'.items[i].codec = CodecOf(types.items[i].name)'
    BY <1>1 DEF Exact, Ready
  <2>1. i \in 1 .. walk.i
    BY <1>2, <1>4 DEF Table
  <2> QED  BY <1>3, <1>12, <2>1
<1> QED  BY <1>9, <1>11, <1>13, <1>14

(* One type further up the codec is the same.                              *)
LEMMA WalkUpWalks ==
  ASSUME HandlerInv, DeclaredTypes, Linked, Walking, WalkUp
  PROVE  Walking'
<1>1. /\ pc = "codecs" /\ UnknownCodec(walk.curr) /\ UNCHANGED <<types, seen>>
      /\ walk' = [walk EXCEPT !.curr = Deref(types, walk.curr).parent]
  BY DEF WalkUp, tables
<1>2. types \in Table(TypeEntry) /\ walk \in [i : Nat, curr : Pointer]
  BY DEF HandlerInv, Shape
<1>3. /\ walk.i \in DOMAIN types.items
      /\ \A j \in 1 .. walk.i - 1 : types.items[j].codec = CodecOf(types.items[j].name)
      /\ walk.curr # Null =>
           /\ Live(types, walk.curr)
           /\ CodecOf(Deref(types, walk.curr).name) = CodecOf(types.items[walk.i].name)
  BY <1>1 DEF Walking
<1>4. walk'.i = walk.i /\ walk'.curr = Deref(types, walk.curr).parent
  BY <1>1, <1>2
<1>5. PICK k \in DOMAIN types.items : Deref(types, walk.curr) = types.items[k]
  BY <1>1, <1>3 DEF UnknownCodec, Live, Deref
<1> DEFINE type == types.items[k]
<1>6. type.codec = "UNKNOWN" /\ CodecOf(type.name) = CodecOf(types.items[walk.i].name)
  BY <1>1, <1>3, <1>5 DEF UnknownCodec
<1>7. AsDeclared(type)
  BY DEF DeclaredTypes, AsDeclared
<1>8. IF type.parent_name \in TypeNames
      THEN Live(types, type.parent) /\ Deref(types, type.parent).name = type.parent_name
      ELSE type.parent = Null
  BY <1>1 DEF Linked
<1> HIDE DEF type
<1>9. type.name \in Derived /\ type.parent_name = ParentName(type.name)
  BY <1>6, <1>7, BaseCodecIsKnown DEF AsDeclared, Derived
<1>10. CodecOf(type.name) = CodecOf(type.parent_name)
  BY <1>9, CodecOfParent
<1>11. walk'.curr = type.parent
  BY <1>4, <1>5 DEF type
<1>12. walk'.curr = Null => CodecOf(types.items[walk.i].name) = "UNKNOWN"
  <2> SUFFICES ASSUME walk'.curr = Null PROVE CodecOf(type.name) = "UNKNOWN"
    BY <1>6
  <2>1. ~Live(types, Null)
    BY <1>2 DEF Live, Null, Table
  <2>2. type.parent_name \notin TypeNames
    BY <1>8, <1>11, <2>1
  <2> QED  BY <1>10, <2>2, CodecOfParent
<1>13. walk'.curr # Null =>
         /\ Live(types, walk'.curr)
         /\ CodecOf(Deref(types, walk'.curr).name) = CodecOf(types.items[walk.i].name)
  BY <1>6, <1>8, <1>10, <1>11
<1>14. \A n : CodecOf(n)' = CodecOf(n)
  BY <1>1, SeenStays
<1>15. types' = types
  BY <1>1
<1> HIDE DEF type
<1> QED  BY <1>3, <1>4, <1>12, <1>13, <1>14, <1>15 DEF Walking

(* Each AVP is joined to the type it names, and the loop over the types    *)
(* begins.                                                                 *)
LEMMA BuildAvpsTypes ==
  ASSUME HandlerInv, DeclaredTypes, BuildAvps
  PROVE  Walking' /\ Typed'
<1>1. PICK table \in Sorted(avps, Codes(avps)) : BuiltFrom(table)
  BY BuiltAvpsAre
<1>2. pc' = "codecs" /\ walk' = [i |-> 1, curr |-> PointerTo(types, 1)] /\ UNCHANGED <<types, seen>>
  BY DEF BuildAvps
<1>3. types \in Table(TypeEntry) /\ types.items # << >>
  BY DEF HandlerInv, Shape
<1>4. 1 \in DOMAIN types.items /\ types.block \in Nat
  BY <1>3 DEF Table
<1>5. /\ TypeNames' = TypeNames
      /\ \A n : CodecOf(n)' = CodecOf(n)
  BY <1>2, SeenStays
<1>6. Walking'
  <2>1. walk'.i = 1 /\ walk'.curr = PointerTo(types, 1) /\ types' = types
    BY <1>2
  <2>2. PointerTo(types, 1) # Null /\ Live(types, PointerTo(types, 1))
        /\ Deref(types, PointerTo(types, 1)) = types.items[1]
    BY <1>4 DEF PointerTo, Null, Live, Deref
  <2>3. 1 .. 1 - 1 = {}
    OBVIOUS
  <2> QED  BY <1>4, <2>1, <2>2, <2>3 DEF Walking
<1>7. \A i \in DOMAIN avps.items :
        /\ avps'.items[i].type_name = table.items[i].type_name
        /\ avps'.items[i].type = TypeOf(table.items[i])
  <2>1. \A i \in DOMAIN avps.items :
          /\ table.items[i] \in AvpEntry
          /\ avps'.items[i] = [table.items[i] EXCEPT !.type = TypeOf(table.items[i])]
    BY <1>1 DEF BuiltFrom
  <2> QED  BY <2>1 DEF AvpEntry
<1>8. DOMAIN avps'.items = DOMAIN avps.items
  BY <1>1 DEF BuiltFrom
<1>9. ASSUME NEW i \in DOMAIN avps.items, table.items[i].type_name \in TypeNames
      PROVE  /\ Live(types, TypeOf(table.items[i]))
             /\ Deref(types, TypeOf(table.items[i])).name = table.items[i].type_name
  <2> DEFINE name == table.items[i].type_name
  <2>1. \E n \in DOMAIN types.items : types.items[n].name = name
    BY <1>9 DEF DeclaredTypes
  <2>2. TypeOf(table.items[i]) = IF FirstNamed(types, name) # Null THEN FirstNamed(types, name)
                                 ELSE TypeOf(table.items[i])
    BY DEF TypeOf
  <2> HIDE DEF name
  <2>3. FirstNamed(types, name) # Null
    BY <1>3, <2>1, FirstNamedOf
  <2>4. PICK n \in DOMAIN types.items :
          types.items[n].name = name /\ FirstNamed(types, name) = PointerTo(types, n)
    BY <1>3, <2>3, FirstNamedOf
  <2>5. Live(types, PointerTo(types, n)) /\ Deref(types, PointerTo(types, n)) = types.items[n]
    BY <2>4 DEF Live, PointerTo, Deref
  <2> QED  BY <2>2, <2>3, <2>4, <2>5 DEF name
<1>10. Typed'
  BY <1>2, <1>5, <1>7, <1>8, <1>9 DEF Typed
<1> QED  BY <1>6, <1>10

(* Elements keep the types as declared.                                    *)
LEMMA ElementDeclares ==
  ASSUME HandlerInv, DeclaredTypes, Element
  PROVE  DeclaredTypes'
<1>1. ASSUME NEW tag, tag # "typedefn", Start(tag), UNCHANGED types
      PROVE  DeclaredTypes'
  <2>0. PICK e \in Elements : e = Head(rest)
    BY <1>1, ElementIsRead DEF HandlerInv
  <2>1. e.el # "typedefn" /\ seen \in Seq(Elements) /\ seen' = Append(seen, e)
    BY <1>1, <2>0, ElementIsRead DEF HandlerInv, Shape
  <2>2. TypeNames' = TypeNames /\ \A n : ParentName(n)' = ParentName(n)
    BY <2>1, TypeNamesGrow
  <2>3. \A n : CodecOf(n)' = CodecOf(n)
    BY <2>1, CodecsStay
  <2> QED  BY <1>1, <2>2, <2>3 DEF DeclaredTypes
<1>2. CASE TypeDefn
  BY <1>2, TypeDefnDeclares
<1>3. ASSUME NEW tag \in {"base", "application"}, AddApp(tag) PROVE DeclaredTypes'
  BY <1>1, <1>3 DEF AddApp
<1>4. CASE Vendor \/ Command \/ AvpRule \/ Avp \/ Type \/ Grouped \/ Enum
  <2>1. \E tag \in {"vendor", "command", "avprule", "avp", "type", "grouped", "enum"} :
          Start(tag) /\ UNCHANGED types
    BY <1>4 DEF Vendor, Command, AvpRule, Avp, Type, Grouped, Enum
  <2> QED  BY <1>1, <2>1
<1>5. CASE CommandRules \/ Other
  <2>1. \E tag \in {"requestrules", "answerrules", "section", "other"} : Start(tag) /\ UNCHANGED types
    BY <1>5 DEF CommandRules, Other, tables
  <2> QED  BY <1>1, <2>1
<1> QED  BY <1>2, <1>3, <1>4, <1>5 DEF Element

(* The inductive invariant of the types, next to HandlerInv.               *)
TypesInv == DeclaredTypes /\ Linked /\ Walking /\ Exact /\ Typed

(* Every step keeps it.                                                    *)
LEMMA TypesKept == HandlerInv /\ TypesInv /\ [Next]_vars => TypesInv'
<1> SUFFICES ASSUME HandlerInv, TypesInv, [Next]_vars PROVE TypesInv'
  OBVIOUS
<1> USE DEF TypesInv
<1>1. ASSUME UNCHANGED <<types, seen>> PROVE DeclaredTypes'
  BY <1>1, SeenStays DEF DeclaredTypes
<1>2. ASSUME pc' \notin {"avps", "codecs"}, ~Ready' PROVE Linked' /\ Walking' /\ Exact' /\ Typed'
  BY <1>2 DEF Linked, Walking, Exact, Typed
<1>3. ASSUME NEW doc \in Documents, Open(doc) PROVE TypesInv'
  <2>1. UNCHANGED <<types, seen>> /\ pc' \notin {"avps", "codecs"}
    BY <1>3 DEF Open, tables
  <2>2. ~Ready'
    BY <1>3 DEF Open, Ready
  <2> QED  BY <1>1, <1>2, <2>1, <2>2
<1>4. CASE Fail \/ EndOfFile
  <2>1. UNCHANGED <<types, seen>> /\ pc' \notin {"avps", "codecs"} /\ ~Ready'
    BY <1>4 DEF Fail, EndOfFile, tables, Ready
  <2> QED  BY <1>1, <1>2, <2>1
<1>5. CASE BuildTables \/ BuildCrash
  <2>1. UNCHANGED <<types, seen>> /\ pc' \notin {"avps", "codecs"} /\ ~Ready'
    BY <1>5 DEF BuildTables, BuildCrash, tables, Ready
  <2> QED  BY <1>1, <1>2, <2>1
<1>6. CASE Element
  <2>1. pc' = "parse"
    BY <1>6 DEF Element, Start, AddApp, Vendor, Command, CommandRules, AvpRule, Avp, Type, Grouped, Enum,
                TypeDefn, Other
  <2> QED  BY <1>2, <1>6, <2>1, ElementDeclares DEF Ready
<1>7. CASE ChainTypes
  <2>1. pc' = "avps"
    BY <1>7 DEF ChainTypes
  <2>2. Walking' /\ Exact' /\ Typed'
    BY <2>1 DEF Walking, Exact, Typed, Ready
  <2> QED  BY <1>7, <2>2, ChainTypesLinks
<1>8. CASE BuildAvps
  <2>1. pc = "avps" /\ pc' = "codecs" /\ UNCHANGED <<types, seen>>
    BY <1>8 DEF BuildAvps
  <2>2. Linked'
    BY <2>1, SeenStays DEF Linked
  <2>3. Exact'
    BY <2>1 DEF Exact, Ready
  <2> QED  BY <1>1, <1>8, <2>1, <2>2, <2>3, BuildAvpsTypes
<1>9. CASE WalkUp
  <2>1. pc = "codecs" /\ pc' = "codecs" /\ UNCHANGED <<types, avps, seen>>
    BY <1>9 DEF WalkUp, tables
  <2>2. Linked'
    BY <2>1, SeenStays DEF Linked
  <2>3. Typed'
    BY <2>1, SeenStays DEF Typed
  <2>4. Exact'
    BY <2>1 DEF Exact, Ready
  <2> QED  BY <1>1, <1>9, <2>1, <2>2, <2>3, <2>4, WalkUpWalks
<1>10. CASE SetCodec
  <2>1. pc = "codecs" /\ UNCHANGED <<avps, seen>>
    BY <1>10 DEF SetCodec
  <2>2. /\ types'.block = types.block /\ DOMAIN types'.items = DOMAIN types.items
        /\ \A i \in DOMAIN types.items : types'.items[i].name = types.items[i].name
    <3>1. /\ types'.block = types.block /\ DOMAIN types'.items = DOMAIN types.items
          /\ \A i \in DOMAIN types.items :
               \/ types'.items[i] = types.items[i]
               \/ types'.items[i] = [types.items[i] EXCEPT !.codec = Deref(types, walk.curr).codec]
      BY <1>10, SetCodecSets
    <3>2. types \in Table(TypeEntry)
      BY DEF HandlerInv, Shape
    <3>3. \A i \in DOMAIN types.items : types.items[i] \in TypeEntry
      BY <3>2 DEF Table
    <3> QED  BY <3>1, <3>3 DEF TypeEntry
  <2>3. TypeNames' = TypeNames
    BY <2>1, SeenStays
  <2>4. ASSUME NEW p
        PROVE  /\ Live(types', p) <=> Live(types, p)
               /\ Live(types, p) => Deref(types', p).name = Deref(types, p).name
    BY <2>2 DEF Live, Deref
  <2>5. ASSUME NEW i \in DOMAIN avps.items, avps.items[i].type_name \in TypeNames
        PROVE  /\ Live(types', avps.items[i].type)
               /\ Deref(types', avps.items[i].type).name = avps.items[i].type_name
    BY <2>1, <2>4, <2>5 DEF Typed
  <2>6. Typed'
    BY <2>1, <2>3, <2>5 DEF Typed
  <2> QED  BY <1>10, <2>6, SetCodecIsExact
<1>11. CASE UNCHANGED vars
  <2>1. UNCHANGED <<pc, status, types, avps, seen, walk>>
    BY <1>11 DEF vars, tables
  <2>2. TypeNames' = TypeNames /\ \A n : CodecOf(n)' = CodecOf(n)
    BY <2>1, SeenStays
  <2>3. Linked'
    BY <2>1, <2>2 DEF Linked
  <2>4. Walking'
    BY <2>1, <2>2 DEF Walking
  <2>5. Exact'
    BY <2>1, <2>2 DEF Exact, Ready
  <2>6. Typed'
    BY <2>1, <2>2 DEF Typed, Ready
  <2> QED  BY <1>1, <2>1, <2>3, <2>4, <2>5, <2>6
<1> QED  BY <1>3, <1>4, <1>5, <1>6, <1>7, <1>8, <1>9, <1>10, <1>11 DEF Next, Build

(* With it and the list of AVPs, dict_get_avp finds the declared code and  *)
(* a codec that is the declared one.                                       *)
LEMMA LookupFinds ==
  ASSUME HandlerInv, Listed, TypesInv
  PROVE  LookupDecodes
<1> SUFFICES ASSUME Ready, NEW k \in Declared("avp")
             PROVE  LET p == GetAvp(seen[k].code, 0)
                        avp == Deref(avps, p)
                    IN /\ p # Null
                       /\ avp.type_name \in TypeNames =>
                            /\ Live(types, avp.type)
                            /\ Deref(types, avp.type).name = avp.type_name
                            /\ Deref(types, avp.type).codec = CodecOf(avp.type_name)
  BY DEF LookupDecodes
<1> DEFINE slots == {i \in DOMAIN avps.items :
                       avps.items[i].code = seen[k].code /\ avps.items[i].vendor_id = 0}
           p == GetAvp(seen[k].code, 0)
<1>1. avps \in Table(AvpEntry) /\ \A i \in DOMAIN avps.items : avps.items[i].vendor_id = 0
  <2>1. avps \in Table(AvpEntry)
    BY DEF HandlerInv, Shape
  <2>2. \A i \in DOMAIN avps.items : avps.items[i] \in AvpEntry
    BY <2>1 DEF Table
  <2> QED  BY <2>1, <2>2 DEF AvpEntry
<1>2. PICK i \in DOMAIN avps.items : avps.items[i].code = seen[k].code
  BY DEF Listed
<1>3. slots # {} /\ slots \in SUBSET DOMAIN avps.items
  BY <1>1, <1>2
<1>4. p = First(avps, slots)
  BY DEF GetAvp
<1> HIDE DEF slots, p
<1>5. p # Null /\ \E n \in DOMAIN avps.items : p = PointerTo(avps, n)
  BY <1>1, <1>3, <1>4, FirstOf
<1>6. PICK n \in DOMAIN avps.items : Deref(avps, p) = avps.items[n]
  BY <1>5 DEF PointerTo, Deref
<1>7. ASSUME avps.items[n].type_name \in TypeNames
      PROVE  /\ Live(types, avps.items[n].type)
             /\ Deref(types, avps.items[n].type).name = avps.items[n].type_name
             /\ Deref(types, avps.items[n].type).codec = CodecOf(avps.items[n].type_name)
  <2>1. /\ Live(types, avps.items[n].type)
        /\ Deref(types, avps.items[n].type).name = avps.items[n].type_name
    BY <1>7 DEF TypesInv, Typed
  <2>2. \A t \in DOMAIN types.items : types.items[t].codec = CodecOf(types.items[t].name)
    BY DEF TypesInv, Exact
  <2> QED  BY <2>1, <2>2 DEF Live, Deref
<1> QED  BY <1>5, <1>6, <1>7 DEF p

(* After a load dict_get_avp finds an AVP for every declared code, and its *)
(* type pointer leads avp_decode to the codec its type name stands for.    *)
THEOREM LookupIsRight == Spec => []LookupDecodes
<1> DEFINE Inv == HandlerInv /\ Listed /\ TypesInv
<1>1. Init => Inv
  BY InitHandler, ListedAtInit, TypesAtInit DEF TypesInv
<1>2. Inv /\ [Next]_vars => Inv'
  BY NextKeepsHandler, ListedKept, TypesKept
<1>3. Inv => LookupDecodes
  BY LookupFinds
<1> QED  BY <1>1, <1>2, <1>3, PTL DEF Spec
=============================================================================
