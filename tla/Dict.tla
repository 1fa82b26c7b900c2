-------------------------------- MODULE Dict --------------------------------
(***************************************************************************)
(* dict.c on the growing arrays of array.c: the expat handler that fills   *)
(* the tables in document order, and dict_build, which sorts them and      *)
(* joins them with pointers into one another.                              *)
(*                                                                         *)
(* A pointer into an array is the block its data was in and a slot.  A     *)
(* push on a full array may move the data to another block, and a sort     *)
(* moves the elements under the pointers.  Arrays held by a command or an  *)
(* AVP (rules, enums) are reached through their array_t, which never       *)
(* moves: they live in one sequence, "arrays".  Names stand for strings.   *)
(* Left out, because no step depends on them: descriptions, flags, rule    *)
(* positions and bounds, application names, the path of open elements, and *)
(* avp.app, which nothing reads.                                           *)
(***************************************************************************)
EXTENDS Integers, Sequences, FiniteSets

CONSTANTS
  Names,        \* the strings of the files
  Documents,    \* the dictionary files, as the elements expat reports
  Rank,         \* of a type name, in the order of strcmp
  InitialSize,  \* ARRAY_INITIAL_SIZE: 4
  MaxLoads      \* bound: calls of dict_add_dict

NoName == ""  \* a NULL string

Tags == {"base", "application", "vendor", "command", "requestrules",
         "answerrules", "grouped", "avprule", "avp", "type", "enum",
         "typedefn", "section", "other"}

Codecs == {"GROUPED", "OCTETSTRING", "INTEGER32", "INTEGER64", "UNSIGNED32",
           "UNSIGNED64", "FLOAT32", "FLOAT64", "UNKNOWN"}

(* Codes are below 2^31: the differences of cmp_avp do not wrap.           *)
Code == 0 .. 2^30 + (2^30 - 1)

(* An element with the attributes the handler keeps; "section" stands for  *)
(* fixed, required and optional, which only group the rules in them.       *)
Elements == [el : Tags, name : Names, code : Code, parent : Names]

(* Element k lies in the last element tag before it, with only elements in *)
(* tags between the two.                                                   *)
Within(doc, k, tag, tags) ==
  \E j \in 1 .. k : doc[j].el = tag /\ \A m \in j + 1 .. k : doc[m].el \in tags

InCommand(doc, k) == Within(doc, k, "command", {"requestrules", "section", "avprule"})

InRules(doc, k) ==
  \E tag \in {"requestrules", "answerrules", "grouped"} :
    Within(doc, k, tag, {"section", "avprule"})

(* The types dict_build_base_types declares, in its order.                 *)
BaseTypes ==
  LET base(name, codec) ==
        [name |-> name, codec |-> codec, parent_name |-> NoName,
         parent |-> [block |-> -1, slot |-> 0]]
  IN << base("Grouped", "GROUPED"), base("OctetString", "OCTETSTRING"),
        base("Integer32", "INTEGER32"), base("Integer32", "INTEGER32"),
        base("Unsigned32", "UNSIGNED32"), base("Unsigned64", "UNSIGNED64"),
        base("Float32", "FLOAT32"), base("Float64", "FLOAT64") >>

(* The shape of dictionary.xml, that dict.c relies on and does not test:   *)
(* element k is where the handler can take it, and has a name if its kind  *)
(* has one.                                                                *)
Fits(doc, k) ==
  LET el == doc[k].el
      previous == IF k = 1 THEN "other" ELSE doc[k - 1].el
  IN /\ el \in {"type", "grouped"} => previous = "avp"
     /\ el = "enum" => previous \in {"type", "enum"}
     /\ el = "requestrules" => previous = "command"
     /\ el = "answerrules" => InCommand(doc, k - 1)
     /\ el \in {"section", "avprule"} => InRules(doc, k - 1)
     /\ previous = "avp" => el \in {"type", "grouped"}
     /\ el \in {"command", "avprule", "avp", "type", "typedefn"} => doc[k].name # NoName
     /\ el = "type" => doc[k].name # "grouped"
     /\ el = "typedefn" => doc[k].name \in DOMAIN Rank

ASSUME DictAssumption ==
  /\ {NoName, "grouped"} \subseteq Names
  /\ \A n, m \in DOMAIN Rank : Rank[n] \in Int /\ (Rank[n] = Rank[m] => n = m)
  /\ \A k \in DOMAIN BaseTypes : BaseTypes[k].name \in DOMAIN Rank
  /\ InitialSize \in Nat \ {0}
  /\ MaxLoads \in Nat
  /\ Documents # {}
  /\ \A doc \in Documents :
       /\ doc \in Seq(Elements)
       /\ \A k \in DOMAIN doc : Fits(doc, k)
       /\ doc # << >> => doc[Len(doc)].el # "avp"

VARIABLES
  pc,       \* "idle" outside dict_add_dict, "dead" after an abort
  status,   \* "new", or how the last dict_add_dict ended
  loads,    \* calls of dict_add_dict so far
  rest,     \* elements of the file that expat has not reported yet
  seen,     \* elements reported so far, over all files
  apps, vendors, cmds, avps, types,  \* the tables of dict_t
  arrays,   \* the contents of the rule and enum arrays
  curr,     \* curr_cmd, curr_avp and curr_rules of xml_parse_info_t
  walk      \* dict_build's i and curr while it sets the codecs

tables == <<apps, vendors, cmds, avps, types, arrays>>
vars == <<pc, status, loads, rest, seen, tables, curr, walk>>
-----------------------------------------------------------------------------
(* array.c                                                                 *)
Null == [block |-> -1, slot |-> 0]

NewArray == [block |-> 0, items |-> << >>]

(* The size has reached the capacity, which starts at InitialSize and      *)
(* doubles.                                                                *)
Full(arr) ==
  \E k \in 0 .. Len(arr.items) : Len(arr.items) = InitialSize * 2^k

(* What array_push_back can leave: realloc may or may not move the data.   *)
PushBack(arr, elem) ==
  {[block |-> b, items |-> Append(arr.items, elem)] :
     b \in IF Full(arr) THEN {arr.block, arr.block + 1} ELSE {arr.block}}

(* array_at, from 1.                                                       *)
PointerTo(arr, slot) == [block |-> arr.block, slot |-> slot]

(* Fault for mutation: the size is taken for the last slot.                *)
BackPast(arr) == PointerTo(arr, Len(arr.items) + 1)

(* array_back.                                                             *)
Back(arr) == PointerTo(arr, Len(arr.items))

Live(arr, p) == p.block = arr.block /\ p.slot \in DOMAIN arr.items

Deref(arr, p) == arr.items[p.slot]

(* A store through p; a stale pointer reaches memory of nobody.            *)
Store(arr, p, elem) ==
  IF Live(arr, p) THEN [arr EXCEPT !.items[p.slot] = elem] ELSE arr

(* What array_sort can leave, by the keys cmp compares: qsort is not       *)
(* stable, so equal elements may come in any order.                        *)
Tied(key) ==
  {pair \in (DOMAIN key) \X (DOMAIN key) : pair[1] < pair[2] /\ key[pair[1]] = key[pair[2]]}

Precedes(key, swapped, j, i) ==
  \/ key[j] < key[i]
  \/ key[j] = key[i] /\ j < i /\ <<j, i>> \notin swapped
  \/ key[j] = key[i] /\ i < j /\ <<i, j>> \in swapped

Places(key, swapped) ==
  [i \in DOMAIN key |-> Cardinality({j \in DOMAIN key : Precedes(key, swapped, j, i)}) + 1]

Arranged(arr, place) ==
  [arr EXCEPT !.items =
     [n \in DOMAIN place |-> arr.items[CHOOSE i \in DOMAIN place : place[i] = n]]]

Sorted(arr, key) ==
  {Arranged(arr, place) :
     place \in {p \in {Places(key, swapped) : swapped \in SUBSET Tied(key)} :
                  \A i, j \in DOMAIN p : p[i] = p[j] => i = j}}

Codes(arr) == [i \in DOMAIN arr.items |-> arr.items[i].code]
Ids(arr) == [i \in DOMAIN arr.items |-> arr.items[i].id]
Ranks(arr) == [i \in DOMAIN arr.items |-> Rank[arr.items[i].name]]

(* The first of the elements at the given slots, NULL if there is none.    *)
First(arr, slots) ==
  IF slots = {} THEN Null
  ELSE PointerTo(arr, CHOOSE i \in slots : \A j \in slots : i <= j)

FirstNamed(arr, name) == First(arr, {i \in DOMAIN arr.items : arr.items[i].name = name})
-----------------------------------------------------------------------------
Init ==
  /\ pc = "idle"
  /\ status = "new"
  /\ loads = 0
  /\ rest = << >>
  /\ seen = << >>
  /\ apps = NewArray
  /\ vendors = NewArray
  /\ cmds = NewArray
  /\ avps = NewArray
  /\ types = [block |-> 0, items |-> BaseTypes]
  /\ arrays = << >>
  /\ curr = [cmd |-> Null, avp |-> Null, rules |-> 0]
  /\ walk = [i |-> 0, curr |-> Null]

(* dict_add_dict begins.  array_init tests and frees the uninitialised     *)
(* path.data, which may abort; the file may not open.                      *)
Open(doc) ==
  /\ pc = "idle"
  /\ loads < MaxLoads
  /\ loads' = loads + 1
  /\ curr' = [cmd |-> Null, avp |-> Null, rules |-> 0]
  /\ \/ pc' = "parse" /\ status' = "loading" /\ rest' = doc
     \/ pc' = "idle" /\ status' = "error" /\ UNCHANGED rest
     \/ pc' = "dead" /\ UNCHANGED <<status, rest>>
  /\ UNCHANGED <<seen, tables, walk>>

(* A read or parse error, after any element: no dict_build.                *)
Fail ==
  /\ pc = "parse"
  /\ pc' = "idle"
  /\ status' = "error"
  /\ rest' = << >>
  /\ UNCHANGED <<loads, seen, tables, curr, walk>>

EndOfFile ==
  /\ pc = "parse"
  /\ rest = << >>
  /\ pc' = "tables"
  /\ UNCHANGED <<status, loads, rest, seen, tables, curr, walk>>
-----------------------------------------------------------------------------
(* xml_elem_start, one action for each element it knows.                   *)
Start(tag) ==
  /\ pc = "parse"
  /\ rest # << >>
  /\ Head(rest).el = tag
  /\ rest' = Tail(rest)
  /\ seen' = Append(seen, Head(rest))
  /\ UNCHANGED <<pc, status, loads, walk>>

AddApp(tag) ==
  /\ Start(tag)
  /\ apps' \in PushBack(apps, [id |-> IF tag = "base" THEN 0 ELSE Head(rest).code])
  /\ UNCHANGED <<vendors, cmds, avps, types, arrays, curr>>

Vendor ==
  /\ Start("vendor")
  /\ vendors' \in PushBack(vendors, [id |-> Head(rest).code])
  /\ UNCHANGED <<apps, cmds, avps, types, arrays, curr>>

(* Two new rule arrays, and curr_cmd on the command in the table.          *)
Command ==
  /\ Start("command")
  /\ arrays' = arrays \o << << >>, << >> >>
  /\ cmds' \in PushBack(cmds, [name |-> Head(rest).name, code |-> Head(rest).code,
                               req_rules |-> Len(arrays) + 1,
                               ans_rules |-> Len(arrays) + 2])
  /\ curr' = [curr EXCEPT !.cmd = Back(cmds')]
  /\ UNCHANGED <<apps, vendors, avps, types>>

CommandRules ==
  /\ \/ /\ Start("requestrules")
        /\ curr' = [curr EXCEPT !.rules = Deref(cmds, curr.cmd).req_rules]
     \/ /\ Start("answerrules")
        /\ curr' = [curr EXCEPT !.rules = Deref(cmds, curr.cmd).ans_rules]
  /\ UNCHANGED tables

AvpRule ==
  /\ Start("avprule")
  /\ arrays' = [arrays EXCEPT ![curr.rules] =
                  Append(@, [name |-> Head(rest).name, avp |-> Null])]
  /\ UNCHANGED <<apps, vendors, cmds, avps, types, curr>>

(* content 0 is the NULL union; vendor_id stays what memset made it.       *)
NewAvp(e) ==
  [name |-> e.name, code |-> e.code, vendor_id |-> 0, type_name |-> NoName,
   type |-> Null, content |-> 0]

Avp ==
  /\ Start("avp")
  /\ avps' \in PushBack(avps, NewAvp(Head(rest)))
  /\ curr' = [curr EXCEPT !.avp = Back(avps')]
  /\ UNCHANGED <<apps, vendors, cmds, types, arrays>>

Type ==
  /\ Start("type")
  /\ avps' = Store(avps, curr.avp,
               [Deref(avps, curr.avp) EXCEPT !.type_name = Head(rest).name])
  /\ UNCHANGED <<apps, vendors, cmds, types, arrays, curr>>

(* Fault for mutation: curr_rules stays on the rules before it.            *)
GroupedAside ==
  /\ Start("grouped")
  /\ arrays' = Append(arrays, << >>)
  /\ avps' = Store(avps, curr.avp,
               [Deref(avps, curr.avp) EXCEPT !.type_name = "grouped",
                                             !.content = Len(arrays) + 1])
  /\ UNCHANGED <<apps, vendors, cmds, types, curr>>

(* A new rule array: the rules that follow are its rules.                  *)
Grouped ==
  /\ Start("grouped")
  /\ arrays' = Append(arrays, << >>)
  /\ avps' = Store(avps, curr.avp,
               [Deref(avps, curr.avp) EXCEPT !.type_name = "grouped",
                                             !.content = Len(arrays) + 1])
  /\ curr' = [curr EXCEPT !.rules = Len(arrays) + 1]
  /\ UNCHANGED <<apps, vendors, cmds, types>>

(* The enum array is made with its first element.                          *)
Enum ==
  LET avp == Deref(avps, curr.avp)
      e == [name |-> Head(rest).name, code |-> Head(rest).code]
  IN /\ Start("enum")
     /\ \/ /\ avp.content = 0
           /\ arrays' = Append(arrays, <<e>>)
           /\ avps' = Store(avps, curr.avp, [avp EXCEPT !.content = Len(arrays) + 1])
        \/ /\ avp.content # 0
           /\ arrays' = [arrays EXCEPT ![avp.content] = Append(@, e)]
           /\ UNCHANGED avps
     /\ UNCHANGED <<apps, vendors, cmds, types, curr>>

NewType(e) ==
  [name |-> e.name, codec |-> "UNKNOWN", parent_name |-> e.parent, parent |-> Null]

(* Fault for mutation: a second declaration of a name is kept.             *)
AddAvpTypeTwice(type) == types' \in PushBack(types, type)

(* dict_add_avp_type: a name that exists already is not added again.       *)
AddAvpType(type) ==
  \/ /\ FirstNamed(types, type.name) # Null
     /\ UNCHANGED types
  \/ /\ FirstNamed(types, type.name) = Null
     /\ types' \in PushBack(types, type)

TypeDefn ==
  /\ Start("typedefn")
  /\ AddAvpType(NewType(Head(rest)))
  /\ UNCHANGED <<apps, vendors, cmds, avps, arrays, curr>>

Other ==
  /\ Start("section") \/ Start("other")
  /\ UNCHANGED <<tables, curr>>

Element ==
  \/ \E tag \in {"base", "application"} : AddApp(tag)
  \/ Vendor
  \/ Command
  \/ CommandRules
  \/ AvpRule
  \/ Avp
  \/ Type
  \/ Grouped
  \/ Enum
  \/ TypeDefn
  \/ Other
-----------------------------------------------------------------------------
(* dict_build_rules: rules that are not bound yet get the first AVP of     *)
(* their name.                                                             *)
Bind(rules, table) ==
  [i \in DOMAIN rules |->
     IF rules[i].avp # Null THEN rules[i]
     ELSE [rules[i] EXCEPT !.avp = FirstNamed(table, rules[i].name)]]

(* The tables of applications, vendors and commands are sorted and the     *)
(* commands' rules bound to the AVPs where they lie now.                   *)
BuildTables ==
  LET ofCommand(k) ==
        \E i \in DOMAIN cmds.items :
           k \in {cmds.items[i].req_rules, cmds.items[i].ans_rules}
  IN /\ pc = "tables"
     /\ apps' \in Sorted(apps, Ids(apps))
     /\ vendors' \in Sorted(vendors, Ids(vendors))
     /\ cmds' \in Sorted(cmds, Codes(cmds))
     /\ arrays' = [k \in DOMAIN arrays |->
                     IF ofCommand(k) THEN Bind(arrays[k], avps) ELSE arrays[k]]
     /\ pc' = "types"
     /\ UNCHANGED <<status, loads, rest, seen, avps, types, curr, walk>>

(* Fault for mutation: the loop compares type[i] with itself.              *)
ParentInSelf(table, type) ==
  LET parent == FirstNamed(table, type.name)
  IN IF type.parent_name = NoName THEN type.parent ELSE parent

(* What a type is linked to, in the sorted table.                          *)
ParentIn(table, type) ==
  LET parent == FirstNamed(table, type.parent_name)
  IN IF type.parent_name = NoName \/ parent = Null THEN type.parent ELSE parent

ChainTypes ==
  /\ pc = "types"
  /\ \E table \in Sorted(types, Ranks(types)) :
       types' = [table EXCEPT !.items = [i \in DOMAIN @ |->
                   [@[i] EXCEPT !.parent = ParentIn(table, table.items[i])]]]
  /\ pc' = "avps"
  /\ UNCHANGED <<status, loads, rest, seen, apps, vendors, cmds, avps, arrays, curr, walk>>

(* The type an AVP is joined to: for a grouped AVP first the slot          *)
(* CODEC_GROUPED of the sorted types, then the first type of its name.     *)
TypeOf(avp) ==
  LET named == FirstNamed(types, avp.type_name)
  IN IF named # Null THEN named
     ELSE IF avp.type_name = "grouped" THEN PointerTo(types, 1)
     ELSE avp.type

(* Fault for mutation: grouped rules are bound before the AVPs are sorted. *)
BindGroupedEarly(table) ==
  [k \in DOMAIN arrays |->
     IF \E i \in DOMAIN avps.items : /\ avps.items[i].type_name = "grouped"
                                   /\ avps.items[i].content = k
     THEN Bind(arrays[k], avps) ELSE arrays[k]]

(* The rules of grouped AVPs are bound to the sorted AVPs.                 *)
BindGrouped(table) ==
  [k \in DOMAIN arrays |->
     IF \E i \in DOMAIN table.items : /\ table.items[i].type_name = "grouped"
                                    /\ table.items[i].content = k
     THEN Bind(arrays[k], table) ELSE arrays[k]]

(* An AVP that a failed load left without a type: strcmp(NULL, "grouped"). *)
Untyped == \E i \in DOMAIN avps.items : avps.items[i].type_name = NoName

BuildCrash ==
  /\ pc = "avps"
  /\ Untyped
  /\ pc' = "dead"
  /\ UNCHANGED <<status, loads, rest, seen, tables, curr, walk>>

BuildAvps ==
  /\ pc = "avps"
  /\ ~Untyped
  /\ \E table \in Sorted(avps, Codes(avps)) :
       /\ avps' = [table EXCEPT !.items = [i \in DOMAIN @ |->
                     [@[i] EXCEPT !.type = TypeOf(table.items[i])]]]
       /\ arrays' = BindGrouped(table)
  /\ pc' = "codecs"
  /\ walk' = [i |-> 1, curr |-> PointerTo(types, 1)]
  /\ UNCHANGED <<status, loads, rest, seen, apps, vendors, cmds, types, curr>>

UnknownCodec(p) == p # Null /\ Deref(types, p).codec = "UNKNOWN"

(* One turn of the while loop: up the chain while the codec is unknown.    *)
WalkUp ==
  /\ pc = "codecs"
  /\ UnknownCodec(walk.curr)
  /\ walk' = [walk EXCEPT !.curr = Deref(types, walk.curr).parent]
  /\ UNCHANGED <<pc, status, loads, rest, seen, tables, curr>>

(* The end of the chain: the codec is taken over if there is one, and the  *)
(* loop goes to the next type or dict_add_dict returns.                    *)
SetCodec ==
  /\ pc = "codecs"
  /\ ~UnknownCodec(walk.curr)
  /\ types' = IF walk.curr = Null THEN types
              ELSE [types EXCEPT !.items[walk.i].codec = Deref(types, walk.curr).codec]
  /\ \/ /\ walk.i < Len(types.items)
        /\ walk' = [i |-> walk.i + 1, curr |-> PointerTo(types, walk.i + 1)]
        /\ UNCHANGED <<pc, status>>
     \/ /\ walk.i = Len(types.items)
        /\ walk' = [i |-> 0, curr |-> Null]
        /\ pc' = "idle"
        /\ status' = "ok"
  /\ UNCHANGED <<loads, rest, seen, apps, vendors, cmds, avps, arrays, curr>>

Build ==
  \/ BuildTables
  \/ ChainTypes
  \/ BuildCrash
  \/ BuildAvps
  \/ WalkUp
  \/ SetCodec

(* dict_get_avp                                                            *)
GetAvp(code, vendor_id) ==
  First(avps, {i \in DOMAIN avps.items :
                 avps.items[i].code = code /\ avps.items[i].vendor_id = vendor_id})
-----------------------------------------------------------------------------
Next ==
  \/ \E doc \in Documents : Open(doc)
  \/ Fail
  \/ EndOfFile
  \/ Element
  \/ Build

(* The thread in dict_add_dict keeps running, and files end.               *)
Spec == Init /\ [][Next]_vars /\ WF_vars(EndOfFile \/ Element \/ Build)
-----------------------------------------------------------------------------
(* What the elements read so far declare.                                  *)
Until(k, tags) ==
  CHOOSE n \in k .. Len(seen) :
    /\ \A m \in k + 1 .. n : seen[m].el \in tags
    /\ n = Len(seen) \/ seen[n + 1].el \notin tags

(* The names of the elements in tags from first to last, in their order.   *)
NamesIn(first, last, tags) ==
  LET chosen == {p \in first .. last : seen[p].el \in tags}
      at(n) == CHOOSE p \in chosen : Cardinality({q \in chosen : q <= p}) = n
  IN [n \in 1 .. Cardinality(chosen) |-> seen[at(n)].name]

Declared(tag) == {k \in DOMAIN seen : seen[k].el = tag}

(* The names below the section of command k that begins with tag.          *)
Section(k, tag) ==
  LET inside == {"requestrules", "answerrules", "avprule", "section"}
      opens == {p \in k + 1 .. Until(k, inside) : seen[p].el = tag}
      p == CHOOSE x \in opens : TRUE
  IN IF opens = {} THEN << >> ELSE NamesIn(p + 1, Until(p, {"avprule", "section"}), {"avprule"})

DeclaredCmd(k) ==
  [name |-> seen[k].name, code |-> seen[k].code,
   req |-> Section(k, "requestrules"), ans |-> Section(k, "answerrules")]

DeclaredAvp(k) ==
  LET last == Until(k, {"type", "grouped", "section", "avprule", "enum"})
      type == {p \in k + 1 .. last : seen[p].el \in {"type", "grouped"}}
  IN [name |-> seen[k].name, code |-> seen[k].code,
      type_name |-> IF type = {} THEN NoName
                    ELSE LET p == CHOOSE x \in type : TRUE
                         IN IF seen[p].el = "grouped" THEN "grouped" ELSE seen[p].name,
      members |-> NamesIn(k + 1, last, {"avprule", "enum"})]

NamesOf(k) == IF k = 0 THEN << >> ELSE [i \in DOMAIN arrays[k] |-> arrays[k][i].name]

LoadedCmd(cmd) ==
  [name |-> cmd.name, code |-> cmd.code,
   req |-> NamesOf(cmd.req_rules), ans |-> NamesOf(cmd.ans_rules)]

LoadedAvp(avp) ==
  [name |-> avp.name, code |-> avp.code, type_name |-> avp.type_name,
   members |-> NamesOf(avp.content)]

(* f and g take the same values equally often.                             *)
SameBag(f, g) ==
  \A v \in {f[i] : i \in DOMAIN f} \cup {g[i] : i \in DOMAIN g} :
    Cardinality({i \in DOMAIN f : f[i] = v}) = Cardinality({i \in DOMAIN g : g[i] = v})

(* The codec a type name has by the declarations alone: that of the base   *)
(* type its chain of parents ends in.  The first declaration counts.       *)
BaseNames == {BaseTypes[i].name : i \in DOMAIN BaseTypes}

ParentName(name) ==
  LET decls == {k \in Declared("typedefn") : seen[k].name = name}
  IN IF name \in BaseNames \/ decls = {} THEN NoName
     ELSE seen[CHOOSE k \in decls : \A j \in decls : k <= j].parent

TypeNames == BaseNames \cup {seen[k].name : k \in Declared("typedefn")}

Based(codec) ==
  {BaseTypes[i].name : i \in {j \in DOMAIN BaseTypes : BaseTypes[j].codec = codec}}

(* The sets of declared names that hold every child of theirs and of the   *)
(* base types with the codec; the least of them are the names below those. *)
Closed(codec) ==
  {S \in SUBSET (TypeNames \ BaseNames) :
     \A n \in TypeNames \ BaseNames : ParentName(n) \in S \cup Based(codec) => n \in S}

HasCodec(name, codec) ==
  name \in Based(codec) \/ (name \in TypeNames /\ \A S \in Closed(codec) : name \in S)

CodecOf(name) ==
  IF \E codec \in Codecs : HasCodec(name, codec)
  THEN CHOOSE codec \in Codecs : HasCodec(name, codec)
  ELSE "UNKNOWN"

(* dict_add_dict has returned 0.                                           *)
Ready == pc = "idle" /\ status = "ok"
-----------------------------------------------------------------------------
Pointers(arr) == {Null} \cup [block : 0 .. arr.block, slot : DOMAIN arr.items]

(* Blocks, slots and array numbers are in range; the pointers the handler  *)
(* keeps point into the tables.                                            *)
TypeOK ==
  /\ pc \in {"idle", "dead", "parse", "tables", "types", "avps", "codecs"}
  /\ status \in {"new", "loading", "ok", "error"}
  /\ loads \in 0 .. MaxLoads
  /\ \A arr \in {apps, vendors, cmds, avps, types} : arr.block \in Nat
  /\ \A i \in DOMAIN cmds.items :
       {cmds.items[i].req_rules, cmds.items[i].ans_rules} \subseteq DOMAIN arrays
  /\ \A i \in DOMAIN avps.items :
       /\ avps.items[i].content \in {0} \cup DOMAIN arrays
       /\ avps.items[i].type \in Pointers(types)
  /\ \A i \in DOMAIN types.items :
       /\ types.items[i].codec \in Codecs
       /\ types.items[i].parent \in Pointers(types)
  /\ curr.cmd \in Pointers(cmds)
  /\ curr.avp \in Pointers(avps)
  /\ curr.rules \in {0} \cup DOMAIN arrays
  /\ walk.i \in {0} \cup DOMAIN types.items
  /\ walk.curr \in Pointers(types)

(* After a load the tables hold exactly what the elements declare: every   *)
(* type, rule and enum value went to the AVP or command that encloses it   *)
(* in the file, although the tables moved under curr_avp and curr_cmd.     *)
LoadedAsDeclared ==
  Ready =>
    /\ SameBag([i \in DOMAIN avps.items |-> LoadedAvp(avps.items[i])],
               [k \in Declared("avp") |-> DeclaredAvp(k)])
    /\ SameBag([i \in DOMAIN cmds.items |-> LoadedCmd(cmds.items[i])],
               [k \in Declared("command") |-> DeclaredCmd(k)])

RuleBound(rule) ==
  IF rule.avp = Null
  THEN \A k \in Declared("avp") : seen[k].name # rule.name
  ELSE Live(avps, rule.avp) /\ Deref(avps, rule.avp).name = rule.name

(* After the first load each rule of a grouped AVP points to the AVP it    *)
(* names, in the sorted table; only a name nobody declares leaves it NULL. *)
(* A later load moves the table under rules that count as bound.           *)
GroupedRulesNamed ==
  Ready /\ loads = 1 =>
    \A i \in DOMAIN avps.items :
      LET avp == avps.items[i]
      IN avp.type_name = "grouped" =>
           \A r \in DOMAIN arrays[avp.content] : RuleBound(arrays[avp.content][r])

(* The same for the rules of commands, which test.c:51 and 57 print next   *)
(* to the code of the AVP they point to.                                   *)
CommandRulesNamed ==
  Ready =>
    \A i \in DOMAIN cmds.items :
      \A a \in {cmds.items[i].req_rules, cmds.items[i].ans_rules} :
        \A r \in DOMAIN arrays[a] : RuleBound(arrays[a][r])

(* After a load dict_get_avp finds an AVP for every declared code, and its *)
(* type pointer leads avp_decode to the codec its type name stands for,    *)
(* whatever the order of declarations, the sorts and the moves.            *)
LookupDecodes ==
  Ready =>
    \A k \in Declared("avp") :
      LET p == GetAvp(seen[k].code, 0)
          avp == Deref(avps, p)
      IN /\ p # Null
         /\ avp.type_name \in TypeNames =>
              /\ Live(types, avp.type)
              /\ Deref(types, avp.type).name = avp.type_name
              /\ Deref(types, avp.type).codec = CodecOf(avp.type_name)

(* After a load the type of a grouped AVP has the codec CODEC_GROUPED, the *)
(* constant dict.c:340 picks it by.                                        *)
GroupedIsGrouped ==
  Ready =>
    \A i \in DOMAIN avps.items :
      avps.items[i].type_name = "grouped" =>
        Deref(types, avps.items[i].type).codec = "GROUPED"

(* What dict_build finds by a name is what has that name: the AVP of every *)
(* command's rule and the type of every grouped AVP.                       *)
BuiltAsNamed == CommandRulesNamed /\ GroupedIsGrouped

(* dict_add_dict returns or aborts: no chain of types is walked for ever.  *)
LoadEnds == pc = "parse" ~> pc \in {"idle", "dead"}
=============================================================================
