------------------------------- MODULE MCDict -------------------------------
(***************************************************************************)
(* Small dictionary files in the shape of dictionary.xml: a base with one  *)
(* or two commands, types that rest on one another, a grouped AVP and AVPs *)
(* with enum values, their codes in ascending, descending and mixed order. *)
(***************************************************************************)
EXTENDS Dict

Ranking ==
  [Float32 |-> 1, Float64 |-> 2, Grouped |-> 3, Integer32 |-> 4, Integer64 |-> 5,
   OctetString |-> 6, Time |-> 7, URI |-> 8, UTF8String |-> 9, Unsigned32 |-> 10,
   Unsigned64 |-> 11]

Strings ==
  DOMAIN Ranking \cup {NoName, "grouped", "Host", "Result", "Good", "Bad", "Digits",
                      "Info", "Nobody", "Watchdog", "Error", "Merit", "NASREQ", "AA", "EAP"}

Elem(el, name, code) == [el |-> el, name |-> name, code |-> code, parent |-> NoName]
Tag(el) == Elem(el, NoName, 0)
Named(el, name) == Elem(el, name, 0)
Defn(name, parent) == [Named("typedefn", name) EXCEPT !.parent = parent]

Host(code) == <<Elem("avp", "Host", code), Named("type", "URI")>>
Result(code) ==
  <<Elem("avp", "Result", code), Named("type", "Unsigned32"),
    Named("enum", "Good"), Named("enum", "Bad")>>
Digits(code) == <<Elem("avp", "Digits", code), Named("type", "Integer64")>>
Info(code) ==
  <<Elem("avp", "Info", code), Tag("grouped"), Named("avprule", "Result"),
    Tag("section"), Named("avprule", "Host"), Named("avprule", "Nobody")>>

Watchdog ==
  <<Elem("command", "Watchdog", 2), Tag("requestrules"), Tag("section"),
    Named("avprule", "Host"), Tag("answerrules"), Named("avprule", "Result"),
    Named("avprule", "Info")>>
Error == <<Elem("command", "Error", 1), Tag("answerrules"), Named("avprule", "Result")>>

BaseFile(commands, typedefns, declared) ==
  <<Tag("other"), Elem("vendor", "Merit", 61), Tag("base")>> \o commands \o typedefns \o declared

(* Types before and after their parents, declared again or left without a  *)
(* parent; codes in ascending, descending, mixed order, and one twice.     *)
Bases == {
  BaseFile(Watchdog \o Error, <<Defn("UTF8String", "OctetString"), Defn("URI", "UTF8String")>>,
       Host(1) \o Result(2) \o Info(3)),
  BaseFile(Watchdog, <<Defn("URI", "UTF8String"), Defn("UTF8String", "OctetString")>>,
       Result(2) \o Host(2) \o Info(1)),
  BaseFile(Watchdog, <<Defn("Integer64", NoName), Defn("URI", "Time")>>,
       Digits(4) \o Info(3) \o Result(2) \o Host(1)) }

(* An application brings AVPs of its own and the parent of a type that a   *)
(* base may have declared.                                                 *)
Applications == {
  <<Elem("application", "NASREQ", 1), Elem("command", "AA", 3), Tag("requestrules"),
    Named("avprule", "Digits"), Defn("UTF8String", "OctetString")>> \o Digits(1),
  <<Elem("application", "EAP", 5), Defn("URI", "Time"), Defn("Time", "Unsigned32")>>
    \o Digits(6) \o Result(5) }

Files == Bases \cup Applications

(* One file alone: codes in descending order.                              *)
Descending ==
  {BaseFile(Watchdog \o Error, <<Defn("URI", "UTF8String"), Defn("OctetString", NoName)>>,
            Info(3) \o Result(2) \o Host(1))}
=============================================================================
