----------------------------- MODULE JsonContainer -----------------------------
(***************************************************************************)
(* JsonContainer (json_container/src, json_container.hpp): containers of a *)
(* JSON document each, what reading gives or throws for every path, and    *)
(* how set walks a path, creating what is missing.                         *)
(*                                                                         *)
(* A document is a value.  The members of an object are a sequence, as in  *)
(* rapidjson: a text may give the same name twice, and a lookup takes the  *)
(* first.  A key is looked up as a C string, so that it ends at its first  *)
(* NUL.  Numbers are told apart by the types that they fit in.             *)
(***************************************************************************)
EXTENDS Naturals, FiniteSets, Sequences, SequencesExt

CONSTANTS
  Container,
  Name,       \* the names of members, and the keys
  NoNul,      \* the names without a NUL
  Cut,        \* of each name: what is before its first NUL
  Texts,      \* the documents that the texts parsed are of
  Inputs,     \* what is set: records of a type `as' and a value
  Stored,     \* those of them that the steps set
  MaxKeys,    \* the longest path explored
  MaxCalls    \* how many calls are explored

VARIABLES doc, calls

vars == <<doc, calls>>

-----------------------------------------------------------------------------
(* Values, and the exceptions in their place.                              *)

Null == [type |-> "null"]
Scalar(type, is) == [type |-> type, is |-> is]
Array(items) == [type |-> "array", items |-> items]
Object(members) == [type |-> "object", members |-> members]
EmptyObject == Object(<<>>)

Throw(exception) == [type |-> "exception", is |-> exception]
Thrown(v) == v.type = "exception"

Numbers == {"int", "int64", "uint64", "double"}

NumberTypeByInt(type) == IF type = "int" THEN "Int" ELSE "Double"
NumberType(type) == IF type = "double" THEN "Double" ELSE "Int"

\* getValueType
ValueType(v) ==
  CASE v.type = "null" -> "Null"
    [] v.type = "bool" -> "Bool"
    [] v.type = "object" -> "Object"
    [] v.type = "array" -> "Array"
    [] v.type = "string" -> "String"
    [] v.type \in Numbers -> NumberType(v.type)

Size(v) ==
  CASE v.type = "array" -> Len(v.items)
    [] v.type = "object" -> Len(v.members)
    [] OTHER -> 0

-----------------------------------------------------------------------------
(* Looking up.                                                             *)

\* The position of the member that rapidjson finds for a name, 0 for none.
Position(v, name) == SelectInSeq(v.members, LAMBDA m : m.name = name)

HasKeyWhole(v, key) == v.type = "object" /\ Position(v, key) # 0
HasKey(v, key) == v.type = "object" /\ Position(v, Cut[key]) # 0

LastMember(v, key) == v.members[SelectLastInSeq(v.members, LAMBDA m : m.name = Cut[key])].value
Member(v, key) == v.members[Position(v, Cut[key])].value

\* getValueInJson for a key, for an index and for a path
Entry(v, key) ==
  IF v.type # "object" THEN Throw("data_type_error")
  ELSE IF Position(v, Cut[key]) = 0 THEN Throw("data_key_error")
  ELSE Member(v, key)

Item(v, idx) ==
  IF v.type # "array" THEN Throw("data_type_error")
  ELSE IF idx >= Len(v.items) THEN Throw("data_index_error")
  ELSE v.items[idx + 1]

At(v, keys) == FoldLeft(LAMBDA w, key : IF Thrown(w) THEN w ELSE Entry(w, key), v, keys)
ItemAt(v, keys, idx) ==
  LET w == At(v, keys) IN IF Thrown(w) THEN w ELSE Item(w, idx)

Includes(v, keys) ==
  \A i \in DOMAIN keys : LET w == At(v, SubSeq(keys, 1, i - 1)) IN HasKey(w, keys[i])

TypeAt(v, keys) == LET w == At(v, keys) IN IF Thrown(w) THEN w.is ELSE ValueType(w)

Keys(v) == IF v.type = "object" THEN [i \in DOMAIN v.members |-> v.members[i].name] ELSE <<>>
Empty(v) == v.type \in {"object", "array"} /\ Size(v) = 0

-----------------------------------------------------------------------------
(* getValue<T>.                                                            *)

ScalarTypes == {"int", "int64", "bool", "string", "double"}
VectorTypes == {"vector<string>", "vector<bool>", "vector<int>", "vector<double>",
                "vector<JsonContainer>"}
Types == ScalarTypes \cup VectorTypes \cup {"JsonContainer", "json_value"}

\* The values that a scalar type takes, or that are the items of a vector.
Takes(type) ==
  CASE type = "int64" -> {"int", "int64"}
    [] type = "vector<string>" -> {"string"}
    [] type = "vector<bool>" -> {"bool"}
    [] type = "vector<int>" -> {"int"}
    [] type = "vector<double>" -> {"double"}
    [] type = "vector<JsonContainer>" -> {"object"}
    [] OTHER -> {type}

\* What is read where the document has null
OfNull(type) ==
  CASE type \in {"int", "int64"} -> Scalar("int", "zero")
    [] type = "bool" -> Scalar("bool", "false")
    [] type = "string" -> Scalar("string", "empty")
    [] type = "double" -> Scalar("double", "zero")
    [] type = "JsonContainer" -> EmptyObject
    [] type = "json_value" -> Null
    [] type \in VectorTypes -> Array(<<>>)

Matches(type, v) ==
  CASE type \in ScalarTypes -> v.type \in Takes(type)
    [] type \in VectorTypes ->
         v.type = "array" /\ \A i \in DOMAIN v.items : v.items[i].type \in Takes(type)
    [] OTHER -> TRUE

GetValue(type, v) ==
  CASE Thrown(v) -> v
    [] v = Null -> OfNull(type)
    [] Matches(type, v) -> v
    [] OTHER -> Throw("data_type_error")

Get(type, v, keys) == GetValue(type, At(v, keys))
GetItem(type, v, keys, idx) == GetValue(type, ItemAt(v, keys, idx))

RootHas(v, keys) == HasKey(v, Last(keys))
\* Whether the object that the rest of the path leads to has its last key.
ParentHas(v, keys) == HasKey(At(v, Front(keys)), Last(keys))

\* getWithDefault with a key and, for a path that is not empty, with keys.
GetWithDefault(type, v, keys, default) ==
  LET parent == At(v, Front(keys)) IN
  CASE Thrown(parent) -> parent
    [] ~Thrown(parent) /\ parent.type # "object" -> Throw("data_type_error")
    [] ~Thrown(parent) /\ parent.type = "object" /\ ~ParentHas(v, keys) -> default
    [] OTHER -> GetValue(type, Entry(parent, Last(keys)))

-----------------------------------------------------------------------------
(* set.                                                                    *)

\* The document in which the value at a path that it has is another one.
Put(v, keys, new) ==
  LET node[i \in 0..Len(keys)] ==
        IF i = Len(keys) THEN new
        ELSE LET w == At(v, SubSeq(keys, 1, i)) IN
             [w EXCEPT !.members[Position(w, Cut[keys[i + 1]])].value = node[i + 1]]
  IN node[0]

CreatedNull(v, key) == Object(Append(v.members, [name |-> Cut[key], value |-> Null]))
CreatedAlone(v, key) == Object(<<[name |-> Cut[key], value |-> EmptyObject]>>)
\* createKeyInJson adds an empty object under the key.
Created(v, key) == Object(Append(v.members, [name |-> Cut[key], value |-> EmptyObject]))

CreatedIfMissing(v, key) == IF HasKey(v, key) THEN v ELSE Created(v, key)

\* One turn of the loop: a walk has a document, the path so far and whether
\* it has met what is not an object.
Step(walk, key) ==
  LET here == At(walk.doc, walk.path) IN
  IF walk.lost \/ Thrown(here) \/ here.type # "object" THEN [walk EXCEPT !.lost = TRUE]
  ELSE [doc |-> Put(walk.doc, walk.path, CreatedIfMissing(here, key)),
        path |-> Append(walk.path, key), lost |-> FALSE]

\* set with a path, which leaves what it created behind if it throws
SetNested(v, keys, new) ==
  LET walk == FoldLeft(Step, [doc |-> v, path |-> <<>>, lost |-> FALSE], keys) IN
  IF walk.lost THEN [doc |-> walk.doc, threw |-> TRUE]
  ELSE [doc |-> Put(walk.doc, walk.path, new), threw |-> FALSE]

\* set with a key
SetEntry(v, key, new) ==
  IF v.type # "object" THEN [doc |-> v, threw |-> TRUE]
  ELSE [doc |-> Put(CreatedIfMissing(v, key), <<key>>, new), threw |-> FALSE]

-----------------------------------------------------------------------------
(* toPrettyString: the exception it throws, "none" when it gives a text.   *)

PrettyInt == "int"
\* The type as which a number of type Int is read.
PrettyInteger == "int64"

RECURSIVE PrettyThrows(_)
PrettyThrows(v) ==
  LET Line(name) ==
        LET type == TypeAt(v, <<name>>) IN
        CASE type = "Object" -> PrettyThrows(Get("JsonContainer", v, <<name>>))
          [] type = "Int" -> Get(PrettyInteger, v, <<name>>).type
          [] type \in {"data_key_error", "data_type_error"} -> "exception"
          [] OTHER -> "none"
  IN IF \E i \in DOMAIN Keys(v) : Line(Keys(v)[i]) = "exception" THEN "exception" ELSE "none"

-----------------------------------------------------------------------------
(* The containers.                                                         *)

Init ==
  /\ doc = [c \in Container |-> EmptyObject]
  /\ calls = 0

Call == calls < MaxCalls /\ calls' = calls + 1

HoldsAnyway(c, v) == doc' = [doc EXCEPT ![c] = v]
\* operator= of what a constructor or get<JsonContainer> made, if it did not throw
Holds(c, v) == IF Thrown(v) THEN UNCHANGED doc ELSE doc' = [doc EXCEPT ![c] = v]

\* The constructor from a text, which throws data_parse_error for some
Parse(c, v) == Call /\ Holds(c, v)

\* The copy and move constructors, both of which copy, and get<JsonContainer>
Assign(c, d, keys) == Call /\ Holds(c, Get("JsonContainer", doc[d], keys))

\* What set is called with, another container and a vector of it included
Given(d) ==
  Stored \cup {[as |-> "JsonContainer", value |-> doc[d]],
               [as |-> "vector<JsonContainer>", value |-> Array(<<doc[d]>>)]}

RECURSIVE Depth(_)
Depth(v) ==
  LET Deepest(s) == IF s = {} THEN 0 ELSE 1 + CHOOSE n \in s : \A m \in s : m <= n IN
  CASE v.type = "array" -> Deepest({Depth(v.items[i]) : i \in DOMAIN v.items})
    [] v.type = "object" -> Deepest({Depth(v.members[i].value) : i \in DOMAIN v.members})
    [] OTHER -> 0

Small(keys, value) == Len(keys) + Depth(value) <= MaxKeys

CallSetEntry(c, key, value) ==
  /\ Call /\ Small(<<key>>, value)
  /\ doc' = [doc EXCEPT ![c] = SetEntry(@, key, value).doc]

CallSetNested(c, keys, value) ==
  /\ Call /\ Small(keys, value)
  /\ doc' = [doc EXCEPT ![c] = SetNested(@, keys, value).doc]

Paths == SeqOf(Name, MaxKeys)

Over == calls = MaxCalls /\ UNCHANGED vars

Next ==
  \/ \E c \in Container, v \in Texts \cup {Throw("data_parse_error")} : Parse(c, v)
  \/ \E c, d \in Container, keys \in Paths : Assign(c, d, keys)
  \/ \E c, d \in Container, key \in Name : \E g \in Given(d) : CallSetEntry(c, key, g.value)
  \/ \E c, d \in Container, keys \in Paths : \E g \in Given(d) : CallSetNested(c, keys, g.value)
  \/ Over

Spec == Init /\ [][Next]_vars

-----------------------------------------------------------------------------
(* Properties.                                                             *)

Documents == {doc[c] : c \in Container}

RECURSIVE Valid(_)
Valid(v) ==
  CASE v.type = "null" -> TRUE
    [] v.type = "array" -> \A i \in DOMAIN v.items : Valid(v.items[i])
    [] v.type = "object" ->
         \A i \in DOMAIN v.members : v.members[i].name \in Name /\ Valid(v.members[i].value)
    [] OTHER -> v.type \in Numbers \cup {"bool", "string"}

TypeOK == calls \in 0..MaxCalls /\ \A v \in Documents : Valid(v)

\* A set that throws leaves the document as it was, although it creates the
\* keys of its path as it goes.
FailedSetKeeps ==
  \A v \in Documents, keys \in Paths, g \in Inputs :
    LET r == SetNested(v, keys, g.value) IN r.threw => r.doc = v

\* What was set is there and read back the same with the type it was set with,
\* but for a vector of containers that are not all objects, which get refuses,
\* and a container of null, which is read as an empty object.
ReadsBack(g) == g.value # Null /\ Matches(g.as, g.value)

SetThenGet ==
  \A v \in Documents, keys \in Paths, g \in Inputs :
    LET r == SetNested(v, keys, g.value) IN
    ~r.threw => Includes(r.doc, keys) /\ (ReadsBack(g) => Get(g.as, r.doc, keys) = g.value)

\* A set changes nothing but what is on its path: every other path leads to
\* what it led to, and the members of an object keep their order.
CutAll(keys) == [i \in DOMAIN keys |-> Cut[keys[i]]]
Apart(p, q) == ~IsPrefix(CutAll(p), CutAll(q)) /\ ~IsPrefix(CutAll(q), CutAll(p))

SetLocal ==
  \A v \in Documents, p \in Paths :
    LET r == SetNested(v, p, Null) IN
    ~r.threw => /\ \A q \in Paths : Apart(p, q) => At(r.doc, q) = At(v, q)
                /\ p # <<>> => IsPrefix(Keys(v), Keys(r.doc))

\* A set gives no object two members of one name, whatever the key, nor does
\* set with a key differ from set with a path of one key.
RECURSIVE NoTwins(_)
NoTwins(v) ==
  CASE v.type = "array" -> \A i \in DOMAIN v.items : NoTwins(v.items[i])
    [] v.type = "object" ->
         \A i \in DOMAIN v.members :
           /\ NoTwins(v.members[i].value)
           /\ \A j \in DOMAIN v.members : v.members[i].name = v.members[j].name => i = j
    [] OTHER -> TRUE

SetOnce ==
  \A v \in Documents, keys \in Paths :
    /\ NoTwins(v) => NoTwins(SetNested(v, keys, Null).doc)
    /\ Len(keys) = 1 => SetNested(v, keys, Null) = SetEntry(v, keys[1], Null)

\* set does what it says for every path, or nothing.
SetSound == TypeOK /\ FailedSetKeeps /\ SetThenGet /\ SetLocal /\ SetOnce

\* What type says can be got: where it is not Int, get with that type does
\* not throw; where it is, only a number beyond int64_t cannot be read.
GetsAs(type) ==
  CASE type = "Bool" -> "bool"
    [] type = "String" -> "string"
    [] type = "Double" -> "double"
    [] type = "Int" -> "int64"
    [] OTHER -> "JsonContainer"

TypeTellsGet ==
  \A v \in Documents, keys \in Paths :
    LET type == TypeAt(v, keys) IN
    ~Thrown(At(v, keys)) =>
      ~Thrown(Get(GetsAs(type), v, keys)) \/ At(v, keys).type = "uint64"

\* The default is given exactly when the entry is missing and its parent is an
\* object; an entry that is there is read as get reads it.
Marker == Scalar("default", "marker")

DefaultOnlyMissing ==
  \A v \in Documents, keys \in Paths \ {<<>>}, type \in {"int", "string", "JsonContainer"} :
    LET got == GetWithDefault(type, v, keys, Marker)
        parent == At(v, Front(keys)) IN
    IF Includes(v, keys) THEN got = Get(type, v, keys)
    ELSE got = Marker <=> parent.type = "object"

\* toPrettyString throws only for a document with a name that holds a NUL or
\* with a number beyond int64_t.
RECURSIVE Plain(_)
Plain(v) ==
  CASE v.type = "array" -> TRUE
    [] v.type = "object" ->
         \A i \in DOMAIN v.members : v.members[i].name \in NoNul /\ Plain(v.members[i].value)
    [] OTHER -> v.type # "uint64"

PrettyGivesText == \A v \in Documents : Plain(v) => PrettyThrows(v) = "none"

\* type, get, getWithDefault and toPrettyString agree on what there is.
GetSound == TypeTellsGet /\ DefaultOnlyMissing /\ PrettyGivesText
=============================================================================
