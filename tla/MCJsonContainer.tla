---------------------------- MODULE MCJsonContainer ----------------------------
(***************************************************************************)
(* Three names, one of which is another with a NUL and more, and documents *)
(* that give a name twice, hold every kind of number, or are no object.    *)
(***************************************************************************)
EXTENDS JsonContainer

Names == {"a", "b", "a-nul-b"}
PlainNames == {"a", "b"}
Cuts == [n \in Names |-> IF n = "a-nul-b" THEN "a" ELSE n]

M(name, value) == [name |-> name, value |-> value]
One == Scalar("int", "one")
Text == Scalar("string", "text")

SomeTexts ==
  {EmptyObject, Null, One, Array(<<>>), Array(<<EmptyObject, Null>>),
   Object(<<M("a", One), M("b", Null)>>),
   Object(<<M("a", One), M("b", Text), M("a", EmptyObject)>>),
   Object(<<M("a-nul-b", Text)>>),
   Object(<<M("b", Scalar("uint64", "large"))>>),
   Object(<<M("a", Scalar("int64", "large")), M("b", Scalar("double", "half"))>>),
   Object(<<M("b", Array(<<One, Text>>)), M("a", Object(<<M("b", Scalar("bool", "true"))>>))>>)}

FewInputs == {[as |-> "int", value |-> One], [as |-> "string", value |-> Text]}

AllInputs ==
  FewInputs \cup
  {[as |-> "bool", value |-> Scalar("bool", "false")],
   [as |-> "double", value |-> Scalar("double", "half")],
   [as |-> "vector<int>", value |-> Array(<<One>>)],
   [as |-> "vector<string>", value |-> Array(<<>>)],
   [as |-> "vector<JsonContainer>", value |-> Array(<<EmptyObject>>)],
   [as |-> "vector<JsonContainer>", value |-> Array(<<Null>>)],
   [as |-> "JsonContainer", value |-> Object(<<M("b", Null)>>)],
   [as |-> "JsonContainer", value |-> Null]}
=============================================================================
