------------------------------ MODULE Formula ------------------------------
(***************************************************************************)
(* Driver formulas (dsl/formula.py): the parser, the names a formula reads *)
(* and depends on, its validation against the registry, and the search for *)
(* same-period cycles.                                                     *)
(*                                                                         *)
(* A formula is the sequence of its tokens.  A token that is neither       *)
(* punctuation nor a number is an identifier; strings, comparisons and the *)
(* months of a period, which no formula may hold, are left out, as is how  *)
(* a text falls into tokens (lexer.py).  A node is the record of           *)
(* what the walks over the tree ask of it (referenced_names,               *)
(* dependency_names and validate_formula), each put together from its      *)
(* operands' as the walk does.                                             *)
(***************************************************************************)
EXTENDS Integers, Sequences, FiniteSets

CONSTANTS
  Metrics,         \* metric name |-> [kind, available]: the checked-in registry
  Numbers,         \* the numerals formulas are typed with
  UpperCase        \* name |-> the name upper() makes of it, where that is another

Operators == {"+", "-", "*", "/", "^", "(", ")", ","}
EndOfText == "EOF"

ASSUME NumbersAssumption == Numbers \cap (Operators \cup {EndOfText}) = {}

IsName(token) == token \notin Numbers \cup Operators \cup {EndOfText}

Upper(name) == IF name \in DOMAIN UpperCase THEN UpperCase[name] ELSE name

(***************************************************************************)
(* Nodes.  names is what a formula reads, needs what it needs in the same  *)
(* period: the first argument of PRIOR or LEAD is another period's number. *)
(* lawful is the part of the validation that no registry of drivers enters.*)
(***************************************************************************)
MkNode(kind, name, names, needs, lawful) ==
  [kind |-> kind, name |-> name, names |-> names, needs |-> needs, lawful |-> lawful]

Number(token) == MkNode("NUMBER", token, {}, {}, TRUE)
Reference(token) == MkNode("REFERENCE", token, {token}, {token}, TRUE)
Unary(operand) == MkNode("UNARY", "", operand.names, operand.needs, operand.lawful)
Binary(left, right) ==
  MkNode("BINARY", "", left.names \cup right.names, left.needs \cup right.needs,
         left.lawful /\ right.lawful)

TimeShiftedFunctions == {"PRIOR", "LEAD"}

ReferencedNames(arguments) == UNION {arguments[k].names : k \in DOMAIN arguments}
Needed(arguments) == UNION {arguments[k].needs : k \in DOMAIN arguments}
DependencyNames(name, arguments) ==
  IF name \in TimeShiftedFunctions /\ arguments # << >> THEN Needed(Tail(arguments)) ELSE Needed(arguments)

OneArgument == {"YOY", "YTD", "QTD", "MTD", "SUM", "AVG", "MIN", "MAX", "ABS"}
OneOrTwoArguments == {"PRIOR", "LEAD", "CAGR", "ROLLING", "BY", "WHERE", "ROUND"}
AllowedFunctions == OneArgument \cup OneOrTwoArguments
FunctionArity(name) == IF name \in OneArgument THEN {1} ELSE {1, 2}

Aggregates(name) == name \in {"SUM", "AVG"}
RatioReference(node) ==
  node.kind = "REFERENCE" /\ node.name \in DOMAIN Metrics /\ Metrics[node.name].kind = "ratio"

Lawful(name, arguments) ==
  /\ name \in AllowedFunctions
  /\ Len(arguments) \in FunctionArity(name)
  /\ \A k \in DOMAIN arguments :
       arguments[k].lawful /\ (Aggregates(name) => ~RatioReference(arguments[k]))

Function(name, arguments) ==
  MkNode("FUNCTION", name, ReferencedNames(arguments), DependencyNames(name, arguments),
         Lawful(name, arguments))

Valid(node, drivers) ==
  /\ node.lawful
  /\ \A name \in node.names :
       IF name \in DOMAIN Metrics THEN Metrics[name].available ELSE name \in drivers

(***************************************************************************)
(* The parser.  parse[<<layer, i>>] is what parse_expr, parse_term,        *)
(* parse_factor or the loop over a call's arguments answers when it starts *)
(* at position i: what it read and the position after it, or that it met a *)
(* ParseError.  Each asks only about later positions, or a tighter layer.  *)
(* A loop goes on where its last operand ended; which way equal operators  *)
(* group does not show in a node.                                          *)
(***************************************************************************)
Read(node, at) == [ok |-> TRUE, node |-> node, at |-> at]
ReadAll(nodes, at) == [ok |-> TRUE, nodes |-> nodes, at |-> at]
ParseError == [ok |-> FALSE]

Joined(left, right) == IF right.ok THEN Read(Binary(left.node, right.node), right.at) ELSE ParseError

Continued(tokens, parse, left, operators, layer) ==
  IF ~left.ok THEN ParseError
  ELSE IF tokens[left.at] \in operators THEN Joined(left, parse[<<layer, left.at + 1>>])
  ELSE left

Parenthesised(tokens, inner) ==
  IF inner.ok /\ tokens[inner.at] = ")" THEN Read(inner.node, inner.at + 1) ELSE ParseError

Call(name, arguments) ==
  IF arguments.ok THEN Read(Function(Upper(name), arguments.nodes), arguments.at) ELSE ParseError

ParsePrimary(tokens, parse, i) ==
  CASE tokens[i] \in Numbers -> Read(Number(tokens[i]), i + 1)
    [] tokens[i] = "(" -> Parenthesised(tokens, parse[<<"expr", i + 1>>])
    [] IsName(tokens[i]) /\ tokens[i + 1] # "(" -> Read(Reference(tokens[i]), i + 1)
    [] IsName(tokens[i]) /\ tokens[i + 1] = "(" ->
         Call(tokens[i], IF tokens[i + 2] = ")" THEN ReadAll(<< >>, i + 3) ELSE parse[<<"arguments", i + 2>>])
    [] OTHER -> ParseError

Negated(operand) == IF operand.ok THEN Read(Unary(operand.node), operand.at) ELSE ParseError

ParseUnary(tokens, parse, i) ==
  IF tokens[i] = "-" THEN Negated(ParsePrimary(tokens, parse, i + 1)) ELSE ParsePrimary(tokens, parse, i)

ParseFactor(tokens, parse, i) == Continued(tokens, parse, ParseUnary(tokens, parse, i), {"^"}, "factor")
ParseTerm(tokens, parse, i) == Continued(tokens, parse, parse[<<"factor", i>>], {"*", "/"}, "term")
ParseExpr(tokens, parse, i) == Continued(tokens, parse, parse[<<"term", i>>], {"+", "-"}, "expr")

Preceded(node, rest) == IF rest.ok THEN ReadAll(<<node>> \o rest.nodes, rest.at) ELSE ParseError

ParseArguments(tokens, parse, i) ==
  LET argument == parse[<<"expr", i>>]
  IN  IF ~argument.ok THEN ParseError
      ELSE IF tokens[argument.at] = "," THEN Preceded(argument.node, parse[<<"arguments", argument.at + 1>>])
      ELSE IF tokens[argument.at] = ")" THEN ReadAll(<<argument.node>>, argument.at + 1)
      ELSE ParseError

Layers == {"arguments", "expr", "term", "factor"}
Reading(tokens, parse, layer, i) ==
  CASE layer = "arguments" -> ParseArguments(tokens, parse, i)
    [] layer = "expr" -> ParseExpr(tokens, parse, i)
    [] layer = "term" -> ParseTerm(tokens, parse, i)
    [] layer = "factor" -> ParseFactor(tokens, parse, i)

Parse(tokens) ==
  LET parse[start \in Layers \X DOMAIN tokens] == Reading(tokens, parse, start[1], start[2]) IN parse

Entire(tokens, whole) == IF whole.ok /\ tokens[whole.at] = EndOfText THEN whole ELSE ParseError

IsFormula(formula) == formula \in Seq(STRING) /\ \A k \in DOMAIN formula : formula[k] # EndOfText
Tokens(formula) == Append(formula, EndOfText)
ParseFormula(formula) == Entire(Tokens(formula), Parse(Tokens(formula))[<<"expr", 1>>])

(***************************************************************************)
(* The depth-first search, over each driver's dependencies.  path is the   *)
(* branch it is on (visiting); done holds the completed drivers (visited); *)
(* search[<<pending, path, done>>] is the loop over the names left.        *)
(***************************************************************************)
Sought(found, done) == [cyclic |-> found, done |-> done]
Completed(name, below) == IF below.cyclic THEN below ELSE Sought(FALSE, below.done \cup {name})

VisitDoneFirst(graph, search, name, path, done) ==   \* mutant: marked visited on the way in, asked first
  IF name \in done \/ name \notin DOMAIN graph THEN Sought(FALSE, done)
  ELSE IF name \in path THEN Sought(TRUE, done)
  ELSE search[<<graph[name], path \cup {name}, done \cup {name}>>]

Visit(graph, search, name, path, done) ==
  IF name \in path THEN Sought(TRUE, done)
  ELSE IF name \in done \/ name \notin DOMAIN graph THEN Sought(FALSE, done)
  ELSE Completed(name, search[<<graph[name], path \cup {name}, done>>])

VisitEach(graph, search, pending, path, done) ==
  IF pending = {} THEN Sought(FALSE, done)
  ELSE LET name == CHOOSE n \in pending : TRUE
           first == Visit(graph, search, name, path, done)
       IN  IF first.cyclic THEN first ELSE search[<<pending \ {name}, path, first.done>>]

Mentioned(graph) == DOMAIN graph \cup UNION {graph[code] : code \in DOMAIN graph}
Calls(graph) == (SUBSET Mentioned(graph)) \X (SUBSET DOMAIN graph) \X (SUBSET DOMAIN graph)
Search(graph) ==
  LET search[call \in Calls(graph)] == VisitEach(graph, search, call[1], call[2], call[3]) IN search

DetectCycles(graph) == Search(graph)[<<DOMAIN graph, {}, {}>>].cyclic

Graph(formulas) == [code \in DOMAIN formulas |-> ParseFormula(formulas[code]).node.needs]

(***************************************************************************)
(* Reference definitions, off the token sequence and the closure of the    *)
(* graph, that the parser and the search are held against.                 *)
(***************************************************************************)

(* How many parentheses are open before position i.                        *)
Depth(formula, i) ==
  Cardinality({k \in 1 .. i - 1 : formula[k] = "("}) - Cardinality({k \in 1 .. i - 1 : formula[k] = ")"})

(* The parenthesis at k is open all the way to i.                          *)
Encloses(formula, k, i) ==
  formula[k] = "(" /\ \A j \in k + 1 .. i : Depth(formula, j) > Depth(formula, k)

(* i lies in the first argument of the time-shifting call that opens at k. *)
OpensShifted(formula, k) ==
  k > 1 /\ IsName(formula[k - 1]) /\ Upper(formula[k - 1]) \in TimeShiftedFunctions
PastFirstArgument(formula, k, i) ==
  \E j \in k + 1 .. i - 1 : formula[j] = "," /\ Depth(formula, j) = Depth(formula, k) + 1
ShiftedBy(formula, k, i) ==
  OpensShifted(formula, k) /\ Encloses(formula, k, i) /\ ~PastFirstArgument(formula, k, i)

(* The names at the positions that are not calls and not shifted.          *)
Called(formula, i) == i < Len(formula) /\ formula[i + 1] = "("
ReadNow(formula) ==
  {formula[i] : i \in {j \in DOMAIN formula :
     IsName(formula[j]) /\ ~Called(formula, j) /\ ~\E k \in 1 .. j - 1 : ShiftedBy(formula, k, j)}}

(* Some driver is in every set that holds what it needs and, with a driver,*)
(* what that one needs: it needs, through any number of drivers, itself.   *)
Closed(graph, drivers) == \A code \in drivers : graph[code] \cap DOMAIN graph \subseteq drivers
NeedsItself(graph) ==
  \E code \in DOMAIN graph : \A drivers \in SUBSET DOMAIN graph :
    (Closed(graph, drivers) /\ graph[code] \cap DOMAIN graph \subseteq drivers) => code \in drivers
=============================================================================
