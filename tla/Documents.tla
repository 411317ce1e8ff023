------------------------------ MODULE Documents ------------------------------
(***************************************************************************)
(* src/xylose/xml: a Doc owns a libxml document and its XPath context, a   *)
(* Context is a node in it, and a query that must find one node throws an  *)
(* error otherwise.  With them the input of src/xylose/fit/appspack reads  *)
(* parameters and constraints, and data_set.h data.  A node is a record of *)
(* the sequences of nodes or texts that an expression finds from it; a     *)
(* text is a name, a number or Garbage.  In the record on the bench        *)
(*   doc, ctx    the numbers of what is open, 0 for NULL                   *)
(*   docs, ctxs  what libxml holds in memory                               *)
(*   leaked      the expressions whose result was never freed              *)
(*   root        the root of the document, told   how the last call ended  *)
(***************************************************************************)
EXTENDS Workbench

CONSTANTS Inputs,    \* root nodes of files for appsPack
          DataSets,  \* nodes with data
          NoNodeSet, \* the paths that libxml answers without a node set if they find nothing
          MaxOpens   \* how often a file is opened

(* The nodes that q finds from a node; every expression finds a sequence.  *)
Found(node, q) == IF q \in DOMAIN node THEN node[q] ELSE <<>>
Children(node, q) == {Found(node, q)[i] : i \in DOMAIN Found(node, q)}
IsNode(node) == \A q \in DOMAIN node \ {"text"} : node[q] \in Seq(Children(node, q))

ASSUME DocumentsAssumption ==
  /\ \A root \in Inputs :
       /\ IsNode(root)
       /\ \A x \in Children(root, "Parameters") : IsNode(x) /\ \A p \in Children(x, "Param") : IsNode(p)
       /\ \A x \in Children(root, "Constraints") :
            IsNode(x) /\ \A eq \in Children(x, "Eq") : IsNode(eq) /\ \A f \in Children(eq, "Multiply") : IsNode(f)
  /\ \A root \in DataSets : IsNode(root) /\ \A p \in Children(root, "val") : IsNode(p)

Garbage == 0 - 999

(* How a call ends: with a value, or with what it throws, and the results  *)
(* of libxml that it has lost.  A function that is declared to throw       *)
(* nonsingle_result_error only ends the program with any other error.      *)
Ok(value) == [end |-> "ok", value |-> value, lost |-> {}]
Thrown(error) == [end |-> error, value |-> 0, lost |-> {}]
Losing(outcome, more) == [end |-> outcome.end, value |-> outcome.value, lost |-> outcome.lost \cup more]
Nonsingle == {"no_results", "too_many_results"}
Declared(outcome) == IF outcome.end = "error" THEN Thrown("terminate") ELSE outcome

(* parse_item of a number and of a string. *)
ParseNumber(text) == IF text = Garbage THEN Thrown("error") ELSE Ok(text)
ParseString(text) == Ok(text)

(* What libxml answers without a node set: a number, and maybe no node.    *)
Numbers == {"count"}
NoSetFor(node, q) == q \in Numbers \/ (q \in NoNodeSet /\ Found(node, q) = <<>>)

(* eval(): the nodes in the order of the document.  It returns before the  *)
(* result is freed where there is no node set in it.                       *)
Eval(node, q) ==
  IF q = "malformed" THEN Thrown("error")
  ELSE IF NoSetFor(node, q) THEN Losing(Ok(<<>>), {q}) ELSE Ok(Found(node, q))

(* find(): the one node of a result; nothing else may leave but Nonsingle. *)
TheOne(nodes) ==
  IF nodes.end # "ok" THEN Declared(nodes)
  ELSE IF nodes.value = <<>> THEN Losing(Thrown("no_results"), nodes.lost)
  ELSE IF Len(nodes.value) > 1 THEN Thrown("too_many_results") ELSE Ok(nodes.value[1])

Find(node, q) == TheOne(Eval(node, q))

(* query(): what is parsed of the node found, if it was. *)
ItemIn(x, ParseItem(_)) == IF x.end = "ok" THEN ParseItem(x.value) ELSE x

QueryOne(node, q, ParseItem(_)) == ItemIn(Find(node, q), LAMBDA value : Declared(ParseItem(value)))

(* With a default, also for what is missing deeper in the node found. *)
OrElse(item, default) ==
  IF item.end \in Nonsingle THEN Losing(Ok(default), item.lost) ELSE item

QueryElse(node, q, default, ParseItem(_)) == OrElse(ItemIn(Find(node, q), ParseItem), default)

(* Parts read one after the other: their values, or the first exception,   *)
(* and what is lost until then.                                            *)
InOrder(outcomes) ==
  LET thrown == {i \in DOMAIN outcomes : outcomes[i].end # "ok"}
      read == {i \in DOMAIN outcomes : \A j \in thrown : i <= j}
      whole == IF thrown = {} THEN Ok([i \in DOMAIN outcomes |-> outcomes[i].value])
               ELSE outcomes[Min(thrown)]
  IN [end |-> whole.end, value |-> whole.value, lost |-> UNION {outcomes[i].lost : i \in read}]

Each(nodes, ParseItem(_)) ==
  Losing(InOrder([i \in DOMAIN nodes.value |-> ParseItem(nodes.value[i])]), nodes.lost)

ParseEach(node, q, ParseItem(_)) == Each(Eval(node, q), ParseItem)

(* std::map::insert keeps what is there. *)
Insertion(map, p) ==
  IF p[1] \in DOMAIN map THEN map
  ELSE [key \in DOMAIN map \cup {p[1]} |-> IF key = p[1] THEN p[2] ELSE map[key]]

MapOf(pairs) ==
  LET m[k \in 0 .. Len(pairs)] == IF k = 0 THEN <<>> ELSE Insertion(m[k - 1], pairs[k])
  IN m[Len(pairs)]

Dne == "dne"   \* no bound

Bound(x, q) == QueryElse(x, q, Dne, LAMBDA t : ParseNumber(t))

ParseParameter(x) ==
  InOrder(<<QueryOne(x, "name", ParseString), Bound(x, "Lower"), QueryOne(x, "Initial", ParseNumber),
            Bound(x, "Upper"), QueryElse(x, "Scaling", 1, ParseNumber)>>)

ParseFactor(x) == InOrder(<<QueryOne(x, "param", ParseString), ParseNumber(x.text)>>)

ParseEquation(x) ==
  InOrder(<<Bound(x, "Lower"), Bound(x, "Upper"), ParseEach(x, "Multiply", ParseFactor)>>)

ParseParameters(x) == ParseEach(x, "Param", ParseParameter)

ParseConstraints(x) == ParseEach(x, "Eq", ParseEquation)

(* One column for each parameter; a factor of no parameter has none. *)
MakeRow(parameters, factors) ==
  [i \in DOMAIN parameters |->
     IF parameters[i][1] \in DOMAIN factors THEN factors[parameters[i][1]] ELSE 0]

(* The constructor of Input. *)
ReadInput(root) ==
  InOrder(<<QueryOne(root, "Minimize", ParseString), QueryOne(root, "Parameters", ParseParameters),
            QueryElse(root, "Constraints", <<>>, ParseConstraints),
            QueryElse(root, "InitialStep", 0, ParseNumber)>>)

(* packConstraints() on what it read.  The columns of the matrix are those *)
(* of its first row; an assertion that is compiled in ends the program.    *)
Rows(read) ==
  [k \in DOMAIN read[3] |->
     [lower |-> read[3][k][1], upper |-> read[3][k][2], row |-> MakeRow(read[2], MapOf(read[3][k][3]))]]

Columns(rows) == IF rows = <<>> THEN 0 ELSE Len(rows[1].row)

PackConstraints(read, asserts) ==
  IF asserts /\ Len(read[2]) # Columns(Rows(read)) THEN Thrown("terminate") ELSE Ok(Rows(read))

ParsePoint(x) == InOrder(<<QueryOne(x, "x", ParseNumber), QueryOne(x, "y", ParseNumber)>>)

Scaled(read) ==
  LET point(p) == <<p[1] * read.value[1], p[2] * read.value[2]>>
  IN IF read.end # "ok" THEN read
     ELSE Losing(Ok(MapOf([i \in DOMAIN read.value[3] |-> point(read.value[3][i])])), read.lost)

ParseDataSet(x) ==
  Scaled(InOrder(<<QueryOne(x, "xscale", ParseNumber), QueryOne(x, "yscale", ParseNumber),
                   ParseEach(x, "val", ParsePoint)>>))

NewDoc ==
  Free /\ PutOn([is |-> "xml", doc |-> 0, ctx |-> 0, docs |-> {}, ctxs |-> {}, opened |-> 0,
                 leaked |-> {}, root |-> <<>>, told |-> Ok(0)])

Closed(b) ==
  [b EXCEPT !.docs = @ \ {b.doc}, !.ctxs = @ \ {b.ctx}, !.doc = 0, !.ctx = 0]

Close == On("xml") /\ bench' = [Closed(bench) EXCEPT !.told = Ok(0)]

(* Bug: what is open already is not closed. *)
OpeningAnother(b) ==
  [b EXCEPT !.doc = b.opened + 1, !.docs = @ \cup {b.opened + 1}, !.opened = @ + 1,
            !.ctx = b.opened + 1, !.ctxs = @ \cup {b.opened + 1}]

(* open() closes first.  A file that libxml cannot parse gives no document *)
(* and one without a root, or without memory for a context, is closed.     *)
Opening(b) ==
  [Closed(b) EXCEPT !.doc = b.opened + 1, !.docs = @ \cup {b.opened + 1}, !.opened = @ + 1,
                    !.ctx = b.opened + 1, !.ctxs = @ \cup {b.opened + 1}]

Open(root) ==
  /\ On("xml") /\ bench.opened < MaxOpens
  /\ bench' = [Opening(bench) EXCEPT !.root = root, !.told = Ok(0)]

OpenUnparsable ==
  /\ On("xml") /\ bench.opened < MaxOpens
  /\ bench' = [Closed(bench) EXCEPT !.opened = @ + 1, !.told = Thrown("error")]

OpenWithoutRoot ==
  /\ On("xml") /\ bench.opened < MaxOpens
  /\ bench' = [Closed(Opening(bench)) EXCEPT !.told = Thrown("error")]

(* assertOpen() comes before every query. *)
IsOpen == bench.doc # 0 /\ bench.ctx # 0

Tell(outcome) == bench' = [bench EXCEPT !.told = outcome, !.leaked = @ \cup outcome.lost]

FindRoot(q) ==
  On("xml") /\ Tell(IF IsOpen THEN Find(bench.root, q) ELSE Declared(Thrown("error")))

ReadFile ==
  /\ On("xml")
  /\ LET read == IF IsOpen THEN ReadInput(bench.root) ELSE Thrown("error")
     IN \/ read.end # "ok" /\ Tell(read)
        \/ /\ read.end = "ok"
           /\ \E asserts \in BOOLEAN : Tell(Losing(PackConstraints(read.value, asserts), read.lost))

ReadData == On("xml") /\ IsOpen /\ Tell(ParseDataSet(bench.root))

(* The destructor, on the way of an exception too. *)
DestroyDoc ==
  /\ On("xml") /\ bench.told.end # "terminate"
  /\ bench' = [Closed(bench) EXCEPT !.is = "closed doc"]

Terminate == On("xml") /\ bench.told.end = "terminate" /\ bench' = NothingThere

DocumentsNext ==
  \/ NewDoc \/ DestroyDoc \/ Terminate \/ TakeOff("closed doc")
  \/ /\ On("xml") => bench.told.end # "terminate"
     /\ \/ Close \/ OpenUnparsable \/ OpenWithoutRoot \/ ReadFile \/ ReadData
        \/ \E root \in Inputs \cup DataSets : Open(root)
        \/ \E q \in {"Parameters", "malformed"} \cup Numbers : FindRoot(q)
-----------------------------------------------------------------------------
(* What the file at the root says, and whether a factor names a parameter. *)
Constraints(root) ==
  IF Len(Found(root, "Constraints")) = 1 THEN Found(root.Constraints[1], "Eq") ELSE <<>>

Named(factor) == "param" \in DOMAIN factor /\ Len(factor.param) = 1

(* What was read of the file at the root, if it could be. *)
InputRead(root) ==
  LET read == ReadInput(root)
      packed == PackConstraints(read.value, FALSE).value
      params == Found(root.Parameters[1], "Param")
      eqs == Constraints(root)
      factors(k) == Found(eqs[k], "Multiply")
      named == \A k \in DOMAIN eqs : \A m \in DOMAIN factors(k) : Named(factors(k)[m])
  IN read.end = "ok" =>
       /\ [i \in DOMAIN read.value[2] |-> read.value[2][i][1]] = [i \in DOMAIN params |-> params[i].name[1]]
       /\ \A i \in DOMAIN params : params[i].Initial = <<read.value[2][i][3]>>
       /\ Len(packed) = IF named THEN Len(eqs) ELSE 0
       /\ \A k \in DOMAIN packed : \A i \in DOMAIN params :
            LET own == {m \in DOMAIN factors(k) : factors(k)[m].param = params[i].name}
            IN packed[k].row[i] = IF own = {} THEN 0 ELSE factors(k)[Min(own)].text
       /\ PackConstraints(read.value, TRUE).end = "ok" <=> params = <<>> \/ (named /\ eqs # <<>>)

(* Whatever is asked for below a root is there, or has a node set without. *)
Answered(node, qs) == \A q \in qs \cap NoNodeSet : Found(node, q) # <<>>

InputAnswered(root) ==
  /\ Answered(root, {"Minimize", "Parameters", "Constraints", "InitialStep"})
  /\ \A x \in Children(root, "Parameters") :
       /\ Answered(x, {"Param"})
       /\ \A p \in Children(x, "Param") : Answered(p, {"name", "Lower", "Initial", "Upper", "Scaling"})
  /\ \A x \in Children(root, "Constraints") :
       /\ Answered(x, {"Eq"})
       /\ \A eq \in Children(x, "Eq") :
            /\ Answered(eq, {"Lower", "Upper", "Multiply"})
            /\ \A f \in Children(eq, "Multiply") : Answered(f, {"param"})

DataAnswered(root) ==
  /\ Answered(root, {"xscale", "yscale", "val"})
  /\ \A p \in Children(root, "val") : Answered(p, {"x", "y"})

DataRead(root) ==
  LET read == ParseDataSet(root)
      vals == Found(root, "val")
  IN read.end = "ok" =>
       \A x \in DOMAIN read.value :
         LET at == {i \in DOMAIN vals : vals[i].x[1] * root.xscale[1] = x}
         IN at # {} /\ read.value[x] = vals[Min(at)].y[1] * root.yscale[1]

(* Whatever was opened, failed to open, read and closed before, libxml     *)
(* holds just the document and the context that the Doc can still close,   *)
(* and neither after it.  Results that eval() never frees are left of      *)
(* numbers and of paths that libxml answers without a node set only, and   *)
(* none by reading a file in which each such path finds something.  An     *)
(* input that is read has each parameter of the file, in its order and     *)
(* with its initial value, and each constraint with a column for each      *)
(* parameter that holds its first factor there; but no constraint at all   *)
(* if a factor of any of them does not name one parameter, for then the    *)
(* default is taken for the whole of them.  With assertions it is packed   *)
(* only if there are constraints left, or no parameters.  In data the      *)
(* first of two points at the same place stays.                            *)
DocumentsRead ==
  /\ On("xml") => bench.docs = {bench.doc} \ {0} /\ bench.ctxs = {bench.ctx} \ {0}
  /\ On("closed doc") => bench.docs = {} /\ bench.ctxs = {}
  /\ On("xml") \/ On("closed doc") => bench.leaked \subseteq Numbers \cup NoNodeSet
  /\ On("xml") /\ IsOpen =>
       /\ bench.root \in Inputs => /\ InputRead(bench.root)
                                   /\ InputAnswered(bench.root) => ReadInput(bench.root).lost = {}
       /\ bench.root \in DataSets => /\ DataRead(bench.root)
                                     /\ DataAnswered(bench.root) => ParseDataSet(bench.root).lost = {}
=============================================================================
