------------------------------- MODULE GraphQuery -------------------------------
(***************************************************************************)
(* The searches of GraphSqliteDatabase, as functions of the rows.  An      *)
(* optional argument of a search is a sequence of at most one value.       *)
(***************************************************************************)
EXTENDS GraphRows, SequencesExt

None == <<>>
Some(v) == <<v>>
Fits(option, v) == option = None \/ option = Some(v)

(* Pattern(p) is the set of strings that LIKE p matches.                   *)
CONSTANT Pattern
IsPattern(text) == text \in DOMAIN Pattern

(* A pattern matches itself.                                               *)
ASSUME PatternAssumption == \A p \in DOMAIN Pattern : p \in Pattern[p]

-------------------------------------------------------------------------------
(* Searches for methods and fields, by the parts that are given.           *)

(* MethodSearchParams::new: no class with a signature alone, and not       *)
(* neither class nor name.                                                 *)
MethodSearchOk(q) ==
  q.name # None \/ (q.class # None /\ q.args = None)

FieldSearchOk(q) == q.name # None \/ q.type = None

MethodIds(db, q) ==
  {m \in db.methods :
     /\ Fits(q.name, m.name) /\ Fits(q.class, m.class.name) /\ Fits(q.args, m.args)
     /\ Fits(q.source, m.source)}

(* The same rows with their class, which must be there.                    *)
MethodSpecs(db, q) == {m \in MethodIds(db, q) : m.class \in Ids(db)}

FieldIds(db, q) ==
  {f \in db.fields :
     /\ Some(f.class.name) = q.class /\ Fits(q.name, f.name) /\ Fits(q.type, f.type)
     /\ Fits(q.source, f.class.source)}

FieldSpecs(db, q) == {f \in FieldIds(db, q) : f.class \in Ids(db)}

ClassesWithMethod(db, name, args, source) ==
  {c \in db.classes :
     /\ Fits(source, c.source)
     /\ \E m \in db.methods : m.class = IdOf(c) /\ m.name = name /\ Fits(args, m.args)}

MethodsFor(db, source) == {m \in db.methods : m.source = source}
ClassesFor(db, source) == {c.name : c \in {c \in db.classes : c.source = source}}

FieldRefs(db, m) == {[field |-> a.field, op |-> a.action] : a \in {a \in db.access : a.method = m}}

MethodsReferencing(db, f, action) ==
  {a.method : a \in {a \in db.access : a.field = f /\ Fits(action, a.action)}}

(* Strings, exactly or by a pattern.  Methods for a pattern are those of   *)
(* the strings it matches that are also equal to it.                       *)
Matching(db, text) ==
  {x \in db.strings : IF IsPattern(text) THEN x.string \in Pattern[text] ELSE x.string = text}

FindStrings(db, text, source) == {x \in Matching(db, text) : Fits(source, x.source)}

StringsFor(db, source) == {x.string : x \in {x \in db.strings : x.source = source}}

UsesOf(db, text) ==
  {u \in db.methodStrings : u.string \in Matching(db, text) /\ u.string.string = text}

StringsForMethod(db, m) == {u.string.string : u \in {u \in db.methodStrings : u.method = m}}

-------------------------------------------------------------------------------
(* The class hierarchy.  The recursion follows the edges for as long as    *)
(* there are any, so it ends only when they have no cycle.                 *)

Below(edges, start) ==
  LET level[n \in 0 .. Cardinality(edges)] ==
        IF n = 0 THEN start
        ELSE LET above == level[n - 1] IN {e[2] : e \in {e \in edges : e[1] \in above}}
  IN UNION {level[n] : n \in 1 .. Cardinality(edges)}

SuperEdges(db) == {<<e.parent, e.child>> : e \in db.supers}
InterfaceEdges(db) == {<<e.interface, e.class>> : e \in db.interfaces}
Upwards(edges) == {<<e[2], e[1]>> : e \in edges}

ClassIds(db, name, source) ==
  {c \in Ids(db) : c.name = name /\ Fits(source, c.source)}

ParentsOf(db, name, source) ==
  Below(Upwards(SuperEdges(db)), ClassIds(db, name, Some(source))) \cap Ids(db)

ChildrenOf(db, name, nameSource, source) ==
  {c \in Below(SuperEdges(db), ClassIds(db, name, nameSource)) : Fits(source, c.source)}

(* Fault: the children of the classes that implement it are left out.      *)
ImplementingItself(db, name, nameSource, source) ==
  {c \in Below(InterfaceEdges(db), ClassIds(db, name, nameSource)) : Fits(source, c.source)}

Implementing(db, name, nameSource, source) ==
  LET itself == Below(InterfaceEdges(db), ClassIds(db, name, nameSource))
  IN {c \in itself \cup Below(SuperEdges(db), itself) : Fits(source, c.source)}

-------------------------------------------------------------------------------
(* Chains of calls.  "into" goes from a method to its callers, "from" to   *)
(* its callees.                                                            *)

Onward(db, direction, m) ==
  IF direction = "into" THEN {c.caller : c \in {c \in db.calls : c.callee = m}}
  ELSE {c.callee : c \in {c \in db.calls : c.caller = m}}

(* calls_to: the paths of the recursive query at each distance, a UNION,   *)
(* cycles and all.                                                         *)
CallsTo(db, direction, start, depth) ==
  LET paths[n \in 0 .. depth] ==
        IF n = 0 THEN {<<m>> : m \in start}
        ELSE UNION {{Append(p, m) : m \in Onward(db, direction, Last(p))} : p \in paths[n - 1]}
  IN UNION {paths[n] : n \in 1 .. depth}

(* method_calls: a row for each method of each path with its index in it.  *)
(* The statement does not order them; that a path's rows follow each other *)
(* in the order of the path is how SQLite runs its joins.                  *)
Rows(paths) ==
  LET rowsOf(p) == [i \in DOMAIN p |-> [method |-> p[i], idx |-> i - 1]]
  IN FoldSet(LAMBDA p, rows : rows \o rowsOf(p), <<>>, paths)

(* PathRowIterator::collect: a row with index 0 begins a path.             *)
Split(rows, reverse) ==
  LET take(paths, row) ==
        IF row.idx = 0 THEN Append(paths, <<row.method>>)
        ELSE [paths EXCEPT ![Len(paths)] =
                IF reverse THEN <<row.method>> \o @ ELSE Append(@, row.method)]
  IN FoldLeft(take, <<>>, rows)

GetCalls(db, direction, q, callSource, depth) ==
  LET rows == Rows(CallsTo(db, direction, MethodIds(db, q), depth))
  IN SelectSeq(Split(rows, direction = "into"), LAMBDA p : Fits(callSource, p[1].source))

FindCallers(db, q, callSource, depth) == GetCalls(db, "into", q, callSource, depth)
FindOutgoingCalls(db, q, depth) == GetCalls(db, "from", q, None, depth)
===============================================================================
