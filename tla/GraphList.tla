------------------------------- MODULE GraphList -------------------------------
(***************************************************************************)
(* The find and list commands over the graph database that keep no cache:  *)
(* what each prints, as a function of the rows.  A command that prints     *)
(* something gives Some, one that ends with an error None.                 *)
(***************************************************************************)
EXTENDS GraphQuery

(* How rows are printed.  A method that is called but not defined is of    *)
(* the source that calls it and of a class of another; each query says     *)
(* which of the two it selects.                                            *)
MethodSpec(m, source) ==
  [class |-> m.class.name, name |-> m.name, args |-> m.args, ret |-> m.ret, source |-> source]

FieldSpec(f) ==
  [class |-> f.class.name, name |-> f.name, type |-> f.type, source |-> f.class.source]

(* The default of --source.                                                *)
OrFramework(source) == IF source = None THEN Some(Framework) ELSE source

(* --only-write and --only-read.                                           *)
Operation(only) ==
  IF only.write THEN Some("write") ELSE IF only.read THEN Some("read") ELSE None

-------------------------------------------------------------------------------
(* find methods.                                                           *)

MethodSpecsFor(db, q) ==
  IF MethodSearchOk(q) THEN Some({MethodSpec(m, m.source) : m \in MethodSpecs(db, q)}) ELSE None

MethodsByName(db, name, source) ==
  MethodSpecsFor(db, [name |-> Some(name), class |-> None, args |-> None, source |-> source])

MethodsByClass(db, class, source) ==
  MethodSpecsFor(db, [name |-> None, class |-> Some(class), args |-> None, source |-> source])

MethodsBySource(db, source) ==
  Some({MethodSpec(m, source) : m \in {m \in MethodsFor(db, source) : m.class \in Ids(db)}})

(* by-string and by-string-like: the source is that of the string.         *)
MethodsByString(db, text, source) ==
  Some({MethodSpec(u.method, u.string.source) :
          u \in {u \in UsesOf(db, text) : Fits(source, u.string.source)}})

(* by-field: the source is that of the class.                              *)
MethodsByField(db, class, name, only, source) ==
  LET fields == FieldIds(db, [class |-> Some(class), name |-> Some(name), type |-> None,
                              source |-> source])
  IN IF only.read /\ only.write THEN None
     ELSE Some(UNION {{MethodSpec(m, m.class.source) :
                         m \in MethodsReferencing(db, f, Operation(only))} : f \in fields})

-------------------------------------------------------------------------------
(* find fields and find strings.                                           *)

FieldsBySpec(db, class, name, source) ==
  LET q == [class |-> Some(class), name |-> name, type |-> None, source |-> source]
  IN IF FieldSearchOk(q) THEN Some({FieldSpec(f) : f \in FieldSpecs(db, q)}) ELSE None

FieldsByMethod(db, q, only) ==
  IF MethodSearchOk(q)
  THEN Some(UNION {{FieldSpec(r.field) :
                      r \in {r \in FieldRefs(db, m) : Fits(Operation(only), r.op)}}
                   : m \in MethodIds(db, q)})
  ELSE None

StringsBySource(db, source) == StringsFor(db, OrFramework(source)[1])

StringsByMethod(db, q) ==
  IF MethodSearchOk(q)
  THEN Some({[method |-> MethodSpec(m, m.source), strings |-> StringsForMethod(db, m)] :
               m \in {m \in MethodSpecs(db, q) : StringsForMethod(db, m) # {}}})
  ELSE None

(* find class: the sources that have it.                                   *)
SourcesOfClass(db, name) == {c.source : c \in {c \in db.classes : c.name = name}}

-------------------------------------------------------------------------------
(* list children, interface-impl and parents.  The option --source is the  *)
(* source of the class that is asked about.  Without it the class is the   *)
(* framework's, and where that has none, that of any source.               *)

Listed(found, anywhere, source, noFallback) ==
  IF found # {} THEN Some(found)
  ELSE IF source # None \/ noFallback \/ anywhere = {} THEN None
  ELSE Some(anywhere)

Children(db, class, source, noFallback) ==
  Listed(ChildrenOf(db, class, OrFramework(source), None),
         ChildrenOf(db, class, None, None), source, noFallback)

InterfaceImpl(db, class, source, noFallback) ==
  Listed(Implementing(db, class, OrFramework(source), None),
         Implementing(db, class, None, None), source, noFallback)

Parents(db, class, source) ==
  Listed(ParentsOf(db, class, source), {}, Some(source), TRUE)
===============================================================================
