------------------------------- MODULE GraphRows -------------------------------
(***************************************************************************)
(* The rows of the graph database: what the import makes of the CSV files  *)
(* of one source, and what removing a source takes away.  A database is a  *)
(* record of tables.  A class is known by its name and source, and a       *)
(* method by its row; a source is loaded at most once (GraphSetup is about *)
(* when).                                                                  *)
(***************************************************************************)
EXTENDS SmaliCsv, GraphSources

ASSUME RowsAssumption == Framework \notin Apk /\ DOMAIN Smali = Source

ClassId(name, source) == [name |-> name, source |-> source]
IdOf(row) == ClassId(row.name, row.source)
Ids(db) == {IdOf(row) : row \in db.classes}

EmptyDb ==
  [classes |-> {}, supers |-> {}, interfaces |-> {}, fields |-> {}, methods |-> {},
   calls |-> {}, access |-> {}, strings |-> {}, methodStrings |-> {}]

(* A name in the files of a source is its own class of that name, or else  *)
(* the framework's.                                                        *)
Resolve(db, name, source) ==
  IF ClassId(name, source) \in Ids(db) THEN {ClassId(name, source)}
  ELSE {ClassId(name, Framework)} \cap Ids(db)

(* Classes that no file defines belong to the framework.                   *)
WithUnknown(db, names, source, flags) ==
  [db EXCEPT !.classes =
     @ \cup {[name |-> n, source |-> Framework, flags |-> flags] :
              n \in {n \in names : Resolve(db, n, source) = {}}}]

(* The relations know of a method its class, name and signature; methods   *)
(* that differ only in what they return are not told apart.                *)
MethodsNamed(db, class, named) ==
  {m \in db.methods : m.class = class /\ m.name = named.name /\ m.args = named.args}

-------------------------------------------------------------------------------
LoadClasses(db, s) ==
  [db EXCEPT !.classes =
     @ \cup {[name |-> c.name, source |-> s, flags |-> c.flags] : c \in Csv[s].classes}]

LoadSupers(db, s) ==
  LET known == WithUnknown(db, {e.parent : e \in Csv[s].supers}, s, "plain")
  IN [known EXCEPT !.supers =
        @ \cup UNION {{[parent |-> p, child |-> ClassId(e.child, s), source |-> s] :
                         p \in Resolve(known, e.parent, s)} :
                      e \in {e \in Csv[s].supers : ClassId(e.child, s) \in Ids(known)}}]

LoadInterfaces(db, s) ==
  LET known == WithUnknown(db, {e.interface : e \in Csv[s].interfaces}, s, "interface")
  IN [known EXCEPT !.interfaces =
        @ \cup UNION {{[interface |-> i, class |-> ClassId(e.class, s), source |-> s] :
                         i \in Resolve(known, e.interface, s)} :
                      e \in {e \in Csv[s].interfaces : ClassId(e.class, s) \in Ids(known)}}]

LoadFields(db, s) ==
  [db EXCEPT !.fields =
     @ \cup {[class |-> ClassId(f.class, s), name |-> f.name, type |-> f.type] :
              f \in {f \in Csv[s].fields : ClassId(f.class, s) \in Ids(db)}}]

LoadMethods(db, s) ==
  [db EXCEPT !.methods =
     @ \cup {[class |-> ClassId(m.class, s), name |-> m.name, args |-> m.args,
              ret |-> m.ret, source |-> s] :
              m \in {m \in Csv[s].methods : ClassId(m.class, s) \in Ids(db)}}]

(* Fault: a method that no file defines is not added.                      *)
WithCalleesKnown(db, s) ==
  WithUnknown(db, {c.callee.class : c \in Csv[s].calls}, s, "plain")

(* A callee that has no row yet gets one, of the source that calls it, as  *)
(* if it returned nothing.                                                 *)
WithCallees(db, s) ==
  LET known == WithUnknown(db, {c.callee.class : c \in Csv[s].calls}, s, "plain")
      new == UNION {{[class |-> d, name |-> c.callee.name, args |-> c.callee.args,
                      ret |-> "V", source |-> s] :
                       d \in {d \in Resolve(known, c.callee.class, s) :
                                MethodsNamed(known, d, c.callee) = {}}} :
                    c \in Csv[s].calls}
  IN [known EXCEPT !.methods = @ \cup new]

(* Direct recursion is left out, but between methods that differ in what   *)
(* they return.                                                            *)
LoadCalls(db, s) ==
  LET known == WithCallees(db, s)
      ends(c) == MethodsNamed(known, ClassId(c.caller.class, s), c.caller) \X
                 UNION {MethodsNamed(known, d, c.callee) :
                          d \in Resolve(known, c.callee.class, s)}
  IN [known EXCEPT !.calls =
        @ \cup {[caller |-> e[1], callee |-> e[2], source |-> s] :
                  e \in {e \in UNION {ends(c) : c \in Csv[s].calls} : e[1] # e[2]}}]

LoadAccess(db, s) ==
  LET rows(a) ==
        {[field |-> f, method |-> m, action |-> a.action] :
           f \in {f \in db.fields : /\ f.class \in Resolve(db, a.field.class, s)
                                    /\ f.name = a.field.name /\ f.type = a.field.type},
           m \in MethodsNamed(db, ClassId(a.method.class, s), a.method)}
  IN [db EXCEPT !.access = @ \cup UNION {rows(a) : a \in Csv[s].access}]

LoadStrings(db, s) ==
  [db EXCEPT !.strings = @ \cup {[string |-> x, source |-> s] : x \in Csv[s].strings}]

LoadMethodStrings(db, s) ==
  LET rows(u) ==
        {[string |-> x, method |-> m] :
           x \in {x \in db.strings : x.string = u.string /\ x.source = s},
           m \in MethodsNamed(db, ClassId(u.method.class, s), u.method)}
  IN [db EXCEPT !.methodStrings = @ \cup UNION {rows(u) : u \in Csv[s].methodStrings}]

(* The files are loaded in the order of CSV::all().                        *)
WithSource(db, s) ==
  LET hierarchy == LoadInterfaces(LoadSupers(LoadClasses(db, s), s), s)
      code == LoadCalls(LoadMethods(LoadFields(hierarchy, s), s), s)
  IN LoadMethodStrings(LoadStrings(LoadAccess(code, s), s), s)

-------------------------------------------------------------------------------
(* ON DELETE CASCADE takes the rows that refer to a row that goes.         *)
WithoutSource(db, s) ==
  LET gone == {IdOf(c) : c \in {c \in db.classes : c.source = s}}
      kept == {m \in db.methods : m.source # s /\ m.class \notin gone}
      fields == {f \in db.fields : f.class \notin gone}
      strings == {x \in db.strings : x.source # s}
  IN [classes |-> {c \in db.classes : c.source # s},
      supers |-> {e \in db.supers :
                    e.source # s /\ e.parent \notin gone /\ e.child \notin gone},
      interfaces |-> {e \in db.interfaces :
                        e.source # s /\ e.interface \notin gone /\ e.class \notin gone},
      fields |-> fields,
      methods |-> kept,
      calls |-> {c \in db.calls : c.source # s /\ c.caller \in kept /\ c.callee \in kept},
      access |-> {a \in db.access : a.field \in fields /\ a.method \in kept},
      strings |-> strings,
      methodStrings |-> {u \in db.methodStrings : u.string \in strings /\ u.method \in kept}]
===============================================================================
