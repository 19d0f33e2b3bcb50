------------------------------- MODULE GraphFind -------------------------------
(***************************************************************************)
(* `dtu find ...` over a graph database that sources are added to and      *)
(* removed from, with the cache files of the project between a command and *)
(* the searches of GraphQuery.                                             *)
(***************************************************************************)
EXTENDS GraphList

CONSTANTS
  Text,        \* the characters of each name, signature and source
  Stem,        \* as_squashed_str_no_ext() of each APK
  Components,  \* receivers, services, activities and providers of the device
  Searches,    \* what may be asked about methods: name, class, args, source
  Depths,      \* values of --depth
  Filters,     \* sources or none that calls may be filtered by
  Options,     \* of a search over components: onlyExported, onlyEnabled, noPerms
  MaxCommands, \* bound: find commands
  MaxRemovals  \* bound: sources removed

ASSUME FindAssumption ==
  /\ DOMAIN Stem = Apk
  /\ Depths \subseteq Nat /\ MaxCommands \in Nat /\ MaxRemovals \in Nat
  /\ \A c \in Components : c.apk \in Apk

VARIABLES
  db,       \* the graph database
  sources,  \* the sources imported into it
  cache,    \* the cache files: for each name the result and, as a history, the
            \* database it was computed from
  shown,    \* the last command, what it showed and where that came from
  commands, removals

findVars == <<db, sources, cache, shown, commands, removals>>

Nothing == [cmd |-> "none"]

FindInit ==
  /\ db = EmptyDb /\ sources = {}
  /\ cache = <<>>
  /\ shown = Nothing
  /\ commands = 0 /\ removals = 0

-------------------------------------------------------------------------------
(* `graph setup` and `graph remove-source`.  The framework is the first    *)
(* source of every import.                                                 *)
ImportSource(s) ==
  /\ s \notin sources
  /\ s = Framework \/ Framework \in sources
  /\ sources' = sources \cup {s}
  /\ db' = WithSource(db, s)
  /\ shown' = Nothing
  /\ UNCHANGED <<cache, commands, removals>>

DropSource(s) ==
  /\ s \in sources /\ removals < MaxRemovals
  /\ sources' = sources \ {s}
  /\ db' = WithoutSource(db, s)
  /\ removals' = removals + 1
  /\ shown' = Nothing
  /\ UNCHANGED <<cache, commands>>

-------------------------------------------------------------------------------
(* Names of cache files.  oshash adds the characters of an option that is  *)
(* given and nothing for one that is not.                                  *)
Hashed(options) ==
  FlattenSeq([i \in DOMAIN options |-> IF options[i] = None THEN <<>> ELSE Text[options[i][1]]])

CallersFile(q, depth) ==
  <<"find-callers", Hashed(<<q.source, q.source, q.name, q.args, q.class>>), depth>>

(* Fault: the depth is not part of the name.                               *)
OutgoingFileNoDepth(q, depth) ==
  <<"find-outgoing-call", Hashed(<<q.source, q.name, q.args, q.class>>)>>

OutgoingFile(q, depth) ==
  <<"find-outgoing-call", Hashed(<<q.source, q.name, q.args, q.class>>), depth>>

ClassFile(name, args, source) ==
  <<"find-class-with-method", Hashed(<<Some(name), args, source>>)>>

(* The name of a search over components: the APK to its first dot, or      *)
(* "all"; and one of four tags.                                            *)
Prefix(apk) == IF apk = None THEN "all" ELSE Stem[apk[1]]
BitsTag(o) == <<o.onlyExported, o.onlyEnabled>>

IpcFile(q, o, depth) ==
  <<Prefix(q.source), "ipc-calls", Hashed(<<q.name, q.args, q.class>>), o.noPerms, depth, BitsTag(o)>>
ParseUriFile(apk, o) == <<Prefix(apk), "ipc-ParseUri", 1, BitsTag(o)>>
IntentsFile(apk, strict) == <<Prefix(apk), "intent-activities", strict>>

(* project_cacheable: a file that is there answers unless --no-cache is    *)
(* given; a result that was computed is written to it, as far as it is     *)
(* saved.  The command displays something of what the file or the search   *)
(* gave it, which is Answer.                                               *)
Answer(file, noCache, result) ==
  IF file \in DOMAIN cache /\ ~noCache THEN cache[file].result ELSE result

Cached(file, noCache, saved, cmd, displayed) ==
  \/ /\ file \in DOMAIN cache /\ ~noCache
     /\ shown' = cmd @@ [result |-> displayed, from |-> cache[file].db]
     /\ UNCHANGED cache
  \/ /\ file \notin DOMAIN cache \/ noCache
     /\ shown' = cmd @@ [result |-> displayed, from |-> db]
     /\ cache' = (file :> [result |-> saved, db |-> db]) @@ cache

(* Every command needs the graph database.                                 *)
Command ==
  /\ Framework \in sources /\ commands < MaxCommands
  /\ commands' = commands + 1
  /\ UNCHANGED <<db, sources, removals>>

-------------------------------------------------------------------------------
(* The last method of a path is left out when its name was asked for; as   *)
(* --json the paths are whole.                                             *)
Lines(q, json, paths) == {IF json \/ q.name = None THEN p ELSE Front(p) : p \in paths}

Callers(q, callSource, depth, json, noCache) ==
  LET file == CallersFile(q, depth)
      found == ToSet(FindCallers(db, q, callSource, depth))
  IN /\ Command
     /\ MethodSearchOk(q)
     /\ Cached(file, noCache, found,
               [cmd |-> "callers", q |-> q, source |-> callSource, depth |-> depth, json |-> json],
               Lines(q, json, Answer(file, noCache, found)))

(* The source the calls go into is filtered after the cache, and not as    *)
(* --json.                                                                 *)
Into(source, json, paths) == {p \in paths : json \/ Fits(source, Last(p).source)}

Outgoing(q, into, depth, json, noCache) ==
  LET file == OutgoingFile(q, depth)
      found == ToSet(FindOutgoingCalls(db, q, depth))
  IN /\ Command
     /\ MethodSearchOk(q)
     /\ Cached(file, noCache, found,
               [cmd |-> "outgoing", q |-> q, source |-> into, depth |-> depth, json |-> json],
               Lines(q, json, Into(into, json, Answer(file, noCache, found))))

(* The access flags are not written to the cache file.                     *)
Flagless(classes) == {[c EXCEPT !.flags = "none"] : c \in classes}
Concrete(classes, noAbstract) ==
  {IdOf(c) : c \in {c \in classes : noAbstract => c.flags \notin {"abstract", "interface"}}}

ClassesWith(name, args, source, noAbstract, noCache) ==
  LET file == ClassFile(name, args, source)
      found == ClassesWithMethod(db, name, args, source)
  IN /\ Command
     /\ Cached(file, noCache, Flagless(found),
               [cmd |-> "class", name |-> name, args |-> args, source |-> source,
                noAbstract |-> noAbstract],
               Concrete(Answer(file, noCache, found), noAbstract))

-------------------------------------------------------------------------------
(* Searches over the components that other applications can reach.         *)

Selected(o) ==
  {c \in Components : /\ o.onlyExported => c.exported
                      /\ o.onlyEnabled => c.enabled
                      /\ o.noPerms => ~c.guarded}

(* Fault: classes of the same name are one.                                *)
ReachingByName(paths, components) ==
  {[apk |-> c.apk, path |-> p] : c \in components,
     p \in {p \in ToSet(paths) : \E d \in components : p[1].class.name = d.class}}

(* The paths of the callers are kept by the class and source they start    *)
(* in, the last one of each, and looked up for each component.             *)
Reaching(paths, components) ==
  UNION {LET own == SelectSeq(paths, LAMBDA p : p[1].class.name = c.class /\ p[1].source = c.apk)
         IN IF own = <<>> THEN {} ELSE {[apk |-> c.apk, path |-> Last(own)]}
         : c \in components}

Ipc(q, o, depth, noCache) ==
  LET file == IpcFile(q, o, depth)
      found == Reaching(FindCallers(db, q, None, depth), Selected(o))
  IN /\ Command
     /\ MethodSearchOk(q)
     /\ Cached(file, noCache, found,
               [cmd |-> "ipc", q |-> q, options |-> o, depth |-> depth],
               Answer(file, noCache, found))

ParseUriSearch(apk) ==
  [name |-> Some("parseUri"), class |-> Some("Intent"), args |-> Some("String,I"), source |-> apk]

ParseUri(apk, o, noCache) ==
  LET file == ParseUriFile(apk, o)
      found == Reaching(FindCallers(db, ParseUriSearch(apk), None, 1), Selected(o))
  IN /\ Command
     /\ Cached(file, noCache, found, [cmd |-> "parse-uri", apk |-> apk, options |-> o],
               Answer(file, noCache, found))

(* With --no-perms these are the activities that need a permission.        *)
OpenActivities(noPerms) ==
  {c \in Components : c.kind = "activity" /\ c.enabled /\ c.exported /\ (noPerms => c.guarded)}

IntentActivities(apk, noPerms, strict, noCache) ==
  LET q == [name |-> Some("getIntent"), class |-> IF strict THEN Some("Activity") ELSE None,
            args |-> Some(""), source |-> apk]
      file == IntentsFile(apk, strict)
      found == Reaching(FindCallers(db, q, None, 1), OpenActivities(noPerms))
  IN /\ Command
     /\ Cached(file, noCache, found,
               [cmd |-> "intents", apk |-> apk, noPerms |-> noPerms, strict |-> strict],
               Answer(file, noCache, found))

-------------------------------------------------------------------------------
Apks == {f \in Filters : f = None \/ f[1] \in Apk}

FindNext ==
  \/ \E s \in Source : ImportSource(s)
  \/ \E s \in Apk : DropSource(s)
  \/ \E q \in Searches, n \in Depths, noCache \in BOOLEAN :
       \/ \E s \in Filters, json \in BOOLEAN : Callers(q, s, n, json, noCache)
       \/ \E s \in Filters, json \in BOOLEAN : Outgoing(q, s, n, json, noCache)
       \/ \E o \in Options : Ipc(q, o, n, noCache)
  \/ \E q \in Searches, noAbstract, noCache \in BOOLEAN :
       q.name # None /\ ClassesWith(q.name[1], q.args, q.source, noAbstract, noCache)
  \/ \E a \in Apks, noCache \in BOOLEAN :
       \E o \in Options :
         \/ ParseUri(a, o, noCache)
         \/ \E strict \in BOOLEAN : IntentActivities(a, o.noPerms, strict, noCache)

FindSpec == FindInit /\ [][FindNext]_findVars

-------------------------------------------------------------------------------
(* What the files say, without the database.                               *)

Defines(s, name) == \E c \in Csv[s].classes : c.name = name
DefinedId(name, s) == IF Defines(s, name) THEN ClassId(name, s) ELSE ClassId(name, Framework)

(* A method or field of the files of a source, as the commands print it.   *)
MethodOf(m, s) ==
  [class |-> m.class, name |-> m.name, args |-> m.args, ret |-> m.ret, source |-> s]
FieldOf(f, s) == [class |-> f.class, name |-> f.name, type |-> f.type, source |-> s]

Spelled(s, method) ==
  [class |-> Some(method.class), name |-> Some(method.name), args |-> Some(method.args),
   source |-> Some(s)]

(* The methods that a source defines with the class, name and signature of *)
(* m, which is all that calls, accesses and strings are kept by.           *)
Overloads(m, s) ==
  {d \in Csv[s].methods : d.class = m.class /\ d.name = m.name /\ d.args = m.args}
MethodsOf(m, s) == {MethodOf(d, s) : d \in Overloads(m, s)}

CallsPresent ==
  \A s \in sources : \A c \in SaidCalls[s] :
    LET callee == DefinedId(c.callee.class, s)
        defined == Overloads(c.callee, callee.source) # {}
    IN (defined \/ removals = 0) /\ (c.caller # c.callee \/ callee.source # s)
       => \A m \in Overloads(c.caller, s) :
            \E row \in db.calls :
              /\ row.source = s /\ row.callee.class = callee
              /\ MethodSpec(row.caller, s) = MethodOf(m, s)
              /\ row.callee.name = c.callee.name /\ row.callee.args = c.callee.args

(* The commands that name a method, a class or a source list what the      *)
(* files define.                                                           *)
DefinitionsPresent ==
  \A s \in sources :
    /\ \A c \in Csv[s].classes : c.name \in ClassesFor(db, s) /\ s \in SourcesOfClass(db, c.name)
    /\ \A m \in Csv[s].methods :
         LET spec == MethodOf(m, s)
         IN \A source \in {None, Some(s)} :
              /\ spec \in MethodsByName(db, m.name, source)[1]
              /\ spec \in MethodsByClass(db, m.class, source)[1]
              /\ spec \in MethodsBySource(db, s)[1]
    /\ \A f \in Csv[s].fields : \A name \in {None, Some(f.name)} :
         FieldOf(f, s) \in FieldsBySpec(db, f.class, name, Some(s))[1]

(* The accesses in the files whose field is defined in one, which are      *)
(* those that the searches by field and by method find.                    *)
Accesses ==
  UNION {{[field |-> FieldOf(a.field, DefinedId(a.field.class, s).source),
           method |-> a.method, source |-> s, action |-> a.action] :
            a \in {a \in Csv[s].access :
                     a.field \in Csv[DefinedId(a.field.class, s).source].fields}}
         : s \in sources}

AccessesPresent ==
  \A only \in [write : BOOLEAN, read : BOOLEAN] :
    LET asked == {a \in Accesses : Fits(Operation(only), a.action)}
    IN /\ ~(only.write /\ only.read) =>
            \A f \in {a.field : a \in Accesses} :
              MethodsByField(db, f.class, f.name, only, Some(f.source)) =
                Some(UNION {MethodsOf(a.method, a.source) :
                              a \in {a \in asked : /\ a.field.class = f.class
                                                   /\ a.field.name = f.name
                                                   /\ a.field.source = f.source}})
       /\ \A by \in Accesses :
            FieldsByMethod(db, Spelled(by.source, by.method), only) =
              Some({a.field : a \in {a \in asked : /\ a.method = by.method
                                                   /\ a.source = by.source}})

StringsPresent ==
  \A s \in sources :
    LET uses == Csv[s].methodStrings
        usedBy(m) == {u.string : u \in {u \in uses : u.method = m}}
    IN /\ StringsBySource(db, Some(s)) = Csv[s].strings
       /\ \A x \in Csv[s].strings :
            /\ [string |-> x, source |-> s] \in FindStrings(db, x, Some(s))
            /\ MethodsByString(db, x, Some(s)) =
                 Some(UNION {MethodsOf(u.method, s) : u \in {u \in uses : u.string = x}})
       /\ \A m \in {u.method : u \in uses} :
            StringsByMethod(db, Spelled(s, m)) =
              Some({[method |-> d, strings |-> usedBy(m)] : d \in MethodsOf(m, s)})

(* Every definition, call, field access and string in the smali of a       *)
(* loaded source, but for libraries and up to a line that cannot be        *)
(* parsed, is in the database, and the commands by source, class, name,    *)
(* field and string find it, in both directions, and of accesses and       *)
(* strings nothing else: up to what a method returns, so that a call,      *)
(* access or string of one of several methods of the same signature is     *)
(* found for each of them.  This is whatever was loaded and removed in     *)
(* whatever order; once a source was removed, only for the calls whose     *)
(* callee is defined in a file.  Calls of the method's own signature in    *)
(* its own source are not in it.                                           *)
RelationsPresent ==
  shown = Nothing => CallsPresent /\ DefinitionsPresent /\ AccessesPresent /\ StringsPresent

(* A class is found to implement an interface exactly when the files of    *)
(* the loaded sources make it a subtype of it, and listed for the source   *)
(* of the interface, or without one for the framework's interface before   *)
(* any other; and a parent and its child are listed for each other.        *)
Subtypes(ids) ==
  LET edges == UNION {{<<DefinedId(e.parent, s), ClassId(e.child, s)>> : e \in Csv[s].supers} \cup
                      {<<DefinedId(e.interface, s), ClassId(e.class, s)>> : e \in Csv[s].interfaces}
                      : s \in sources}
  IN Below(edges, ids)

HierarchyFound ==
  shown = Nothing => \A s \in sources :
    /\ \A e \in Csv[s].interfaces :
         LET all == Subtypes({ClassId(e.interface, t) : t \in sources})
             own == Subtypes({DefinedId(e.interface, s)})
             framework == Subtypes({ClassId(e.interface, Framework)})
         IN /\ Implementing(db, e.interface, None, None) = all
            /\ InterfaceImpl(db, e.interface, Some(DefinedId(e.interface, s).source), FALSE) =
                 Some(own)
            /\ InterfaceImpl(db, e.interface, None, FALSE) =
                 Some(IF framework # {} THEN framework ELSE all)
    /\ \A e \in Csv[s].supers :
         LET parent == DefinedId(e.parent, s)
         IN /\ parent \in Parents(db, e.child, s)[1]
            /\ ClassId(e.child, s) \in Children(db, e.parent, Some(parent.source), FALSE)[1]
            /\ ClassId(e.child, s) \in ChildrenOf(db, e.parent, None, Some(s))

(* The chains of calls, as sequences of rows of the calls table.           *)
Chains(rows, depth) ==
  {c \in UNION {[1 .. n -> rows] : n \in 1 .. depth} :
     \A i \in 1 .. Len(c) - 1 : c[i].callee = c[i + 1].caller}
PathOf(chain) == Append([i \in DOMAIN chain |-> chain[i].caller], Last(chain).callee)

ChainsInto(d, q, depth) ==
  LET ids == MethodIds(d, q)
  IN {PathOf(c) : c \in {c \in Chains(d.calls, depth) : Last(c).callee \in ids}}
ChainsFrom(d, q, depth) ==
  LET ids == MethodIds(d, q)
  IN {PathOf(c) : c \in {c \in Chains(d.calls, depth) : c[1].caller \in ids}}

(* `find outgoing-calls` shows, from the cache or not, exactly the chains  *)
(* of calls of its length that begin at its methods, in the database that  *)
(* the result was computed from.  As --json these are all chains, of       *)
(* whatever source, against the help of --into-source; otherwise those     *)
(* that end in the source, but if the search gives a name without their    *)
(* last method, which is the one that is called and not the one named.     *)
OutgoingAsAsked ==
  shown.cmd = "outgoing" =>
    LET chains == ChainsFrom(shown.from, shown.q, shown.depth)
        into == {p \in chains : Fits(shown.source, Last(p).source)}
        called(p) == SubSeq(p, 1, Len(p) - 1)
    IN shown.result = IF shown.json THEN chains
                      ELSE IF shown.q.name = None THEN into
                      ELSE {called(p) : p \in into}

(* `find ipc-calls` shows a component exactly when a chain of calls leads  *)
(* from its class to the method, and shows one of these chains.            *)
IpcAsAsked ==
  shown.cmd = "ipc" =>
    LET chains == ChainsInto(shown.from, shown.q, shown.depth)
        from(c) == {p \in chains : p[1].class.name = c.class /\ p[1].source = c.apk}
        components == Selected(shown.options)
    IN /\ \A r \in shown.result : \E c \in components : c.apk = r.apk /\ r.path \in from(c)
       /\ \A c \in components : from(c) # {} =>
            \E r \in shown.result : r.apk = c.apk /\ r.path \in from(c)

(* `find callers` shows chains of calls that begin in the source of the    *)
(* calls that it is given, up to the method that they lead to if that was  *)
(* named.                                                                  *)
CallersAsAsked ==
  shown.cmd = "callers" =>
    LET chains == {p \in ChainsInto(shown.from, shown.q, shown.depth) :
                     Fits(shown.source, p[1].source)}
    IN shown.result = IF shown.json \/ shown.q.name = None THEN chains
                      ELSE {SubSeq(p, 1, Len(p) - 1) : p \in chains}

===============================================================================
