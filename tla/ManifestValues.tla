---------------------------- MODULE ManifestValues ----------------------------
(***************************************************************************)
(* From an element of a manifest to the row that setup stores for it.  An  *)
(* attribute holds a text, which may be a reference, @KIND/KEY, to an      *)
(* entry of res/values/KINDs.xml, whose text may be a reference again.     *)
(* Names are those of components that are written in full.                 *)
(***************************************************************************)
EXTENDS DeviceCompare, Naturals

CONSTANTS
  References,  \* the texts that begin with @
  Malformed,   \* those without a slash
  NoFile,      \* those to a kind that has no file, or one that cannot be read
  Entries      \* [some of the other references -> the text of their entry]

ASSUME ManifestAssumption ==
  /\ IsFiniteSet(References) /\ None \notin References
  /\ Malformed \subseteq References /\ NoFile \subseteq References
  /\ DOMAIN Entries \subseteq References \ (Malformed \cup NoFile)
  /\ \A r \in DOMAIN Entries : Entries[r] # None

-------------------------------------------------------------------------------
(* Whether for_value_reference has a file to look in.                      *)
CanOpen(text) == text \in References \ (Malformed \cup NoFile)

(* goto_value_entry finds an element with the name in that file.           *)
HasEntry(ref) == ref \in DOMAIN Entries

(* XmlResolver::resolve: the text at the end of the references, or, when   *)
(* one of them is seen again or leads to no file, that reference.  None    *)
(* when a file has no such entry.                                          *)
Follow[r \in References, seen \in SUBSET References] ==
  IF ~HasEntry(r) THEN None
  ELSE LET text == Entries[r]
       IN IF CanOpen(text) /\ text \notin seen
          THEN Follow[text, seen \cup {text}]
          ELSE text

Resolved(value) == IF CanOpen(value) THEN Follow[value, {}] ELSE None

GetBoolResource(text) ==
  CASE text = "true" -> TRUE [] text = "false" -> FALSE [] OTHER -> None

ResolveBool(value) ==
  LET found == GetBoolResource(Resolved(value))
  IN IF found # None THEN found ELSE GetBoolResource(value)

ResolveString(value) == IF Resolved(value) # None THEN Resolved(value) ELSE value

-------------------------------------------------------------------------------
(* def_ipc: what an element says, None when it cannot be told.             *)
Exported(e)   == IF e.exported = None THEN e.filters ELSE ResolveBool(e.exported)
Enabled(e)    == IF e.enabled = None THEN TRUE ELSE ResolveBool(e.enabled)
Optional(att) == IF att = None THEN None ELSE ResolveString(att)

(* The permissions of a provider fall back to the one for both.            *)
ReadPermission(e)  == IF e.read = None THEN Optional(e.permission) ELSE Optional(e.read)
WritePermission(e) == IF e.write = None THEN Optional(e.permission) ELSE Optional(e.write)

(* Each name in the list of authorities may be a reference.                *)
Authorities(e) == {ResolveString(name) : name \in e.authorities}

ProtectionLevel(e) == IF e.level = None THEN "normal" ELSE ResolveString(e.level)

(* IPCCommon: "false positives are preferred over false negatives".        *)
InDoubt(flag) == IF flag = None THEN TRUE ELSE flag

IpcRow(e) ==
  [kind |-> e.kind, key |-> ResolveString(e.name), apk |-> e.apk,
   exported |-> InDoubt(Exported(e)), enabled |-> InDoubt(Enabled(e)),
   perm |-> Optional(e.permission)]

(* service_on_bind_returns_nonnull: what is known of onBind in the smali   *)
(* of the class is the number of its instructions and whether the first    *)
(* one loads a number; nothing without a file or such a method.            *)
ReturnsBinder(e) ==
  IF e.bind = None THEN "unknown"
  ELSE IF e.bind.count = 2 /\ e.bind.number THEN "false" ELSE "true"

ServiceRow(e) ==
  [kind |-> e.kind, key |-> ResolveString(e.name), apk |-> e.apk,
   exported |-> InDoubt(Exported(e)), enabled |-> InDoubt(Enabled(e)),
   perm |-> Optional(e.permission), returns |-> ReturnsBinder(e)]

(* grantUriPermissions is read as an element, which no provider has.       *)
ProviderRow(e) ==
  [kind |-> e.kind, key |-> ResolveString(e.name), apk |-> e.apk,
   exported |-> InDoubt(Exported(e)), enabled |-> InDoubt(Enabled(e)),
   perm |-> Optional(e.permission),
   read |-> ReadPermission(e), write |-> WritePermission(e),
   authorities |-> Authorities(e), grants |-> FALSE]

PermissionRow(e) ==
  [kind |-> e.kind, key |-> ResolveString(e.name), apk |-> e.apk,
   level |-> ProtectionLevel(e)]

StoredRow(e) ==
  CASE e.kind \in IpcKinds \ {"aservice"} -> IpcRow(e)
    [] e.kind = "aservice"   -> ServiceRow(e)
    [] e.kind = "provider"   -> ProviderRow(e)
    [] e.kind = "permission" -> PermissionRow(e)

-------------------------------------------------------------------------------
(* What an attribute means: the text, no reference, that a chain of        *)
(* entries leads to.                                                       *)
Chain(value, n) ==
  LET step[i \in 0 .. n] ==
        IF i = 0 THEN value
        ELSE IF step[i - 1] \in DOMAIN Entries THEN Entries[step[i - 1]] ELSE step[i - 1]
  IN step[n]

Means(value, text) ==
  /\ text \notin References
  /\ Chain(value, Cardinality(References)) = text

(* A component is stored as closed to others only if its manifest says so, *)
(* and with the permission that it asks for.                               *)
AsDeclared(row, e) ==
  e.kind \in IpcKinds \cup {"provider"} =>
    /\ ~row.exported <=> \/ e.exported = None /\ ~e.filters
                         \/ e.exported # None /\ Means(e.exported, "false")
    /\ ~row.enabled <=> e.enabled # None /\ Means(e.enabled, "false")
    /\ (row.perm = None) <=> (e.permission = None)
    /\ \A text \in {row.perm} \ {None} :
         Chain(e.permission, Cardinality(References)) \notin References =>
           Means(e.permission, text)
===============================================================================
