---------------------------- MODULE DeviceCompare -----------------------------
(***************************************************************************)
(* How the diff compares one item of the device's database with the        *)
(* database of a diff source, as diff.rs does it, and what it should say.  *)
(* An item is a record; a table is a set of items.  NULL is None.          *)
(***************************************************************************)
EXTENDS FiniteSets

CONSTANTS
  None   \* a column without a value

(* Receivers, activities and services are told apart by their class,       *)
(* providers and permissions by their name, methods by name, arguments     *)
(* and return type: the key of an item, which need not be unique.          *)
IpcKinds  == {"receiver", "activity", "aservice"}
CompKinds == IpcKinds \cup {"provider", "permission"}
Kinds     == {"service", "method", "apk"} \cup CompKinds

-------------------------------------------------------------------------------
(* UnknownBool::from(a == b), with NULL on either side.                    *)
Known(a, b) == IF a = None \/ b = None THEN "unknown"
               ELSE IF a = b THEN "true" ELSE "false"

(* PermissionProtected: only a provider has permissions for the modes Read *)
(* and Write; Any is the first of the three.                               *)
PermissionFor(item, mode) ==
  CASE mode = "Generic" -> item.perm
    [] mode = "Read"  -> IF item.kind = "provider" THEN item.read ELSE None
    [] mode = "Write" -> IF item.kind = "provider" THEN item.write ELSE None

Modes == {"Generic", "Read", "Write"}

RequiresPermission(item) == \E mode \in Modes : PermissionFor(item, mode) # None

(* Fault: only a permission that the device asks for is compared.          *)
PermsMatchOneSided(dev, other) ==
  RequiresPermission(dev) =>
    \A mode \in Modes : PermissionFor(dev, mode) = PermissionFor(other, mode)

PermsMatch(dev, other) ==
  IF ~RequiresPermission(dev)
  THEN ~RequiresPermission(other)
  ELSE \A mode \in Modes : PermissionFor(dev, mode) = PermissionFor(other, mode)

ExportedMatches(dev, other) == IF dev.exported THEN other.exported ELSE ~other.exported

(* get_and_cmp: whether two optional texts agree.                          *)
GetAndCmp(dev, other) ==
  IF other # None THEN dev # None /\ other = dev ELSE dev = None

(* The row of an item that the source does not have.                       *)
NotInDiff(kind) == [exists |-> FALSE, matches |-> {}]

(* The row of an item that was compared with `other`: the set of the       *)
(* *_matches_diff columns that are true.                                   *)
InDiff(dev, other) ==
  LET holds == [exported |-> ExportedMatches(dev, other),
                perm     |-> PermsMatch(dev, other)]
  IN [exists |-> TRUE, matches |-> {c \in DOMAIN holds : holds[c]}]

ProviderInDiff(dev, other) ==
  LET holds == [exported |-> ExportedMatches(dev, other),
                perm     |-> GetAndCmp(dev.perm, other.perm),
                read     |-> GetAndCmp(dev.read, other.read),
                write    |-> GetAndCmp(dev.write, other.write)]
  IN [exists |-> TRUE, matches |-> {c \in DOMAIN holds : holds[c]}]

PermissionInDiff(dev, other) ==
  [exists |-> TRUE, matches |-> {c \in {"level"} : dev.level = other.level}]

(* update_method_diff compares the hash of the device's method with the    *)
(* signature of the other one.                                             *)
MethodInDiff(dev, other) ==
  [exists |-> TRUE, matches |-> {c \in {"hash"} : Known(dev.hash, other.sig) = "true"}]

(* The row that diff writes for an item when `other` is what the map of    *)
(* the source's items holds under its key.                                 *)
CompareWith(dev, other) ==
  CASE dev.kind \in IpcKinds        -> InDiff(dev, other)
    [] dev.kind = "provider"        -> ProviderInDiff(dev, other)
    [] dev.kind = "permission"      -> PermissionInDiff(dev, other)
    [] dev.kind = "method"          -> MethodInDiff(dev, other)
    [] dev.kind \in {"apk", "service"} -> [exists |-> TRUE, matches |-> {}]

(* The map is filled from all rows of a kind, so of several under one key  *)
(* any may be the one that stays.                                          *)
Candidates(dev, table) == {o \in table : o.kind = dev.kind /\ o.key = dev.key}

Compare(dev, table) ==
  IF Candidates(dev, table) = {}
  THEN {NotInDiff(dev.kind)}
  ELSE {CompareWith(dev, o) : o \in Candidates(dev, table)}

-------------------------------------------------------------------------------
(* What a row should say: the columns that hold the same value on both     *)
(* sides.  The hashes of methods are left out.                             *)
Columns(kind) ==
  CASE kind \in IpcKinds -> {"exported", "perm"}
    [] kind = "provider" -> {"exported", "perm", "read", "write"}
    [] kind = "permission" -> {"level"}
    [] OTHER -> {}

SameColumns(dev, other) == {c \in Columns(dev.kind) : dev[c] = other[c]}

IsTrueOf(row, dev, table) ==
  /\ row.exists <=> Candidates(dev, table) # {}
  /\ row.exists => \E o \in Candidates(dev, table) :
        row.matches \cap Columns(dev.kind) = SameColumns(dev, o)
===============================================================================
