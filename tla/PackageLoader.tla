--------------------------- MODULE PackageLoader ---------------------------
(***************************************************************************)
(* How a package gets from files to the compiler: load_package of the      *)
(* command-line tool follows imports from the root file, numbers the       *)
(* modules root first and then by identity, and compile_package refuses    *)
(* duplicate identities (validate_package_input) and import cycles         *)
(* (validate_acyclic_imports).                                             *)
(*                                                                         *)
(* A file is its canonical path; two files may declare one module identity *)
(* and a file may import another one twice, under two spellings.  Files    *)
(* may vanish while the loader runs; none is created or rewritten.         *)
(***************************************************************************)
EXTENDS Naturals, Sequences, FiniteSets

CONSTANTS
  File,          (* canonical paths                                        *)
  RootFile,      (* the file named on the command line                     *)
  Trees,         (* [imports: targets of each file in order, id]           *)
  MayVanish      (* files that may be deleted while the loader runs        *)

ASSUME FileAssumption  == IsFiniteSet(File) /\ RootFile \in File /\ MayVanish \subseteq File
ASSUME TreesAssumption == Trees \subseteq [imports : [File -> Seq(File)], id : [File -> Nat]]

VARIABLES
  tree,          (* the files                                              *)
  gone,          (* files deleted so far                                   *)
  pending,       (* paths to be read; the last is the next                 *)
  seen,          (* paths taken from pending                               *)
  raw,           (* modules read, in order                                 *)
  modules,       (* modules of the package, in canonical order             *)
  incoming,      (* imports of each module not yet struck off              *)
  queue,         (* modules nothing left imports                           *)
  visited,       (* modules taken from the queue                           *)
  outcome        (* "loading", "sorting", "accepted" or an error           *)

vars == <<tree, gone, pending, seen, raw, modules, incoming, queue, visited, outcome>>

Elements(s) == {s[i] : i \in DOMAIN s}
Upcoming == pending[Len(pending)]
Others == SubSeq(pending, 1, Len(pending) - 1)
Conclude(code) ==
  /\ outcome' = code
  /\ UNCHANGED <<tree, gone, pending, seen, raw, modules, incoming, queue, visited>>

Init ==
  /\ tree \in Trees
  /\ gone = {} /\ pending = <<RootFile>> /\ seen = {} /\ raw = <<>> /\ modules = <<>>
  /\ incoming = <<>> /\ queue = <<>> /\ visited = 0 /\ outcome = "loading"

Vanish(file) ==
  /\ outcome = "loading" /\ file \notin gone
  /\ gone' = gone \cup {file}
  /\ UNCHANGED <<tree, pending, seen, raw, modules, incoming, queue, visited, outcome>>

---------------------------------------------------------------------------
(* load_package.                                                           *)

Loading == outcome = "loading" /\ pending # <<>>

(* Mutation: a path read before goes back to the other end. *)
SkipSeenKeeping ==
  /\ Loading /\ Upcoming \in seen
  /\ pending' = <<Upcoming>> \o Others
  /\ UNCHANGED <<tree, gone, seen, raw, modules, incoming, queue, visited, outcome>>

SkipSeen ==
  /\ Loading /\ Upcoming \in seen
  /\ pending' = Others
  /\ UNCHANGED <<tree, gone, seen, raw, modules, incoming, queue, visited, outcome>>

(* A path was canonicalized when it was pushed, and is read only now.       *)
ReadFails ==
  /\ Loading /\ Upcoming \notin seen
  /\ ({Upcoming} \cup Elements(tree.imports[Upcoming])) \cap gone # {}
  /\ Conclude("io")

Read ==
  /\ Loading /\ Upcoming \notin seen
  /\ ({Upcoming} \cup Elements(tree.imports[Upcoming])) \cap gone = {}
  /\ seen' = seen \cup {Upcoming}
  /\ raw' = Append(raw, Upcoming)
  /\ pending' = Others \o tree.imports[Upcoming]
  /\ UNCHANGED <<tree, gone, modules, incoming, queue, visited, outcome>>

(* Root first, then by identity; equal identities are refused anyway.       *)
Precedes(i, j) ==
  /\ raw[j] # RootFile
  /\ \/ raw[i] = RootFile
     \/ tree.id[raw[i]] < tree.id[raw[j]]

Rank(i) == Cardinality({j \in DOMAIN raw : Precedes(j, i)}) + 1
Canonical == [k \in DOMAIN raw |-> raw[CHOOSE i \in DOMAIN raw : Rank(i) = k]]

(* The identities in the package decide what an import resolves to.         *)
Resolve(list, target) == CHOOSE m \in DOMAIN list : tree.id[list[m]] = tree.id[target]

ImportsOf(list, m) == tree.imports[list[m]]

(* The imports of a package: <<module, place in its list>>.                 *)
Imports(list) == UNION {{m} \X DOMAIN ImportsOf(list, m) : m \in DOMAIN list}

TargetOf(list, import) == Resolve(list, ImportsOf(list, import[1])[import[2]])

Importing(list, target) == Cardinality({e \in Imports(list) : TargetOf(list, e) = target})

Duplicates == \E i, j \in DOMAIN raw : i # j /\ tree.id[raw[i]] = tree.id[raw[j]]

(* Numbers in ascending order.                                              *)
InOrder(S) == [k \in 1 .. Cardinality(S) |-> CHOOSE i \in S : Cardinality({j \in S : j <= i}) = k]

Sort ==
  /\ outcome = "loading" /\ pending = <<>>
  /\ \/ Duplicates /\ Conclude("duplicate-module")
     \/ /\ ~Duplicates
        /\ modules' = Canonical
        /\ incoming' = [m \in DOMAIN raw |-> Importing(Canonical, m)]
        /\ queue' = InOrder({m \in DOMAIN raw : Importing(Canonical, m) = 0})
        /\ outcome' = "sorting"
        /\ UNCHANGED <<tree, gone, pending, seen, raw, visited>>

---------------------------------------------------------------------------
(* validate_acyclic_imports: strike off the imports of one module at a time. *)

Edges(m) == [k \in DOMAIN ImportsOf(modules, m) |-> TargetOf(modules, <<m, k>>)]

(* How often the first k edges of a module lead to module n.                *)
Struck(m, k, n) == Cardinality({j \in 1 .. k : Edges(m)[j] = n})

(* Mutation: a target is queued only if its last import is the first struck. *)
FreesAtFirst(m, k) == Struck(m, k, Edges(m)[k]) = 1 /\ incoming[Edges(m)[k]] = 1

(* A target is queued by the import that strikes off its last one.          *)
Frees(m, k) == Struck(m, k, Edges(m)[k]) = incoming[Edges(m)[k]]

Strike ==
  LET m == Head(queue)
      freeing == InOrder({k \in DOMAIN Edges(m) : Frees(m, k)})
  IN
  /\ outcome = "sorting" /\ queue # <<>>
  /\ incoming' = [n \in DOMAIN incoming |-> incoming[n] - Struck(m, Len(Edges(m)), n)]
  /\ visited' = visited + 1
  /\ queue' = Tail(queue) \o [k \in DOMAIN freeing |-> Edges(m)[freeing[k]]]
  /\ UNCHANGED <<tree, gone, pending, seen, raw, modules, outcome>>

Decide ==
  /\ outcome = "sorting" /\ queue = <<>>
  /\ Conclude(IF visited = Len(modules) THEN "accepted" ELSE "import-cycle")

Step == SkipSeen \/ ReadFails \/ Read \/ Sort \/ Strike \/ Decide

Next == Step \/ \E file \in MayVanish : Vanish(file)

---------------------------------------------------------------------------
TypeOK ==
  /\ pending \in Seq(File) /\ seen \in SUBSET File /\ raw \in Seq(File)
  /\ modules \in Seq(File)
  /\ incoming \in [DOMAIN modules -> Nat]
  /\ queue \in Seq(DOMAIN modules)

(* The files that paths of up to k imports lead to from a file.             *)
Within(file) ==
  LET within[k \in 0 .. Cardinality(File)] ==
        IF k = 0 THEN {file}
        ELSE within[k - 1] \cup UNION {Elements(tree.imports[f]) : f \in within[k - 1]}
  IN  within

(* The files a path of imports leads to from a file, the file included.     *)
Closure(file) == Within(file)[Cardinality(File)]

(* A package is the files its imports reach, each read exactly once however
   many files import it and although imports may run in a circle; its order
   does not depend on the order of discovery.                               *)
LoadsClosure ==
  /\ TypeOK
  /\ outcome \in {"sorting", "accepted", "import-cycle"} =>
    /\ Elements(modules) = Closure(RootFile)
    /\ Len(modules) = Cardinality(Closure(RootFile))
    /\ modules[1] = RootFile
    /\ \A m \in 2 .. Len(modules) - 1 : tree.id[modules[m]] < tree.id[modules[m + 1]]

OnCycle(file) == \E target \in Elements(tree.imports[file]) : file \in Closure(target)

(* Kahn's count accepts a package if and only if no file imports itself
   through any number of others, imports listed twice included.             *)
AcceptsAcyclic ==
  /\ outcome = "accepted" => \A f \in Closure(RootFile) : ~OnCycle(f)
  /\ outcome = "import-cycle" => \E f \in Closure(RootFile) : OnCycle(f)

(* The two together: a package is loaded whole and judged rightly.          *)
LoadIsRight == LoadsClosure /\ AcceptsAcyclic

(* Circles of imports and files that vanish do not keep the loader going.   *)
Ends == <>(outcome \notin {"loading", "sorting"})
============================================================================
