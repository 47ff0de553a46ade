------------------------- MODULE NotebookStoreProofs ------------------------
(***************************************************************************)
(* For every tree of directories, links and notes, and every order of the  *)
(* calls of Open and the steps of Init: a notebook is opened once, a       *)
(* document has a path in the notebook that Open finds for it, and this is *)
(* the notebook that encloses it.                                          *)
(***************************************************************************)
EXTENDS NotebookStore, TLAPS, WellFoundedInduction

\* The prover of the steps that do not name one.
USE ZenonT(30)

IsSeq(s) == Len(s) \in Nat /\ s = [i \in 1 .. Len(s) |-> s[i]]

\* Notebooks are directories, and one Init runs at a time.
DiskInv ==
  /\ zk \subseteq Dir /\ files \subseteq File /\ DOMAIN toml = Dir
  /\ init = NoRoot \/ init \in Creation

\* A notebook that was opened is in the cache, at a path that leads to it.
CacheInv ==
  /\ IsSeq(parses)
  /\ \A r \in DOMAIN notebooks : Resolve(r) \in zk
  /\ \A i \in 1 .. Len(parses) : parses[i].ok =>
       parses[i].root \in Dir /\ \E r \in DOMAIN notebooks : Resolve(r) = parses[i].root

\* The notebook that Open has returned, and the path it was called with.
LastInv ==
  last.root # NoRoot =>
    /\ last.path \in Seq(STRING) /\ Resolve(last.root) \in zk
    /\ last.root = Resolve(last.root) => IsPrefix(last.root, last.path)

IInv == DiskInv /\ CacheInv /\ OneInstance /\ LookupsSucceed /\ LastInv
-----------------------------------------------------------------------------
(* Paths.                                                                  *)

\* The canonical path of a directory or a note is its own.
LEMMA ResolvedFixed == \A p \in Dir \cup File : Resolve(p) = p
BY NotebookStoreAssumption DEF Resolve

\* FileStorage.Canonical leaves its results alone.
LEMMA CanonicalFixed ==
  ASSUME DiskInv, NEW path \in Asked
  PROVE  Canonical(path) \in Seq(STRING) /\ Canonical(Canonical(path)) = Canonical(path)
<1>1. CASE Resolve(path) \in Dir \cup files
  <2>1. Canonical(path) = Resolve(path)  BY <1>1 DEF Canonical
  <2>2. Canonical(path) \in Dir \cup File  BY <1>1, <2>1 DEF DiskInv
  <2>3. Resolve(Canonical(path)) = Canonical(path)  BY <2>2, ResolvedFixed
  <2>4. Canonical(path) \in Seq(STRING)  BY <2>2, NotebookStoreAssumption
  <2> QED  BY <2>3, <2>4 DEF Canonical
<1>2. CASE Resolve(path) \notin Dir \cup files
  <2>1. Canonical(path) = path  BY <1>2 DEF Canonical
  <2> QED  BY <2>1, NotebookStoreAssumption
<1> QED  BY <1>1, <1>2

\* A set of numbers has a least member.
LEMMA LeastOf ==
  ASSUME NEW S, S \subseteq Nat, S # {}
  PROVE  \E m \in S : \A l \in S : m <= l
<1>1. PICK m \in S : \A l \in S : ~(<<l, m>> \in OpToRel(<, Nat))
  BY NatLessThanWellFounded, WFMin
<1>2. \A l \in S : ~(l < m)  BY <1>1 DEF OpToRel
<1> QED  BY <1>2, SMT

\* locateNotebook returns a path above its argument, with a .zk in it.
LEMMA Located ==
  ASSUME NEW p \in Seq(STRING), LocateNotebook(p) # NoRoot
  PROVE  IsPrefix(LocateNotebook(p), p) /\ Resolve(LocateNotebook(p)) \in zk
<1> DEFINE roots == {i \in 1 .. Len(p) : Resolve(SubSeq(p, 1, i)) \in zk}
           back == {Len(p) - i : i \in roots}
<1>1. roots # {}  BY DEF LocateNotebook
<1>2. Len(p) \in Nat  BY SMT
<1>3. back # {} /\ back \subseteq Nat
  <2>1. back # {}  BY <1>1
  <2>2. ASSUME NEW i \in 1 .. Len(p) PROVE Len(p) - i \in Nat  BY <1>2, SMT
  <2> QED  BY <2>1, <2>2
<1>4. PICK b \in back : \A c \in back : b <= c  BY <1>3, LeastOf
<1>5. PICK m \in roots : b = Len(p) - m  BY <1>4
<1>6. \A j \in roots : j <= m
  <2> SUFFICES ASSUME NEW j \in roots PROVE j <= m
    OBVIOUS
  <2>1. Len(p) - m <= Len(p) - j  BY <1>4, <1>5
  <2>2. j \in 1 .. Len(p) /\ m \in 1 .. Len(p)  OBVIOUS
  <2> QED  BY <1>2, <2>1, <2>2, SMT
<1>7. PICK i \in roots : LocateNotebook(p) = SubSeq(p, 1, i)  BY <1>1, <1>6 DEF LocateNotebook
<1>8. i \in 1 .. Len(p) /\ Resolve(SubSeq(p, 1, i)) \in zk  OBVIOUS
<1>9. IsPrefix(SubSeq(p, 1, i), p)  BY <1>2, <1>8, SMT DEF IsPrefix
<1> QED  BY <1>7, <1>8, <1>9

\* Of two directories above a path, one is above the other.
LEMMA PrefixesCompare ==
  ASSUME NEW p \in Seq(STRING), NEW d \in Seq(STRING), NEW e \in Seq(STRING),
         IsPrefix(d, p), IsPrefix(e, p)
  PROVE  IsPrefix(d, e) \/ IsPrefix(e, d)
<1>1. ASSUME NEW a \in Seq(STRING), NEW b \in Seq(STRING), IsPrefix(a, p), IsPrefix(b, p),
             Len(a) <= Len(b)
      PROVE  IsPrefix(a, b)
  <2>1. ASSUME NEW s \in Seq(STRING), IsPrefix(s, p), NEW i \in 1 .. Len(s) PROVE s[i] = p[i]
    <3>1. SubSeq(s, 1, Len(s))[i] = SubSeq(p, 1, Len(s))[i] /\ Len(s) <= Len(p)
      BY <2>1 DEF IsPrefix
    <3> QED  BY <3>1, SMT
  <2>2. \A i \in 1 .. Len(a) : a[i] = b[i]
    <3> SUFFICES ASSUME NEW i \in 1 .. Len(a) PROVE a[i] = b[i]
      OBVIOUS
    <3>1. i \in 1 .. Len(b)  BY <1>1, SMT
    <3> QED  BY <1>1, <2>1, <3>1
  <2>3. SubSeq(a, 1, Len(a)) = SubSeq(b, 1, Len(a))  BY <1>1, <2>2, SMT
  <2> QED  BY <1>1, <2>3 DEF IsPrefix
<1>2. Len(d) <= Len(e) \/ Len(e) <= Len(d)  BY SMT
<1> QED  BY <1>1, <1>2

-----------------------------------------------------------------------------
(* The invariant.                                                          *)

\* One element more.
LEMMA AppendedSeq ==
  ASSUME NEW s, IsSeq(s), NEW p
  PROVE  /\ IsSeq(Append(s, p)) /\ Len(Append(s, p)) = Len(s) + 1
         /\ \A i \in 1 .. Len(s) : Append(s, p)[i] = s[i]
         /\ Append(s, p)[Len(s) + 1] = p
<1> DEFINE S == {s[i] : i \in 1 .. Len(s)} \cup {p}
<1>1. s \in Seq(S)
  <2>1. [i \in 1 .. Len(s) |-> s[i]] \in Seq(S)  BY SMT DEF IsSeq
  <2> QED  BY <2>1 DEF IsSeq
<1>2. p \in S  OBVIOUS
<1> HIDE DEF S
<1>3. /\ Append(s, p) \in Seq(S) /\ Len(Append(s, p)) = Len(s) + 1
      /\ \A i \in 1 .. Len(s) : Append(s, p)[i] = s[i]
      /\ Append(s, p)[Len(s) + 1] = p
  BY <1>1, <1>2, SMT
<1>4. ASSUME NEW q \in Seq(S) PROVE IsSeq(q)
  <2>1. Len(q) \in Nat /\ q \in [1 .. Len(q) -> S]  BY SMT
  <2> QED  BY <2>1 DEF IsSeq
<1> QED  BY <1>3, <1>4

\* The process has opened nothing yet.
LEMMA InitIInv == Init => IInv
<1> SUFFICES ASSUME Init PROVE IInv
  OBVIOUS
<1>1. DiskInv  BY NotebookStoreAssumption DEF Init, DiskInv
<1>2. IsSeq(parses) /\ Len(parses) = 0 /\ DOMAIN parses = {} /\ DOMAIN notebooks = {}
  BY SMT DEF Init, IsSeq
<1>3. CacheInv /\ OneInstance
  <2>1. 1 .. Len(parses) = {}  BY <1>2, SMT
  <2> QED  BY <1>2, <2>1 DEF CacheInv, OneInstance
<1>4. last.root = NoRoot  BY DEF Init
<1> QED  BY <1>1, <1>3, <1>4 DEF IInv, Init, LookupsSucceed, LastInv

\* Open changes nothing on the disk, and no Init.
LEMMA OpenKeepsDisk ==
  ASSUME IInv, NEW path \in Asked, Open(path)
  PROVE  DiskInv' /\ zk' = zk
BY DEF IInv, Open, disk, DiskInv

\* The document has a path in the notebook that Open returns.
LEMMA OpenKeepsLookups ==
  ASSUME IInv, NEW path \in Asked, Open(path)
  PROVE  LookupsSucceed' /\ LastInv'
<1> DEFINE p == Canonical(path)
           root == LocateNotebook(p)
<1>1. p \in Seq(STRING) /\ Canonical(p) = p  BY CanonicalFixed DEF IInv
<1>2. \/ \E r \in CachedNotebooksAt(p) : Return(p, r)
      \/ Return(p, NoRoot)
      \/ root # NoRoot /\ Return(p, root)
  BY DEF Open
<1>6. zk' = zk  BY OpenKeepsDisk
<1>3. ASSUME NEW r \in CachedNotebooksAt(p), Return(p, r)
      PROVE  LookupsSucceed' /\ LastInv'
  <2>1. last'.path = p /\ last'.root = r  BY <1>3 DEF Return
  <2>2. RelInside(Canonical(r), p)  BY <1>1 DEF CachedNotebooksAt, IsDescendantOf
  <2>3. r = Resolve(r) => Canonical(r) = r  BY DEF Canonical
  <2>4. Resolve(r) \in zk /\ r \in DOMAIN notebooks  BY DEF CachedNotebooksAt, IInv, CacheInv
  <2> QED  BY <1>1, <1>6, <2>1, <2>2, <2>3, <2>4 DEF LookupsSucceed, RelPathDefined, LastInv, RelInside
<1>4. CASE Return(p, NoRoot)
  <2>1. last'.root = NoRoot  BY <1>4 DEF Return
  <2> QED  BY <2>1 DEF LookupsSucceed, LastInv
<1>5. CASE root # NoRoot /\ Return(p, root)
  <2>1. last'.path = p /\ last'.root = root  BY <1>5 DEF Return
  <2>2. IsPrefix(root, p) /\ Resolve(root) \in zk  BY <1>1, <1>5, Located
  <2> QED  BY <1>1, <1>6, <2>1, <2>2 DEF LookupsSucceed, RelPathDefined, RelInside, LastInv
<1> QED  BY <1>2, <1>3, <1>4, <1>5

\* Open makes an instance only of a notebook that is not in the cache.
LEMMA OpenKeepsCache ==
  ASSUME IInv, NEW path \in Asked, Open(path)
  PROVE  CacheInv' /\ OneInstance'
<1> DEFINE p == Canonical(path)
           root == LocateNotebook(p)
<1>1. p \in Seq(STRING) /\ Canonical(p) = p  BY CanonicalFixed DEF IInv
<1>6. zk' = zk  BY OpenKeepsDisk
<1>2. CASE UNCHANGED <<notebooks, parses>>
  BY <1>2, <1>6 DEF IInv, CacheInv, OneInstance
<1>3. ASSUME CachedNotebooksAt(p) = {}, root # NoRoot, NEW t, NEW ok \in BOOLEAN, NEW c,
             parses' = Append(parses, [path |-> p, root |-> Resolve(root), toml |-> t, ok |-> ok]),
             IF ok THEN notebooks' = Cached(root, c) ELSE UNCHANGED notebooks
      PROVE  CacheInv' /\ OneInstance'
  <2> DEFINE new == [path |-> p, root |-> Resolve(root), toml |-> t, ok |-> ok]
             n == Len(parses) + 1
  <2>1. /\ new.path = p /\ new.root = Resolve(root) /\ new.ok = ok  OBVIOUS
  <2> HIDE DEF new
  <2>2. /\ IsSeq(parses') /\ Len(parses') = n /\ parses'[n] = new
        /\ \A i \in 1 .. Len(parses) : parses'[i] = parses[i]
    <3>1. IsSeq(parses) /\ parses' = Append(parses, new)  BY <1>3 DEF IInv, CacheInv, new
    <3> QED  BY <3>1, AppendedSeq
  <2>3. 1 .. n = 1 .. Len(parses) \cup {n} /\ n \in Nat
    BY SMT DEF IInv, CacheInv, IsSeq
  <2>4. /\ DOMAIN notebooks \subseteq DOMAIN notebooks' /\ (ok => root \in DOMAIN notebooks')
        /\ DOMAIN notebooks' \subseteq DOMAIN notebooks \cup {root}
    <3>1. CASE ok  BY <1>3, <3>1 DEF Cached
    <3>2. CASE ~ok  BY <1>3, <3>2
    <3> QED  BY <3>1, <3>2
  <2>5. Resolve(root) \in Dir /\ Resolve(root) \in zk  BY <1>1, <1>3, Located DEF IInv, DiskInv
  <2>6. CacheInv'
    <3> SUFFICES ASSUME NEW i \in 1 .. n, parses'[i].ok
                 PROVE  /\ parses'[i].root \in Dir
                        /\ \E r \in DOMAIN notebooks' : Resolve(r) = parses'[i].root
      BY <1>6, <2>2, <2>4, <2>5 DEF IInv, CacheInv
    <3>1. CASE i = n  BY <2>1, <2>2, <2>4, <2>5, <3>1
    <3>2. CASE i \in 1 .. Len(parses)  BY <2>2, <2>4, <3>2 DEF IInv, CacheInv
    <3> QED  BY <2>3, <3>1, <3>2
  <2>7. ASSUME NEW i \in 1 .. Len(parses), parses[i].ok, parses[i].root = Resolve(root)
        PROVE  ~RelInside(Resolve(root), p)
    <3>1. PICK r \in DOMAIN notebooks : Resolve(r) = Resolve(root)  BY <2>7 DEF IInv, CacheInv
    <3>2. Canonical(r) = Resolve(root)  BY <2>5, <3>1 DEF Canonical
    <3>3. ~IsDescendantOf(r, p)  BY <1>3 DEF CachedNotebooksAt
    <3> QED  BY <1>1, <3>2, <3>3 DEF IsDescendantOf
  <2>8. DOMAIN parses = 1 .. Len(parses) /\ DOMAIN parses' = 1 .. n
    BY <2>2 DEF IInv, CacheInv, IsSeq
  <2>9. OneInstance'
    <3> SUFFICES ASSUME NEW i \in 1 .. n, NEW j \in 1 .. n, i < j, parses'[i].ok, parses'[j].ok,
                        parses'[i].root = parses'[j].root
                 PROVE  ~RelInside(parses'[j].root, parses'[j].path)
      BY <2>8 DEF OneInstance
    <3>1. i \in 1 .. Len(parses)  BY <2>3, SMT
    <3>2. CASE j = n  BY <2>1, <2>2, <2>7, <3>1, <3>2
    <3>3. CASE j \in 1 .. Len(parses)  BY <2>2, <2>8, <3>1, <3>3 DEF IInv, OneInstance
    <3> QED  BY <2>3, <3>2, <3>3
  <2> QED  BY <2>6, <2>9
<1>4. ASSUME CachedNotebooksAt(p) = {}, root # NoRoot, NEW c, NEW dbOpens \in BOOLEAN, NEW t,
             parses' = Append(parses, [path |-> p, root |-> Resolve(root), toml |-> t,
                                       ok |-> c.ok /\ dbOpens]),
             IF c.ok /\ dbOpens
             THEN notebooks' = Cached(root, c.config) /\ Return(p, root)
             ELSE UNCHANGED notebooks /\ Return(p, NoRoot)
      PROVE  CacheInv' /\ OneInstance'
  <2> DEFINE ok == c.ok /\ dbOpens
  <2>1. ok \in BOOLEAN  OBVIOUS
  <2>2. parses' = Append(parses, [path |-> p, root |-> Resolve(root), toml |-> t, ok |-> ok])
    BY <1>4
  <2>3. IF ok THEN notebooks' = Cached(root, c.config) ELSE UNCHANGED notebooks
    BY <1>4
  <2> HIDE DEF ok
  <2> QED  BY <1>3, <1>4, <2>1, <2>2, <2>3
<1>5. \/ UNCHANGED <<notebooks, parses>>
      \/ /\ CachedNotebooksAt(p) = {} /\ root # NoRoot
         /\ \E c \in OpenConfig(heap, global, toml[Resolve(root)], FALSE), dbOpens \in BOOLEAN :
              /\ parses' = Append(parses, [path |-> p, root |-> Resolve(root),
                                           toml |-> toml[Resolve(root)], ok |-> c.ok /\ dbOpens])
              /\ IF c.ok /\ dbOpens
                 THEN notebooks' = Cached(root, c.config) /\ Return(p, root)
                 ELSE UNCHANGED notebooks /\ Return(p, NoRoot)
  BY DEF Open
<1> QED  BY <1>2, <1>4, <1>5


\* Another process that creates a notebook, or the user, leaves the process
\* alone.
LEMMA OthersKeepProcess ==
  ASSUME IInv, UNCHANGED process, zk \subseteq zk'
  PROVE  CacheInv' /\ OneInstance' /\ LookupsSucceed' /\ LastInv'
BY DEF IInv, process, CacheInv, OneInstance, LookupsSucceed, LastInv

\* Init makes a notebook of its directory.
LEMMA InitKeepsDisk ==
  ASSUME IInv, InitStep
  PROVE  DiskInv' /\ zk \subseteq zk'
<1>1. /\ init \in Creation /\ init.dir \in Dir
      /\ init.step \in {"mkdir", "create", "write", "template"}
  BY DEF IInv, DiskInv, InitStep, Creation
<1>2. ASSUME NEW s \in {"create", "write", "template"}, init' = [init EXCEPT !.step = s]
      PROVE  init' \in Creation
  BY <1>1, <1>2 DEF Creation
<1>3. CASE init.step = "mkdir"
  <2>1. zk' = zk \cup {init.dir} /\ UNCHANGED <<toml, files>>
        /\ init' = [init EXCEPT !.step = "create"]
    BY <1>3 DEF InitStep
  <2> QED  BY <1>1, <1>2, <2>1 DEF IInv, DiskInv
<1>4. ASSUME NEW t, NEW s \in {"write", "template"}, toml' = [toml EXCEPT ![init.dir] = t],
             init' = [init EXCEPT !.step = s], UNCHANGED <<zk, files>>
      PROVE  DiskInv' /\ zk \subseteq zk'
  <2>1. DOMAIN toml' = Dir  BY <1>4 DEF IInv, DiskInv
  <2> QED  BY <1>2, <1>4, <2>1 DEF IInv, DiskInv
<1>5. CASE init.step = "create"
  <2>1. /\ toml' = [toml EXCEPT ![init.dir] = EmptyToml] /\ init' = [init EXCEPT !.step = "write"]
        /\ UNCHANGED <<zk, files>>
    BY <1>5 DEF InitStep
  <2> QED  BY <1>4, <2>1
<1>6. CASE init.step = "write"
  <2>1. /\ toml' = [toml EXCEPT ![init.dir] = GenerateConfig(init.opts)]
        /\ init' = [init EXCEPT !.step = "template"] /\ UNCHANGED <<zk, files>>
    BY <1>6 DEF InitStep
  <2> QED  BY <1>4, <2>1
<1>7. CASE init.step = "template"
  <2>1. init' = NoRoot /\ UNCHANGED <<zk, toml, files>>  BY <1>7 DEF InitStep
  <2> QED  BY <2>1 DEF IInv, DiskInv
<1> QED  BY <1>1, <1>3, <1>5, <1>6, <1>7

\* Every step keeps the invariant.
LEMMA NextKeepsIInv == IInv /\ [Next]_vars => IInv'
<1> SUFFICES ASSUME IInv, [Next]_vars PROVE IInv'
  OBVIOUS
<1>1. ASSUME NEW p \in Asked, Open(p) PROVE IInv'
  BY <1>1, OpenKeepsDisk, OpenKeepsLookups, OpenKeepsCache DEF IInv
<1>2. ASSUME NEW d \in Dir, NEW opts \in InitOpts, InitStart(d, opts) PROVE IInv'
  <2>1. /\ init' = [dir |-> d, opts |-> opts, step |-> "mkdir"]
        /\ UNCHANGED <<zk, toml, files>> /\ UNCHANGED process
    BY <1>2 DEF InitStart, disk
  <2>2. init' \in Creation  BY <2>1 DEF Creation
  <2> QED  BY <2>1, <2>2, OthersKeepProcess DEF IInv, DiskInv
<1>3. CASE InitStep
  <2>1. UNCHANGED process  BY <1>3 DEF InitStep
  <2> QED  BY <1>3, <2>1, InitKeepsDisk, OthersKeepProcess DEF IInv
<1>4. CASE InitKilled
  <2>1. init' = NoRoot /\ UNCHANGED <<zk, toml, files>> /\ UNCHANGED process
    BY <1>4 DEF InitKilled, disk
  <2> QED  BY <2>1, OthersKeepProcess DEF IInv, DiskInv
<1>5. ASSUME NEW f \in File, CreateFile(f) PROVE IInv'
  <2>1. DiskInv' /\ UNCHANGED zk /\ UNCHANGED process
    BY <1>5 DEF CreateFile, IInv, DiskInv
  <2> QED  BY <2>1, OthersKeepProcess DEF IInv
<1>6. CASE UNCHANGED vars
  <2>1. DiskInv' /\ UNCHANGED zk /\ UNCHANGED process
    BY <1>6 DEF vars, disk, IInv, DiskInv
  <2> QED  BY <2>1, OthersKeepProcess DEF IInv
<1> QED  BY <1>1, <1>2, <1>3, <1>4, <1>5, <1>6 DEF Next

\* The invariant holds in every behaviour.
LEMMA StoreInvariant == Spec => []IInv
BY InitIInv, NextKeepsIInv, PTL DEF Spec
-----------------------------------------------------------------------------
(* The theorems.                                                           *)

\* NotebookStore.Open makes a second instance of a notebook only for a path
\* that IsDescendantOf does not see inside it.
THEOREM OneInstanceTheorem == Spec => []OneInstance
<1>1. IInv => OneInstance  BY DEF IInv
<1> QED  BY <1>1, StoreInvariant, PTL

\* Notebook.RelPath succeeds for the document that Open found the notebook of,
\* whether the notebook was in the cache or located on the disk.
THEOREM LookupsSucceedTheorem == Spec => []LookupsSucceed
<1>1. IInv => LookupsSucceed  BY DEF IInv
<1> QED  BY <1>1, StoreInvariant, PTL

\* The notebook that Open returns encloses the document, and no other does,
\* unless notebooks lie within one another or it was opened through a link.
THEOREM EnclosingNotebookTheorem == Spec => []EnclosingNotebook
<1>1. ASSUME IInv, last.root # NoRoot, last.root = Resolve(last.root),
             \A d, e \in zk : IsPrefix(d, e) => d = e
      PROVE  {d \in zk : IsPrefix(d, last.path)} = {last.root}
  <2>1. last.root \in zk /\ IsPrefix(last.root, last.path) /\ last.path \in Seq(STRING)
    BY <1>1 DEF IInv, LastInv
  <2>2. ASSUME NEW d \in zk, IsPrefix(d, last.path) PROVE d = last.root
    <3>1. d \in Seq(STRING) /\ last.root \in Seq(STRING)
      BY <1>1, <2>1, NotebookStoreAssumption DEF IInv, DiskInv
    <3>2. IsPrefix(d, last.root) \/ IsPrefix(last.root, d)
      BY <2>1, <2>2, <3>1, PrefixesCompare
    <3> QED  BY <1>1, <2>1, <3>2
  <2> QED  BY <2>1, <2>2
<1>2. IInv => EnclosingNotebook  BY <1>1 DEF EnclosingNotebook
<1> QED  BY <1>2, StoreInvariant, PTL
=============================================================================
