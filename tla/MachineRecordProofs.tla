------------------------ MODULE MachineRecordProofs ------------------------
(***************************************************************************)
(* Any number of copies of the program, of identities, configurations,     *)
(* mishaps and changes: proofs that there is one identity, that no         *)
(* configuration is written down twice in a row, that a window on an       *)
(* install that was there before has a reading to show, and that no        *)
(* snapshot is short of disks but by a mishap of its own, wherever one     *)
(* copy did not overtake another.                                          *)
(***************************************************************************)
EXTENDS MachineRecord, FiniteSetTheorems, TLAPS

\* What a process holds at each place of a call.
InHand(a) ==
  /\ a.pc \notin {"closed", "to2", "clear", "to3", "to4", "find", "create"} => a.id \in Ids
  /\ a.pc \in {"latest", "sight", "insert", "disk"} => a.print \in Machines
  /\ a.pc = "disk" => a.left > 0

Typed ==
  /\ at \in [Procs -> At] /\ \A p \in Procs : InHand(at[p])
  /\ version \in 0 .. 4 /\ machine \in Machines
  /\ install \in SUBSET Ids /\ IsFiniteSet(install)
  /\ DOMAIN snaps \in SUBSET Nat /\ IsFiniteSet(DOMAIN snaps)
  /\ snaps \in [DOMAIN snaps -> Snap]

\* Who may still write an identity, and then there is none.
OneWriter ==
  "identity" \notin met =>
    /\ \A i, j \in install : i = j
    /\ \A p \in Procs : at[p].pc = "create" =>
         install = {} /\ \A q \in Procs \ {p} : at[q].pc # "create"

\* While the file is old, nobody is past the upgrade, and it has at most the
\* reading it came with; once it is new, nobody is in it.
Upgrading == {"to2", "clear", "to3"}

OldOrNew ==
  "upgrade" \notin met =>
    /\ version < 3 => /\ \A p \in Procs : at[p].pc \in Upgrading \cup {"closed"}
                      /\ \A r, s \in DOMAIN snaps : r = s
    /\ version >= 3 => \A p \in Procs : at[p].pc \notin Upgrading

\* Whoever was told that there is a reading, or wrote one, still has it.
HasReading ==
  "upgrade" \notin met =>
    \A p \in Procs :
      \/ at[p].pc \in {"sight", "disk"}
      \/ at[p].pc = "up" /\ at[p].owed
      => Mounted(at[p].id)

\* One process at a time writes a configuration down, and it is not the last.
NewsToFile ==
  met = {} =>
    \A p \in Procs : at[p].pc = "insert" =>
      /\ Latest(at[p].id) # at[p].print
      /\ \A q \in Procs \ {p} : at[q].pc # "insert"

\* Snapshots that a process is writing, and those that are short and nobody is.
Writers   == {p \in Procs : at[p].pc = "disk"}
Written   == {at[p].row : p \in Writers}
Abandoned == Short \ Written

\* Whoever writes the disks of a snapshot has it to itself, and knows how many
\* are missing.
InWriting ==
  "upgrade" \notin met =>
    \A p \in Writers :
      /\ at[p].row \in DOMAIN snaps /\ snaps[at[p].row].print = at[p].print
      /\ snaps[at[p].row].disks + at[p].left = Disks[at[p].print]
      /\ \A q \in Writers : at[q].row = at[p].row => q = p

\* What an older build left has no disk, and is gone before the file is new.
OldIsBare ==
  "upgrade" \notin met /\ version < 3 =>
    /\ \A r \in DOMAIN snaps : snaps[r].disks = 0
    /\ \A p \in Procs : at[p].pc = "to3" => DOMAIN snaps = {}

\* Each snapshot left short took a mishap of its own.
EachByMishap ==
  "upgrade" \notin met /\ version >= 3 => Cardinality(Abandoned) <= mishaps

DisksInv == mishaps \in Nat /\ InWriting /\ OldIsBare /\ EachByMishap

\* The inductive invariant.
IInv == Typed /\ OneWriter /\ OldOrNew /\ HasReading /\ NewsToFile /\ NoneTwice

-----------------------------------------------------------------------------
(* The greatest and the least of a finite set of numbers: the sets of what is *)
(* above a number shrink, and those of a finite set have a smallest.          *)

LEMMA MaxIs ==
  ASSUME NEW S \in SUBSET Nat, IsFiniteSet(S), S # {}
  PROVE  Max(S) \in S /\ \A y \in S : y <= Max(S)
<1> DEFINE Above(x) == {y \in S : y > x}
           T == {Above(x) : x \in S}
<1>1. IsWellFoundedOn(StrictSubsetOrdering(S), SUBSET S)
  BY FS_StrictSubsetOrderingWellFounded, FS_FiniteSubsetsOfFinite
<1>2. T \subseteq SUBSET S /\ T # {}
  OBVIOUS
<1>3. PICK U \in T : \A V \in T : ~(<<V, U>> \in StrictSubsetOrdering(S))
  BY <1>1, <1>2, WFMin
<1>4. PICK x \in S : U = Above(x)
  BY <1>3
<1>5. \A y \in S : x >= y
  <2>1. SUFFICES ASSUME NEW y \in S, y > x
                 PROVE  FALSE
    OBVIOUS
  <2>2. Above(y) \in T
    OBVIOUS
  <2>3. x \in Nat /\ y \in Nat /\ \A z \in S : z \in Nat
    OBVIOUS
  <2>4. Above(y) \subseteq Above(x) /\ y \in Above(x) /\ y \notin Above(y)
    <3> HIDE DEF T
    <3>1. \A z \in Above(y) : z \in Above(x)
      BY <2>1, <2>3
    <3>2. y \in Above(x) /\ y \notin Above(y)
      BY <2>1, <2>3
    <3>3. QED
      BY <3>1, <3>2
  <2>5. <<Above(y), Above(x)>> \in StrictSubsetOrdering(S)
    BY <2>4 DEF StrictSubsetOrdering
  <2> HIDE DEF Above, T
  <2>6. QED
    BY <1>3, <1>4, <2>2, <2>5
<1>6. QED
  BY <1>5 DEF Max

LEMMA MinIs ==
  ASSUME NEW S \in SUBSET Nat, IsFiniteSet(S), S # {}
  PROVE  Min(S) \in S
<1> DEFINE Below(x) == {y \in S : y < x}
           T == {Below(x) : x \in S}
<1>1. IsWellFoundedOn(StrictSubsetOrdering(S), SUBSET S)
  BY FS_StrictSubsetOrderingWellFounded, FS_FiniteSubsetsOfFinite
<1>2. T \subseteq SUBSET S /\ T # {}
  OBVIOUS
<1>3. PICK U \in T : \A V \in T : ~(<<V, U>> \in StrictSubsetOrdering(S))
  BY <1>1, <1>2, WFMin
<1>4. PICK x \in S : U = Below(x)
  BY <1>3
<1>5. \A y \in S : x =< y
  <2>1. SUFFICES ASSUME NEW y \in S, y < x
                 PROVE  FALSE
    OBVIOUS
  <2>2. Below(y) \in T
    OBVIOUS
  <2>3. x \in Nat /\ y \in Nat /\ \A z \in S : z \in Nat
    OBVIOUS
  <2>4. Below(y) \subseteq Below(x) /\ y \in Below(x) /\ y \notin Below(y)
    <3> HIDE DEF T
    <3>1. \A z \in Below(y) : z \in Below(x)
      BY <2>1, <2>3
    <3>2. y \in Below(x) /\ y \notin Below(y)
      BY <2>1, <2>3
    <3>3. QED
      BY <3>1, <3>2
  <2>5. <<Below(y), Below(x)>> \in StrictSubsetOrdering(S)
    BY <2>4 DEF StrictSubsetOrdering
  <2> HIDE DEF Below, T
  <2>6. QED
    BY <1>3, <1>4, <2>2, <2>5
<1>6. QED
  BY <1>5 DEF Min

\* The number a new row gets is above all there are.
LEMMA NextIsNew ==
  ASSUME Typed
  PROVE  NextRow \in Nat /\ \A r \in DOMAIN snaps : r < NextRow
<1>1. CASE DOMAIN snaps = {}
  BY <1>1 DEF NextRow
<1>2. CASE DOMAIN snaps # {}
  <2>1. Max(DOMAIN snaps) \in DOMAIN snaps /\ \A r \in DOMAIN snaps : r <= Max(DOMAIN snaps)
    BY <1>2, MaxIs DEF Typed
  <2>2. QED
    BY <1>2, <2>1 DEF NextRow, Typed
<1>3. QED
  BY <1>1, <1>2

LEMMA NewestIs ==
  ASSUME Typed, NEW id, Rows(id) # {}
  PROVE  Newest(id) \in Rows(id) /\ \A r \in Rows(id) : r <= Newest(id)
<1>1. Rows(id) \in SUBSET Nat /\ IsFiniteSet(Rows(id))
  BY FS_Subset DEF Rows, Typed
<1>2. QED
  BY <1>1, MaxIs DEF Newest

Before(r) == {s \in Rows(snaps[r].of) : s < r}

LEMMA BeforeIs ==
  ASSUME Typed, NEW r \in DOMAIN snaps, Before(r) # {}
  PROVE  Max(Before(r)) \in Before(r)
<1>1. Before(r) \in SUBSET Nat /\ IsFiniteSet(Before(r))
  BY FS_Subset DEF Before, Rows, Typed
<1>2. QED
  BY <1>1, MaxIs

\* The places of a process that writes no snapshot.
LEMMA AtTyped ==
  ASSUME Typed, NEW p \in Procs, NEW a \in At, InHand(a), at' = [at EXCEPT ![p] = a]
  PROVE  at' \in [Procs -> At] /\ \A q \in Procs : InHand(at'[q])
BY DEF Typed

\* Process p is at a, and the file holds what it held.
LEMMA OnlyOneMoves ==
  ASSUME IInv, NEW p \in Procs, NEW a \in At, InHand(a), at' = [at EXCEPT ![p] = a],
         UNCHANGED <<version, install, snaps, machine>>, met \subseteq met',
         a.pc \in Upgrading => version < 3 \/ "upgrade" \in met,
         a.pc \notin Upgrading \cup {"closed"} => version >= 3 \/ "upgrade" \in met,
         a.pc = "create" =>
           /\ install = {}
           /\ "identity" \notin met' => \A q \in Procs \ {p} : at[q].pc # "create",
         \/ a.pc \in {"sight", "disk"}
         \/ a.pc = "up" /\ a.owed
         => "upgrade" \in met \/ Mounted(a.id),
         a.pc = "insert" =>
           /\ Latest(a.id) # a.print
           /\ met' = {} => \A q \in Procs \ {p} : at[q].pc # "insert"
  PROVE  IInv'
<1>1. Typed'
  <2>1. at' \in [Procs -> At] /\ \A q \in Procs : InHand(at'[q])
    BY AtTyped DEF IInv
  <2>2. QED
    BY <2>1 DEF IInv, Typed
<1>2. at'[p] = a /\ \A q \in Procs \ {p} : at'[q] = at[q]
  BY DEF IInv, Typed
<1>3. OneWriter'
  BY <1>2 DEF IInv, OneWriter
<1>4. OldOrNew'
  BY <1>2 DEF IInv, OldOrNew, Upgrading, Typed
<1>5. HasReading'
  BY <1>2 DEF IInv, HasReading, Mounted, Rows
<1>6. NewsToFile'
  <2>1. SUFFICES ASSUME met' = {}, NEW q \in Procs, at'[q].pc = "insert"
                 PROVE  /\ Latest(at[q].id)' # at'[q].print
                        /\ \A u \in Procs \ {q} : at'[u].pc # "insert"
    BY DEF NewsToFile
  <2>2. \A u \in Procs \ {q} : at'[u].pc # "insert"
    BY <1>2, <2>1 DEF IInv, NewsToFile
  <2>3. Latest(at'[q].id) # at'[q].print
    BY <1>2, <2>1 DEF IInv, NewsToFile
  <2>4. Latest(at[q].id)' = Latest(at'[q].id)
    BY Zenon DEF Latest, Newest, Rows
  <2>5. QED
    BY <2>2, <2>3, <2>4
<1>7. NoneTwice'
  BY DEF IInv, NoneTwice, Rows
<1>8. QED
  BY <1>1, <1>3, <1>4, <1>5, <1>6, <1>7 DEF IInv

\* What a closed process and one that comes back hold.
LEMMA ClosedIs == Closed \in At /\ InHand(Closed) /\ Closed.pc = "closed"
BY DEF Closed, At, Stages, InHand

LEMMA BackIs ==
  ASSUME Typed, NEW p \in Procs, NEW owed \in BOOLEAN, Back(p, owed), at[p].id \in Ids
  PROVE  \E a \in At : /\ InHand(a) /\ at' = [at EXCEPT ![p] = a]
                        /\ a.pc = "up" /\ a.owed = owed /\ a.id = at[p].id
<1> DEFINE a == [at[p] EXCEPT !.pc = "up", !.print = NoPrint, !.row = 0, !.left = 0,
                              !.owed = owed]
<1>1. at[p] \in At
  BY DEF Typed
<1>2. a \in At /\ a.pc = "up" /\ a.owed = owed /\ a.id = at[p].id
  BY <1>1 DEF At, Stages
<1>3. at' = [at EXCEPT ![p] = a]
  BY <1>1 DEF Back, At
<1>4. InHand(a)
  BY <1>2 DEF InHand
<1> HIDE DEF a
<1>5. QED
  BY <1>2, <1>3, <1>4

-----------------------------------------------------------------------------
LEMMA InitHolds == Init => IInv
<1> SUFFICES ASSUME Init PROVE IInv
  OBVIOUS
<1>1. version \in 0 .. 4 /\ install \in SUBSET Ids /\ IsFiniteSet(install)
      /\ \A i, j \in install : i = j
  <2>1. install = {} \/ \E i \in Ids : install = {i}
    BY DEF Init
  <2>2. version \in 0 .. 4
    BY DEF Init
  <2>3. QED
    BY <2>1, <2>2, FS_EmptySet, FS_Singleton
<1>2. \/ snaps = << >>
      \/ \E i \in Ids, m \in Machines, n \in Nat :
           snaps = [r \in {1} |-> [of |-> i, print |-> m, disks |-> n]]
  BY RecordAssumption DEF Init
<1>3. /\ DOMAIN snaps \in SUBSET Nat /\ IsFiniteSet(DOMAIN snaps)
      /\ snaps \in [DOMAIN snaps -> Snap] /\ \A r, s \in DOMAIN snaps : r = s
  <2>1. CASE snaps = << >>
    BY <2>1, FS_EmptySet
  <2>2. CASE \E i \in Ids, m \in Machines, n \in Nat :
               snaps = [r \in {1} |-> [of |-> i, print |-> m, disks |-> n]]
    <3>1. PICK i \in Ids, m \in Machines, n \in Nat :
            snaps = [r \in {1} |-> [of |-> i, print |-> m, disks |-> n]]
      BY <2>2
    <3>2. [of |-> i, print |-> m, disks |-> n] \in Snap
      BY DEF Snap
    <3>3. DOMAIN snaps = {1} /\ IsFiniteSet({1})
      BY <3>1, FS_Singleton
    <3>4. snaps \in [DOMAIN snaps -> Snap]
      BY <3>1, <3>2
    <3>5. QED
      BY <3>3, <3>4
  <2>3. QED
    BY <1>2, <2>1, <2>2
<1>4. at = [p \in Procs |-> Closed] /\ met = {} /\ machine \in Machines
  BY DEF Init
<1>5. Typed
  BY <1>1, <1>3, <1>4, ClosedIs DEF Typed
<1>6. OneWriter /\ OldOrNew /\ HasReading /\ NewsToFile
  BY <1>1, <1>3, <1>4, ClosedIs DEF OneWriter, OldOrNew, HasReading, NewsToFile, Upgrading
<1>7. NoneTwice
  BY <1>3, <1>5 DEF NoneTwice, Rows, Typed
<1>8. QED
  BY <1>5, <1>6, <1>7 DEF IInv

-----------------------------------------------------------------------------
(* The actions. *)

LEMMA OpenKeeps ==
  ASSUME IInv, NEW p \in Procs, Open(p)
  PROVE  IInv'
<1> DEFINE a == [Closed EXCEPT !.pc = After(version)]
<1>1. version \in 0 .. 4
  BY DEF IInv, Typed
<1>2. /\ After(version) \in {"to2", "clear", "to4", "find"}
      /\ After(version) \in Upgrading <=> version < 3
  BY <1>1 DEF After, Upgrading
<1>3. a \in At /\ a.pc = After(version)
  BY <1>1, <1>2 DEF Closed, At, Stages
<1>4. InHand(a)
  BY <1>2, <1>3 DEF InHand
<1>5. at' = [at EXCEPT ![p] = a] /\ UNCHANGED <<version, install, snaps, machine, met>>
  BY DEF Open, World
<1>6. a.pc \in {"to2", "clear", "to4", "find"} /\ (a.pc \in Upgrading <=> version < 3)
  BY <1>2, <1>3
<1>7. /\ a.pc \notin {"create", "sight", "disk", "up", "insert"}
      /\ (version < 3 \/ version >= 3) /\ met \subseteq met'
  BY <1>1, <1>5, <1>6
<1> HIDE DEF a
<1>8. QED
  BY <1>1, <1>3, <1>4, <1>5, <1>6, <1>7, OnlyOneMoves

LEMMA FindKeeps ==
  ASSUME IInv, NEW p \in Procs, Find(p)
  PROVE  IInv'
<1>0. /\ at[p] \in At /\ at[p].pc = "find" /\ UNCHANGED <<version, install, snaps, machine>>
      /\ met \subseteq met' /\ version \in 0 .. 4
      /\ version >= 3 \/ "upgrade" \in met
  <2>1. at[p].pc = "find" /\ UNCHANGED <<version, install, snaps, machine>> /\ met \subseteq met'
    BY DEF Find, World
  <2>2. QED
    BY <2>1 DEF IInv, Typed, OldOrNew, Upgrading
<1>1. CASE install = {}
  <2> DEFINE a == [at[p] EXCEPT !.pc = "create", !.new = TRUE]
  <2>1. a \in At /\ a.pc = "create" /\ InHand(a)
    BY <1>0 DEF At, Stages, InHand
  <2>2. at' = [at EXCEPT ![p] = a]
    <3>1. at' = [at EXCEPT ![p].pc = "create", ![p].new = TRUE]
      BY <1>1 DEF Find
    <3>2. QED
      BY <1>0, <3>1 DEF At
  <2>3. "identity" \notin met' => \A q \in Procs \ {p} : at[q].pc # "create"
    BY <1>1 DEF Find, Elsewhere
  <2> HIDE DEF a
  <2>4. QED
    BY <1>0, <1>1, <2>1, <2>2, <2>3, OnlyOneMoves
       DEF Upgrading
<1>2. CASE install # {}
  <2> DEFINE a == [at[p] EXCEPT !.pc = "gate", !.id = Min(install)]
  <2>1. Min(install) \in Ids
    BY <1>2, MinIs, RecordAssumption DEF IInv, Typed
  <2>2. a \in At /\ a.pc = "gate" /\ a.id = Min(install)
    BY <1>0, <2>1 DEF At, Stages
  <2>3. InHand(a)
    BY <2>1, <2>2 DEF InHand
  <2>4. at' = [at EXCEPT ![p] = a]
    <3>1. at' = [at EXCEPT ![p].pc = "gate", ![p].id = Min(install)]
      BY <1>2 DEF Find
    <3>2. QED
      BY <1>0, <3>1 DEF At
  <2> HIDE DEF a
  <2>5. QED
    BY <1>0, <2>2, <2>3, <2>4, OnlyOneMoves DEF Upgrading
<1>3. QED
  BY <1>1, <1>2

\* Where a process stands that is past the upgrade and its identity.
Past == {"gate", "latest", "sight", "insert", "disk", "up"}

LEMMA PastIs ==
  ASSUME IInv, NEW p \in Procs, at[p].pc \in Past
  PROVE  /\ at[p] \in At /\ at[p].id \in Ids /\ InHand(at[p])
         /\ version >= 3 \/ "upgrade" \in met
BY DEF IInv, Typed, InHand, OldOrNew, Upgrading, Past

LEMMA GateKeeps ==
  ASSUME IInv, NEW p \in Procs, Gate(p)
  PROVE  IInv'
<1>0. /\ at[p].pc = "gate" /\ UNCHANGED <<version, install, snaps, machine, met>>
      /\ machine \in Machines
  BY DEF Gate, World, IInv, Typed
<1>1. at[p] \in At /\ at[p].id \in Ids /\ (version >= 3 \/ "upgrade" \in met)
  BY <1>0, PastIs DEF Past
<1>2. PICK answers \in BOOLEAN :
        IF answers /\ (Mounted(at[p].id) \/ ~at[p].new)
        THEN at' = [at EXCEPT ![p].pc = "latest", ![p].print = machine, ![p].owed = ~at[p].new]
        ELSE at' = [at EXCEPT ![p].pc = "up", ![p].owed = answers /\ ~at[p].new]
  BY DEF Gate, RowLeft
<1>3. CASE answers /\ (Mounted(at[p].id) \/ ~at[p].new)
  <2> DEFINE a == [at[p] EXCEPT !.pc = "latest", !.print = machine, !.owed = ~at[p].new]
  <2>1. a \in At /\ a.pc = "latest" /\ a.id = at[p].id /\ a.print = machine
    BY <1>0, <1>1 DEF At, Stages
  <2>2. InHand(a)
    BY <1>0, <1>1, <2>1 DEF InHand
  <2>3. at' = [at EXCEPT ![p] = a]
    BY <1>1, <1>2, <1>3 DEF At
  <2> HIDE DEF a
  <2>4. QED
    BY <1>0, <1>1, <2>1, <2>2, <2>3, OnlyOneMoves DEF Upgrading
<1>4. CASE ~(answers /\ (Mounted(at[p].id) \/ ~at[p].new))
  <2> DEFINE a == [at[p] EXCEPT !.pc = "up", !.owed = answers /\ ~at[p].new]
  <2>1. a \in At /\ a.pc = "up" /\ a.id = at[p].id /\ a.owed = (answers /\ ~at[p].new)
    BY <1>1 DEF At, Stages
  <2>2. InHand(a) /\ ~a.owed
    BY <1>1, <1>4, <2>1 DEF InHand
  <2>3. at' = [at EXCEPT ![p] = a]
    BY <1>1, <1>2, <1>4 DEF At
  <2> HIDE DEF a
  <2>4. QED
    BY <1>0, <1>1, <2>1, <2>2, <2>3, OnlyOneMoves DEF Upgrading
<1>5. QED
  BY <1>3, <1>4

LEMMA PressKeeps ==
  ASSUME IInv, NEW p \in Procs, Press(p)
  PROVE  IInv'
<1> DEFINE a == [at[p] EXCEPT !.pc = "latest", !.print = machine]
<1>0. /\ at[p].pc = "up" /\ UNCHANGED <<version, install, snaps, machine, met>>
      /\ machine \in Machines
  BY DEF Press, World, IInv, Typed
<1>1. at[p] \in At /\ at[p].id \in Ids /\ (version >= 3 \/ "upgrade" \in met)
  BY <1>0, PastIs DEF Past
<1>2. a \in At /\ a.pc = "latest" /\ a.id = at[p].id /\ a.print = machine
  BY <1>0, <1>1 DEF At, Stages
<1>3. InHand(a)
  BY <1>0, <1>1, <1>2 DEF InHand
<1>4. at' = [at EXCEPT ![p] = a]
  BY <1>1 DEF Press, At
<1> HIDE DEF a
<1>5. QED
  BY <1>0, <1>1, <1>2, <1>3, <1>4, OnlyOneMoves DEF Upgrading

LEMMA CompareKeeps ==
  ASSUME IInv, NEW p \in Procs, Compare(p)
  PROVE  IInv'
<1>0. /\ at[p].pc = "latest" /\ UNCHANGED <<version, install, snaps, machine>>
      /\ met \subseteq met'
  BY DEF Compare, World
<1>1. /\ at[p] \in At /\ at[p].id \in Ids /\ at[p].print \in Machines
      /\ version >= 3 \/ "upgrade" \in met
  BY <1>0, PastIs DEF Past, InHand
<1>2. CASE Latest(at[p].id) = at[p].print
  <2> DEFINE a == [at[p] EXCEPT !.pc = "sight"]
  <2>1. a \in At /\ a.pc = "sight" /\ a.id = at[p].id /\ a.print = at[p].print
    BY <1>1 DEF At, Stages
  <2>2. InHand(a)
    BY <1>1, <2>1 DEF InHand
  <2>3. at' = [at EXCEPT ![p] = a]
    BY <1>1, <1>2 DEF Compare, Goes, At
  <2>4. Mounted(at[p].id)
    BY <1>1, <1>2, RecordAssumption DEF Latest, Mounted
  <2> HIDE DEF a
  <2>5. QED
    BY <1>0, <1>1, <2>1, <2>2, <2>3, <2>4, OnlyOneMoves DEF Upgrading
<1>3. CASE Latest(at[p].id) # at[p].print
  <2> DEFINE a == [at[p] EXCEPT !.pc = "insert"]
  <2>1. a \in At /\ a.pc = "insert" /\ a.id = at[p].id /\ a.print = at[p].print
    BY <1>1 DEF At, Stages
  <2>2. InHand(a)
    BY <1>1, <2>1 DEF InHand
  <2>3. at' = [at EXCEPT ![p] = a]
    BY <1>1, <1>3 DEF Compare, Goes, At
  <2>4. met' = {} => \A q \in Procs \ {p} : at[q].pc # "insert"
    BY <1>3 DEF Compare, Elsewhere
  <2> HIDE DEF a
  <2>5. QED
    BY <1>0, <1>1, <1>3, <2>1, <2>2, <2>3, <2>4, OnlyOneMoves DEF Upgrading
<1>4. QED
  BY <1>2, <1>3

LEMMA SightKeeps ==
  ASSUME IInv, NEW p \in Procs, Sight(p)
  PROVE  IInv'
<1>0. /\ at[p].pc = "sight" /\ UNCHANGED <<version, install, snaps, machine, met>>
      /\ Back(p, at[p].owed)
  BY DEF Sight, World
<1>1. at[p] \in At /\ at[p].id \in Ids /\ (version >= 3 \/ "upgrade" \in met)
  BY <1>0, PastIs DEF Past
<1>2. "upgrade" \in met \/ Mounted(at[p].id)
  BY <1>0 DEF IInv, HasReading
<1>3. PICK a \in At : /\ InHand(a) /\ at' = [at EXCEPT ![p] = a]
                      /\ a.pc = "up" /\ a.id = at[p].id
  BY <1>0, <1>1, BackIs DEF IInv, At
<1>4. QED
  BY <1>0, <1>1, <1>2, <1>3, OnlyOneMoves DEF Upgrading

LEMMA EndsKeep ==
  ASSUME IInv, NEW p \in Procs, Ends(p)
  PROVE  IInv'
<1>0. UNCHANGED <<version, install, snaps, machine, met>>
  BY DEF Ends, Refused, Crash, Close, World
<1>1. CASE at' = [at EXCEPT ![p] = Closed]
  BY <1>0, <1>1, ClosedIs, OnlyOneMoves DEF Upgrading
<1>2. CASE at[p].pc \in Past /\ Back(p, FALSE)
  <2>1. at[p].id \in Ids /\ (version >= 3 \/ "upgrade" \in met)
    BY <1>2, PastIs
  <2>2. PICK a \in At : /\ InHand(a) /\ at' = [at EXCEPT ![p] = a]
                        /\ a.pc = "up" /\ ~a.owed
    BY <1>2, <2>1, BackIs DEF IInv
  <2>3. QED
    BY <1>0, <2>1, <2>2, OnlyOneMoves DEF Upgrading
<1>3. QED
  BY <1>1, <1>2 DEF Ends, Refused, Crash, Close, Past

\* A reading stays one, and the last one the last, while the rows do.
LEMMA RowsStay ==
  ASSUME Typed, DOMAIN snaps' = DOMAIN snaps,
         \A r \in DOMAIN snaps : snaps'[r].of = snaps[r].of /\ snaps'[r].print = snaps[r].print
  PROVE  /\ \A id : {r \in DOMAIN snaps' : snaps'[r].of = id} = Rows(id)
         /\ \A id : Rows(id) # {} => snaps'[Newest(id)].print = snaps[Newest(id)].print
<1>1. \A id : {r \in DOMAIN snaps' : snaps'[r].of = id} = Rows(id)
  BY DEF Rows
<1>2. ASSUME NEW id, Rows(id) # {}
      PROVE  snaps'[Newest(id)].print = snaps[Newest(id)].print
  BY <1>2, NewestIs DEF Rows
<1>3. QED
  BY <1>1, <1>2

LEMMA StampKeeps ==
  ASSUME IInv, NEW p \in Procs, Stamp(p)
  PROVE  IInv'
<1> DEFINE pc == CASE at[p].pc = "to2" -> "clear" [] at[p].pc = "to3" -> "to4" [] OTHER -> "find"
           a  == [at[p] EXCEPT !.pc = pc]
<1>0. /\ at[p] \in At /\ at \in [Procs -> At] /\ version \in 0 .. 4
      /\ at[p].pc \in {"to2", "to3", "to4"} /\ UNCHANGED <<install, snaps, machine>>
      /\ met \subseteq met'
  BY DEF Stamp, World, IInv, Typed
<1>1. /\ at[p].pc = "to2" => version' = 2 /\ pc = "clear"
      /\ at[p].pc = "to3" => version' = 3 /\ pc = "to4"
      /\ at[p].pc = "to4" => version' = 4 /\ pc = "find"
  BY DEF Stamp
<1>2. at[p].pc # "to4" /\ "upgrade" \notin met' => \A q \in Procs \ {p} : at[q].pc = "closed"
  <2>1. at \in [Procs -> At] /\ \A q \in Procs : at[q].pc \in Stages
    BY <1>0 DEF At
  <2>2. QED
    BY <2>1 DEF Stamp, Elsewhere
<1>3. pc \in {"clear", "to4", "find"}
  BY <1>0, <1>1
<1> HIDE DEF pc
<1>4. a \in At /\ a.pc = pc
  BY <1>0, <1>3 DEF At, Stages
<1>5. at' = [at EXCEPT ![p] = a]
  <2>1. at' = [at EXCEPT ![p].pc = pc]
    BY DEF Stamp, Goes, pc
  <2>2. QED
    BY <1>0, <2>1 DEF At
<1>6. InHand(a)
  BY <1>3, <1>4 DEF InHand
<1> HIDE DEF a
<1>7. at'[p] = a /\ \A q \in Procs \ {p} : at'[q] = at[q]
  BY <1>0, <1>5
<1>8. Typed'
  BY <1>0, <1>1, <1>4, <1>5, <1>6, AtTyped DEF IInv, Typed
<1>9. OneWriter'
  BY <1>0, <1>3, <1>4, <1>7 DEF IInv, OneWriter
<1>10. OldOrNew'
  <2>1. SUFFICES ASSUME "upgrade" \notin met'
                 PROVE  /\ version' < 3 => /\ \A q \in Procs : at'[q].pc \in Upgrading \cup {"closed"}
                                          /\ \A r, s \in DOMAIN snaps : r = s
                        /\ version' >= 3 => \A q \in Procs : at'[q].pc \notin Upgrading
    BY <1>0 DEF OldOrNew
  <2>2. CASE at[p].pc = "to2"
    <3>1. version < 3
      BY <1>0, <2>1, <2>2 DEF IInv, OldOrNew, Upgrading
    <3>2. QED
      BY <1>0, <1>1, <1>2, <1>4, <1>7, <2>1, <2>2, <3>1 DEF IInv, OldOrNew, Upgrading
  <2>3. CASE at[p].pc = "to3"
    BY <1>1, <1>2, <1>4, <1>7, <2>1, <2>3 DEF Upgrading
  <2>4. CASE at[p].pc = "to4"
    <3>1. version >= 3
      BY <1>0, <2>1, <2>4 DEF IInv, OldOrNew, Upgrading
    <3>2. QED
      BY <1>0, <1>1, <1>4, <1>7, <2>1, <2>4, <3>1 DEF IInv, OldOrNew, Upgrading
  <2>5. QED
    BY <1>0, <2>2, <2>3, <2>4
<1>11. HasReading'
  BY <1>0, <1>3, <1>4, <1>7 DEF IInv, HasReading, Mounted, Rows
<1>12. NewsToFile'
  <2>1. SUFFICES ASSUME met' = {}, NEW q \in Procs, at'[q].pc = "insert"
                 PROVE  /\ Latest(at[q].id)' # at'[q].print
                        /\ \A u \in Procs \ {q} : at'[u].pc # "insert"
    BY DEF NewsToFile
  <2>2. q # p /\ met = {} /\ at'[q] = at[q]
    BY <1>0, <1>3, <1>4, <1>7, <2>1
  <2>3. Latest(at[q].id)' = Latest(at'[q].id)
    BY <1>0, Zenon DEF Latest, Newest, Rows
  <2>4. QED
    BY <1>3, <1>4, <1>7, <2>1, <2>2, <2>3 DEF IInv, NewsToFile
<1>13. NoneTwice'
  BY <1>0 DEF IInv, NoneTwice, Rows
<1>14. QED
  BY <1>8, <1>9, <1>10, <1>11, <1>12, <1>13 DEF IInv

LEMMA ClearKeeps ==
  ASSUME IInv, NEW p \in Procs, Clear(p)
  PROVE  IInv'
<1> DEFINE a == [at[p] EXCEPT !.pc = "to3"]
           stay == {r \in DOMAIN snaps : snaps[r].disks > 0}
<1>0. /\ at[p] \in At /\ at \in [Procs -> At] /\ version \in 0 .. 4
      /\ at[p].pc = "clear" /\ UNCHANGED <<version, install, machine>> /\ met \subseteq met'
      /\ snaps' = [r \in stay |-> snaps[r]]
  BY DEF Clear, World, IInv, Typed
<1>1. "upgrade" \notin met' => \A q \in Procs \ {p} : at[q].pc = "closed"
  <2>1. \A q \in Procs : at[q].pc \in Stages
    BY <1>0 DEF At
  <2>2. QED
    BY <2>1 DEF Clear, Elsewhere
<1>2. a \in At /\ a.pc = "to3" /\ InHand(a)
  BY <1>0 DEF At, Stages, InHand
<1>3. at' = [at EXCEPT ![p] = a]
  BY <1>0 DEF Clear, Goes, At
<1> HIDE DEF a
<1>4. at'[p] = a /\ \A q \in Procs \ {p} : at'[q] = at[q]
  BY <1>0, <1>3
<1>5. Typed'
  <2>1. DOMAIN snaps' = stay /\ stay \in SUBSET (DOMAIN snaps)
    BY <1>0
  <2>2. IsFiniteSet(DOMAIN snaps') /\ DOMAIN snaps' \in SUBSET Nat
    BY <2>1, FS_Subset DEF IInv, Typed
  <2>3. snaps' \in [DOMAIN snaps' -> Snap]
    BY <1>0, <2>1 DEF IInv, Typed
  <2> HIDE DEF stay
  <2>4. QED
    BY <1>0, <1>2, <1>3, <2>2, <2>3, AtTyped DEF IInv, Typed
<1>6. OneWriter'
  BY <1>0, <1>2, <1>4 DEF IInv, OneWriter
<1>7. "upgrade" \notin met' =>
        version < 3 /\ \A r, s \in DOMAIN snaps' : r = s
  <2>1. "upgrade" \notin met => version < 3
    BY <1>0 DEF IInv, OldOrNew, Upgrading
  <2>2. DOMAIN snaps' \subseteq DOMAIN snaps
    BY <1>0
  <2>3. QED
    BY <1>0, <2>1, <2>2 DEF IInv, OldOrNew
<1>8. OldOrNew'
  BY <1>0, <1>1, <1>2, <1>4, <1>7 DEF OldOrNew, Upgrading
<1>9. HasReading'
  BY <1>1, <1>2, <1>4 DEF HasReading
<1>10. NewsToFile'
  BY <1>1, <1>2, <1>4 DEF NewsToFile
<1>11. NoneTwice'
  <2>1. SUFFICES ASSUME met' = {}, NEW r \in DOMAIN snaps',
                        NEW s \in DOMAIN snaps', s < r
                 PROVE  FALSE
    BY DEF NoneTwice, Rows
  <2>2. s = r /\ r \in Nat
    BY <1>5, <1>7, <2>1 DEF Typed
  <2>3. QED
    BY <2>1, <2>2
<1>12. QED
  BY <1>5, <1>6, <1>8, <1>9, <1>10, <1>11 DEF IInv

LEMMA CreateKeeps ==
  ASSUME IInv, NEW p \in Procs, Create(p)
  PROVE  IInv'
<1>0. /\ at[p] \in At /\ at \in [Procs -> At] /\ version \in 0 .. 4
      /\ at[p].pc = "create" /\ UNCHANGED <<version, snaps, machine, met>>
  BY DEF Create, World, IInv, Typed
<1>1. PICK i \in Ids : /\ install' = install \cup {i}
                       /\ at' = [at EXCEPT ![p].pc = "gate", ![p].id = i]
  BY DEF Create
<1> DEFINE a == [at[p] EXCEPT !.pc = "gate", !.id = i]
<1>2. a \in At /\ a.pc = "gate" /\ a.id = i
  BY <1>0 DEF At, Stages
<1>3. InHand(a)
  BY <1>2 DEF InHand
<1>4. at' = [at EXCEPT ![p] = a]
  BY <1>0, <1>1 DEF At
<1> HIDE DEF a
<1>5. at'[p] = a /\ \A q \in Procs \ {p} : at'[q] = at[q]
  BY <1>0, <1>4
<1>6. Typed'
  <2>1. install' \in SUBSET Ids /\ IsFiniteSet(install')
    BY <1>1, FS_AddElement DEF IInv, Typed
  <2>2. QED
    BY <1>0, <1>2, <1>3, <1>4, <2>1, AtTyped DEF IInv, Typed
<1>7. OneWriter'
  <2>1. "identity" \notin met => install = {} /\ \A q \in Procs \ {p} : at[q].pc # "create"
    BY <1>0 DEF IInv, OneWriter
  <2>2. QED
    BY <1>0, <1>1, <1>2, <1>5, <2>1 DEF OneWriter
<1>8. OldOrNew'
  BY <1>0, <1>2, <1>5 DEF IInv, OldOrNew, Upgrading
<1>9. HasReading'
  BY <1>0, <1>2, <1>5 DEF IInv, HasReading, Mounted, Rows
<1>10. NewsToFile'
  <2>1. SUFFICES ASSUME met' = {}, NEW q \in Procs, at'[q].pc = "insert"
                 PROVE  /\ Latest(at[q].id)' # at'[q].print
                        /\ \A u \in Procs \ {q} : at'[u].pc # "insert"
    BY DEF NewsToFile
  <2>2. q # p /\ met = {} /\ at'[q] = at[q]
    BY <1>0, <1>2, <1>5, <2>1
  <2>3. Latest(at[q].id)' = Latest(at'[q].id)
    BY <1>0, Zenon DEF Latest, Newest, Rows
  <2>4. QED
    BY <1>2, <1>5, <2>1, <2>2, <2>3 DEF IInv, NewsToFile
<1>11. NoneTwice'
  BY <1>0 DEF IInv, NoneTwice, Rows
<1>12. QED
  BY <1>6, <1>7, <1>8, <1>9, <1>10, <1>11 DEF IInv

LEMMA InsertKeeps ==
  ASSUME IInv, NEW p \in Procs, Insert(p)
  PROVE  IInv'
<1> DEFINE row == [of |-> at[p].id, print |-> at[p].print, disks |-> 0]
           a   == [at[p] EXCEPT !.pc = "disk", !.row = NextRow, !.left = Disks[at[p].print]]
<1>0. /\ at[p].pc = "insert" /\ UNCHANGED <<version, install, machine, met>>
      /\ snaps' = [r \in DOMAIN snaps \cup {NextRow} |-> IF r = NextRow THEN row ELSE snaps[r]]
      /\ at' = [at EXCEPT ![p].pc = "disk", ![p].row = NextRow, ![p].left = Disks[at[p].print]]
      /\ at \in [Procs -> At]
  BY DEF Insert, World, IInv, Typed
<1>1. /\ at[p] \in At /\ at[p].id \in Ids /\ at[p].print \in Machines
      /\ version >= 3 \/ "upgrade" \in met
  BY <1>0, PastIs DEF Past, InHand
<1>2. NextRow \in Nat /\ \A r \in DOMAIN snaps : r < NextRow
  BY NextIsNew DEF IInv
<1>3. Disks[at[p].print] \in Nat \ {0}
  BY <1>1, RecordAssumption
<1>4. a \in At /\ a.pc = "disk" /\ a.id = at[p].id /\ InHand(a)
  <2>1. /\ a \in At /\ a.pc = "disk" /\ a.id = at[p].id /\ a.print = at[p].print
        /\ a.left = Disks[at[p].print]
    BY <1>1, <1>2, <1>3 DEF At, Stages
  <2>2. a.left > 0
    BY <1>3, <2>1
  <2> HIDE DEF a
  <2>3. QED
    BY <1>1, <2>1, <2>2 DEF InHand
<1>5. at' = [at EXCEPT ![p] = a]
  BY <1>0, <1>1 DEF At
<1>6. row \in Snap /\ row.of = at[p].id /\ row.print = at[p].print
  BY <1>1 DEF Snap
<1> HIDE DEF a, row
<1>7. at'[p] = a /\ \A q \in Procs \ {p} : at'[q] = at[q]
  BY <1>0, <1>5
<1>8. NextRow \notin DOMAIN snaps /\ DOMAIN snaps \in SUBSET Nat
  BY <1>2 DEF IInv, Typed
<1>9. /\ DOMAIN snaps' = DOMAIN snaps \cup {NextRow} /\ snaps'[NextRow] = row
      /\ \A r \in DOMAIN snaps : snaps'[r] = snaps[r]
  BY <1>0, <1>8
<1>10. Typed'
  <2>1. IsFiniteSet(DOMAIN snaps') /\ DOMAIN snaps' \in SUBSET Nat
    BY <1>2, <1>9, FS_AddElement DEF IInv, Typed
  <2>2. snaps' \in [DOMAIN snaps' -> Snap]
    BY <1>0, <1>6, <1>9 DEF IInv, Typed
  <2>3. QED
    BY <1>0, <1>4, <1>5, <2>1, <2>2, AtTyped DEF IInv, Typed
<1>11. OneWriter'
  BY <1>0, <1>4, <1>7 DEF IInv, OneWriter
<1>12. OldOrNew'
  BY <1>0, <1>1, <1>4, <1>7 DEF IInv, OldOrNew, Upgrading
<1>13. \A id : Rows(id) \subseteq {r \in DOMAIN snaps' : snaps'[r].of = id}
  BY <1>9 DEF Rows
<1>14. HasReading'
  <2>1. SUFFICES ASSUME "upgrade" \notin met, NEW q \in Procs,
                        \/ at'[q].pc \in {"sight", "disk"}
                        \/ at'[q].pc = "up" /\ at'[q].owed
                 PROVE  {r \in DOMAIN snaps' : snaps'[r].of = at'[q].id} # {}
    BY <1>0, Zenon DEF HasReading, Mounted, Rows
  <2>2. CASE q = p
    BY <1>4, <1>6, <1>7, <1>9, <2>2
  <2>3. CASE q # p
    <3>1. Rows(at'[q].id) # {}
      BY <1>7, <2>1, <2>3 DEF IInv, HasReading, Mounted
    <3>2. QED
      BY <1>13, <3>1
  <2>4. QED
    BY <2>2, <2>3
<1>15. NewsToFile'
  BY <1>0, <1>4, <1>7 DEF IInv, NewsToFile
<1>16. NoneTwice'
  <2> DEFINE New(r) == {s \in DOMAIN snaps' : snaps'[s].of = snaps'[r].of /\ s < r}
  <2>1. SUFFICES ASSUME met = {}, NEW r \in DOMAIN snaps', New(r) # {}
                 PROVE  snaps'[Max(New(r))].print # snaps'[r].print
    <3>1. \A r \in DOMAIN snaps' : {s \in Rows(snaps[r].of)' : s < r} = New(r)
      BY DEF Rows
    <3> HIDE DEF New
    <3>2. QED
      BY <1>0, <2>1, <3>1 DEF NoneTwice
  <2>2. \A s \in DOMAIN snaps : ~(NextRow < s) /\ ~(NextRow < NextRow)
    BY <1>2, <1>8
  <2>3. CASE r = NextRow
    <3>1. New(r) = Rows(at[p].id)
      BY <1>2, <1>6, <1>9, <2>2, <2>3 DEF Rows
    <3>2. Max(New(r)) = Newest(at[p].id)
      BY <3>1 DEF Newest
    <3>3. Newest(at[p].id) \in DOMAIN snaps
      BY <2>1, <3>1, NewestIs DEF IInv, Rows
    <3>4. snaps[Newest(at[p].id)].print # at[p].print
      BY <1>0, <2>1, <3>1 DEF IInv, NewsToFile, Latest
    <3>5. QED
      BY <1>6, <1>9, <2>3, <3>2, <3>3, <3>4
  <2>4. CASE r # NextRow
    <3>1. r \in DOMAIN snaps
      BY <1>9, <2>4
    <3>2. New(r) = Before(r)
      BY <1>9, <2>2, <3>1 DEF Before, Rows
    <3>3. Max(Before(r)) \in DOMAIN snaps
      BY <2>1, <3>1, <3>2, BeforeIs DEF IInv, Before, Rows
    <3>4. snaps[Max(Before(r))].print # snaps[r].print
      BY <2>1, <3>1, <3>2 DEF IInv, NoneTwice, Before
    <3>5. QED
      BY <1>9, <3>1, <3>2, <3>3, <3>4
  <2>5. QED
    BY <2>3, <2>4
<1>17. QED
  BY <1>10, <1>11, <1>12, <1>14, <1>15, <1>16 DEF IInv

LEMMA DiskKeeps ==
  ASSUME IInv, NEW p \in Procs, Disk(p)
  PROVE  IInv'
<1>0. /\ at[p].pc = "disk" /\ UNCHANGED <<version, install, machine, met>>
      /\ at \in [Procs -> At]
  BY DEF Disk, World, IInv, Typed
<1>1. /\ at[p] \in At /\ at[p].id \in Ids /\ InHand(at[p])
      /\ version >= 3 \/ "upgrade" \in met
  BY <1>0, PastIs DEF Past
<1>2. "upgrade" \in met \/ Mounted(at[p].id)
  BY <1>0 DEF IInv, HasReading
<1>3. CASE at[p].row \notin DOMAIN snaps
  <2>1. Back(p, FALSE) /\ UNCHANGED snaps
    BY <1>3 DEF Disk
  <2>2. PICK a \in At : /\ InHand(a) /\ at' = [at EXCEPT ![p] = a]
                        /\ a.pc = "up" /\ ~a.owed
    BY <1>1, <2>1, BackIs DEF IInv
  <2>3. QED
    BY <1>0, <1>1, <2>1, <2>2, OnlyOneMoves DEF Upgrading
<1>4. CASE at[p].row \in DOMAIN snaps
  <2>1. /\ snaps' = [snaps EXCEPT ![at[p].row].disks = @ + 1]
        /\ IF at[p].left = 1 THEN Back(p, at[p].owed) ELSE at' = [at EXCEPT ![p].left = @ - 1]
    BY <1>4 DEF Disk
  <2>2. \E a \in At : /\ InHand(a) /\ at' = [at EXCEPT ![p] = a]
                      /\ a.pc \in {"up", "disk"} /\ a.id = at[p].id
    <3>1. CASE at[p].left = 1
      BY <1>1, <2>1, <3>1, BackIs DEF IInv, At
    <3>2. CASE at[p].left # 1
      <4> DEFINE a == [at[p] EXCEPT !.left = @ - 1]
      <4>1. at[p].left - 1 \in Nat /\ at[p].left - 1 > 0
        BY <1>0, <1>1, <3>2 DEF InHand, At
      <4>2. a \in At /\ a.pc = "disk" /\ a.id = at[p].id /\ a.print = at[p].print
            /\ a.left > 0
        BY <1>0, <1>1, <4>1 DEF At
      <4>3. InHand(a)
        BY <1>0, <1>1, <4>2 DEF InHand
      <4>4. at' = [at EXCEPT ![p] = a]
        BY <1>1, <2>1, <3>2 DEF At
      <4> HIDE DEF a
      <4>5. QED
        BY <4>2, <4>3, <4>4
    <3>3. QED
      BY <3>1, <3>2
  <2>3. PICK a \in At : /\ InHand(a) /\ at' = [at EXCEPT ![p] = a]
                        /\ a.pc \in {"up", "disk"} /\ a.id = at[p].id
    BY <2>2
  <2>4. at'[p] = a /\ \A q \in Procs \ {p} : at'[q] = at[q]
    BY <1>0, <2>3
  <2>5. /\ DOMAIN snaps' = DOMAIN snaps
        /\ \A r \in DOMAIN snaps : /\ snaps'[r] \in Snap
                                   /\ snaps'[r].of = snaps[r].of
                                   /\ snaps'[r].print = snaps[r].print
    <3>1. \A r \in DOMAIN snaps : snaps[r] \in Snap
      BY DEF IInv, Typed
    <3>2. QED
      BY <2>1, <3>1 DEF Snap
  <2>6. Typed'
    <3>1. snaps' \in [DOMAIN snaps' -> Snap]
      <4>1. snaps' = [r \in DOMAIN snaps' |-> snaps'[r]]
        BY <2>1
      <4>2. QED
        BY <2>5, <4>1
    <3>2. QED
      BY <1>0, <2>3, <2>5, <3>1, AtTyped DEF IInv, Typed
  <2>7. OneWriter'
    BY <1>0, <2>3, <2>4 DEF IInv, OneWriter
  <2>8. OldOrNew'
    BY <1>0, <1>1, <2>3, <2>4, <2>5 DEF IInv, OldOrNew, Upgrading
  <2>9. \A id : {r \in DOMAIN snaps' : snaps'[r].of = id} = Rows(id)
    BY <2>5, RowsStay DEF IInv
  <2>10. HasReading'
    <3>1. SUFFICES ASSUME "upgrade" \notin met, NEW q \in Procs,
                          \/ at'[q].pc \in {"sight", "disk"}
                          \/ at'[q].pc = "up" /\ at'[q].owed
                   PROVE  Rows(at'[q].id) # {}
      BY <1>0, <2>9 DEF HasReading, Mounted, Rows
    <3>2. QED
      BY <1>2, <2>3, <2>4, <3>1 DEF IInv, HasReading, Mounted
  <2>11. NewsToFile'
    <3>1. SUFFICES ASSUME met = {}, NEW q \in Procs, at'[q].pc = "insert"
                   PROVE  /\ Latest(at[q].id)' # at'[q].print
                          /\ \A u \in Procs \ {q} : at'[u].pc # "insert"
      BY <1>0 DEF NewsToFile
    <3>2. q # p /\ at'[q] = at[q]
      BY <2>3, <2>4, <3>1
    <3>3. Latest(at[q].id)' = Latest(at[q].id)
      <4>1. Rows(at[q].id)' = Rows(at[q].id)
        BY <2>9, <3>2 DEF Rows
      <4>2. Newest(at[q].id)' = Newest(at[q].id)
        BY <4>1 DEF Newest
      <4>3. Rows(at[q].id) # {} => snaps'[Newest(at[q].id)].print = snaps[Newest(at[q].id)].print
        BY <2>5, RowsStay DEF IInv
      <4>4. QED
        BY <4>1, <4>2, <4>3 DEF Latest
    <3>4. QED
      BY <2>3, <2>4, <3>1, <3>2, <3>3 DEF IInv, NewsToFile
  <2>12. NoneTwice'
    <3>1. SUFFICES ASSUME met = {}, NEW r \in DOMAIN snaps, Before(r) # {}
                   PROVE  snaps'[Max(Before(r))].print # snaps'[r].print
      <4>1. \A r \in DOMAIN snaps' : {s \in Rows(snaps[r].of)' : s < r} = Before(r)
        BY <2>5, <2>9 DEF Before, Rows
      <4>2. QED
        BY <1>0, <2>5, <3>1, <4>1 DEF NoneTwice
    <3>2. Max(Before(r)) \in DOMAIN snaps
      BY <3>1, BeforeIs DEF IInv, Before, Rows
    <3>3. snaps[Max(Before(r))].print # snaps[r].print
      BY <3>1 DEF IInv, NoneTwice, Before
    <3>4. QED
      BY <2>5, <3>2, <3>3
  <2>13. QED
    BY <2>6, <2>7, <2>8, <2>10, <2>11, <2>12 DEF IInv
<1>5. QED
  BY <1>3, <1>4

LEMMA ChangeKeeps ==
  ASSUME IInv, Change \/ UNCHANGED vars
  PROVE  IInv'
<1>0. UNCHANGED <<version, install, snaps, at, met>> /\ machine' \in Machines
  BY DEF Change, vars, IInv, Typed
<1>1. Typed' /\ OneWriter' /\ OldOrNew'
  BY <1>0 DEF IInv, Typed, OneWriter, OldOrNew
<1>2. HasReading'
  BY <1>0 DEF IInv, HasReading, Mounted, Rows
<1>3. NewsToFile'
  <2>1. \A q \in Procs : Latest(at[q].id)' = Latest(at[q].id)
    BY <1>0, Zenon DEF Latest, Newest, Rows
  <2>2. QED
    BY <1>0, <2>1 DEF IInv, NewsToFile
<1>4. NoneTwice'
  BY <1>0 DEF IInv, NoneTwice, Rows
<1>5. QED
  BY <1>1, <1>2, <1>3, <1>4 DEF IInv

LEMMA InvariantKept ==
  ASSUME IInv, [Next]_vars
  PROVE  IInv'
<1>1. CASE Change \/ UNCHANGED vars
  BY <1>1, ChangeKeeps
<1>2. CASE \E p \in Procs : Opens(p)
  BY <1>2, OpenKeeps, StampKeeps, ClearKeeps, FindKeeps, CreateKeeps DEF Opens
<1>3. CASE \E p \in Procs : Records(p)
  BY <1>3, GateKeeps, PressKeeps, CompareKeeps, SightKeeps, InsertKeeps, DiskKeeps DEF Records
<1>4. CASE \E p \in Procs : Ends(p)
  BY <1>4, EndsKeep
<1>5. QED
  BY <1>1, <1>2, <1>3, <1>4 DEF Next

LEMMA Invariant == Spec => []IInv
<1>1. IInv /\ [Next]_vars => IInv'
  BY InvariantKept
<1>2. QED
  BY InitHolds, <1>1, PTL DEF Spec

-----------------------------------------------------------------------------
(* Disks that are missing, counted. *)

LEMMA AbandonedIsFinite ==
  ASSUME Typed
  PROVE  /\ IsFiniteSet(Short) /\ IsFiniteSet(Abandoned)
         /\ Cardinality(Abandoned) \in Nat
<1>1. Short \in SUBSET (DOMAIN snaps) /\ Abandoned \in SUBSET (DOMAIN snaps)
  BY DEF Abandoned, Short
<1>2. IsFiniteSet(Short) /\ IsFiniteSet(Abandoned)
  BY <1>1, FS_Subset DEF Typed
<1>3. QED
  BY <1>2, FS_CardinalityType

\* The snapshots that are short are the abandoned ones and, one to one with
\* their processes, those being written.
LEMMA ShortIsCounted ==
  ASSUME Typed, \A p, q \in Writers : at[q].row = at[p].row => q = p
  PROVE  LET W == {p \in Procs : at[p].pc = "disk" /\ at[p].row \in Short} IN
         /\ IsFiniteSet(W)
         /\ Cardinality(Short) = Cardinality(Abandoned) + Cardinality(W)
<1> DEFINE W == {p \in Procs : at[p].pc = "disk" /\ at[p].row \in Short}
           T == Short \cap Written
           f == [p \in W |-> at[p].row]
<1>1. W \subseteq Writers /\ \A p \in W : at[p].row \in T
  BY DEF Writers, Written
<1>2. \A r \in T : \E p \in W : at[p].row = r
  BY DEF Writers, Written
<1>3. f \in Injection(W, T)
  BY <1>1 DEF Injection, IsInjective
<1>4. f \in Surjection(W, T)
  BY <1>1, <1>2 DEF Surjection
<1>5. IsFiniteSet(Short) /\ IsFiniteSet(T)
  BY AbandonedIsFinite, FS_Subset
<1>6. IsFiniteSet(W) /\ Cardinality(W) = Cardinality(T)
  <2> HIDE DEF W, T, f
  <2>1. QED
    BY <1>3, <1>4, <1>5, FS_Injection
<1>7. Cardinality(Abandoned) = Cardinality(Short) - Cardinality(T)
  BY <1>5, FS_Difference DEF Abandoned
<1>8. Cardinality(Short) \in Nat /\ Cardinality(T) \in Nat
  BY <1>5, FS_CardinalityType
<1> HIDE DEF W, T
<1>9. Cardinality(Short) = Cardinality(Abandoned) + Cardinality(W)
  BY <1>6, <1>7, <1>8
<1>10. QED
  BY <1>6, <1>9 DEF W

\* No more are abandoned than before, or one and it took a mishap.
LEMMA FewLeft ==
  ASSUME Typed, DisksInv, "upgrade" \notin met, version >= 3, mishaps' \in Nat,
         \/ Abandoned' \subseteq Abandoned /\ mishaps <= mishaps'
         \/ mishaps' = mishaps + 1 /\ \E r : Abandoned' \subseteq Abandoned \cup {r}
  PROVE  Cardinality(Abandoned') <= mishaps'
<1>1. /\ IsFiniteSet(Abandoned) /\ Cardinality(Abandoned) \in Nat
      /\ Cardinality(Abandoned) <= mishaps /\ mishaps \in Nat
  BY AbandonedIsFinite DEF DisksInv, EachByMishap
<1>2. CASE Abandoned' \subseteq Abandoned /\ mishaps <= mishaps'
  <2>1. IsFiniteSet(Abandoned') /\ Cardinality(Abandoned') <= Cardinality(Abandoned)
    BY <1>1, <1>2, FS_Subset
  <2>2. Cardinality(Abandoned') \in Nat
    BY <2>1, FS_CardinalityType
  <2>3. QED
    BY <1>1, <1>2, <2>1, <2>2
<1>3. CASE mishaps' = mishaps + 1 /\ \E r : Abandoned' \subseteq Abandoned \cup {r}
  <2>1. PICK r : Abandoned' \subseteq Abandoned \cup {r}
    BY <1>3
  <2>2. /\ IsFiniteSet(Abandoned \cup {r})
        /\ Cardinality(Abandoned \cup {r}) \in {Cardinality(Abandoned), Cardinality(Abandoned) + 1}
    BY <1>1, FS_AddElement
  <2>3. /\ IsFiniteSet(Abandoned')
        /\ Cardinality(Abandoned') <= Cardinality(Abandoned \cup {r})
    BY <2>1, <2>2, FS_Subset
  <2>4. Cardinality(Abandoned') \in Nat
    BY <2>3, FS_CardinalityType
  <2>5. QED
    BY <1>1, <1>3, <2>2, <2>3, <2>4
<1>4. QED
  BY <1>2, <1>3

\* A process that is not writing one goes on, or one that is comes to grief.
LEMMA OthersWrite ==
  ASSUME Typed, DisksInv, NEW p \in Procs, snaps' = snaps, version' = version,
         met \subseteq met', \A q \in Procs \ {p} : at'[q] = at[q],
         at'[p].pc \notin {"disk", "to3"},
         mishaps' \in Nat, mishaps <= mishaps',
         at[p].pc = "disk" => mishaps' = mishaps + 1
  PROVE  DisksInv'
<1>1. Writers' = Writers \ {p} /\ \A q \in Writers' : at'[q] = at[q]
  BY DEF Writers
<1>2. InWriting'
  BY <1>1 DEF DisksInv, InWriting
<1>3. OldIsBare'
  BY DEF DisksInv, OldIsBare
<1>4. Short' = Short
  BY DEF Short
<1>5. CASE at[p].pc # "disk"
  <2>1. Writers' = Writers
    BY <1>1, <1>5 DEF Writers
  <2>2. Written' = Written
    BY <1>1, <2>1 DEF Written
  <2>3. Abandoned' = Abandoned
    BY <1>4, <2>2 DEF Abandoned
  <2>4. QED
    BY <1>2, <1>3, <2>3, FewLeft DEF DisksInv, EachByMishap
<1>6. CASE at[p].pc = "disk"
  <2>1. Written \subseteq Written' \cup {at[p].row}
    BY <1>1 DEF Written
  <2>2. Abandoned' \subseteq Abandoned \cup {at[p].row}
    BY <1>4, <2>1 DEF Abandoned
  <2>3. QED
    BY <1>2, <1>3, <1>6, <2>2, FewLeft DEF DisksInv, EachByMishap
<1>7. QED
  BY <1>5, <1>6

LEMMA DisksInit == Init => DisksInv
<1> SUFFICES ASSUME Init PROVE DisksInv
  OBVIOUS
<1>1. at = [p \in Procs |-> Closed] /\ mishaps = 0
  BY DEF Init
<1>2. Writers = {} /\ \A p \in Procs : at[p].pc # "to3"
  BY <1>1, ClosedIs DEF Writers
<1>3. InWriting
  BY <1>2 DEF InWriting
<1>4. version < 3 => \A r \in DOMAIN snaps : snaps[r].disks = 0
  <2>1. CASE snaps = << >>
    BY <2>1
  <2>2. CASE version \in {1, 2} /\ \E i \in Ids, m \in Machines :
               snaps = [r \in {1} |-> [of |-> i, print |-> m, disks |-> 0]]
    BY <2>2
  <2>3. CASE version \in {3, 4}
    BY <2>3
  <2>4. QED
    BY <2>1, <2>2, <2>3 DEF Init
<1>5. version >= 3 => Short = {}
  <2>1. CASE snaps = << >>
    BY <2>1 DEF Short
  <2>2. CASE \E i \in Ids, m \in Machines :
               snaps = [r \in {1} |-> [of |-> i, print |-> m, disks |-> Disks[m]]]
    <3>1. PICK i \in Ids, m \in Machines :
            snaps = [r \in {1} |-> [of |-> i, print |-> m, disks |-> Disks[m]]]
      BY <2>2
    <3>2. Disks[m] \in Nat
      BY RecordAssumption
    <3>3. QED
      BY <3>1, <3>2 DEF Short
  <2>3. CASE version \in {0, 1, 2}
    BY <2>3
  <2>4. QED
    BY <2>1, <2>2, <2>3 DEF Init
<1>6. EachByMishap
  <2>1. version >= 3 => Abandoned = {}
    BY <1>5 DEF Abandoned
  <2>2. QED
    BY <1>1, <2>1, FS_EmptySet DEF EachByMishap
<1>7. QED
  BY <1>1, <1>2, <1>3, <1>4, <1>6 DEF DisksInv, OldIsBare

LEMMA StampCounts ==
  ASSUME IInv, DisksInv, NEW p \in Procs, Stamp(p)
  PROVE  DisksInv'
<1>0. /\ at \in [Procs -> At] /\ at[p].pc \in {"to2", "to3", "to4"}
      /\ snaps' = snaps /\ mishaps' = mishaps /\ met \subseteq met'
  BY DEF Stamp, World, IInv, Typed
<1>1. /\ at[p].pc = "to2" => version' = 2 /\ at'[p].pc = "clear"
      /\ at[p].pc = "to3" => version' = 3 /\ at'[p].pc = "to4"
      /\ at[p].pc = "to4" => version' = 4 /\ at'[p].pc = "find"
  BY <1>0 DEF Stamp, Goes
<1>2. \A q \in Procs \ {p} : at'[q] = at[q]
  BY <1>0 DEF Stamp, Goes
<1>3. Writers' = Writers /\ \A q \in Writers : at'[q] = at[q]
  BY <1>0, <1>1, <1>2 DEF Writers
<1>4. Short' = Short /\ Abandoned' = Abandoned
  <2>1. Short' = Short
    BY <1>0 DEF Short
  <2>2. Written' = Written
    BY <1>3 DEF Written
  <2>3. QED
    BY <2>1, <2>2 DEF Abandoned
<1>5. InWriting'
  BY <1>0, <1>3 DEF DisksInv, InWriting
<1>6. "upgrade" \notin met => (version < 3 <=> at[p].pc \in {"to2", "to3"})
  BY <1>0 DEF IInv, OldOrNew, Upgrading, Typed
<1>7. OldIsBare'
  <2>1. SUFFICES ASSUME "upgrade" \notin met', version' < 3
                 PROVE  /\ \A r \in DOMAIN snaps : snaps[r].disks = 0
                        /\ \A q \in Procs : at'[q].pc = "to3" => DOMAIN snaps = {}
    BY <1>0 DEF OldIsBare
  <2>2. at[p].pc = "to2" /\ version < 3
    BY <1>0, <1>1, <1>6, <2>1
  <2>3. QED
    BY <1>0, <1>1, <1>2, <2>1, <2>2 DEF DisksInv, OldIsBare
<1>8. EachByMishap'
  <2>1. SUFFICES ASSUME "upgrade" \notin met', version' >= 3
                 PROVE  Cardinality(Abandoned') <= mishaps'
    BY DEF EachByMishap
  <2>2. CASE at[p].pc = "to3"
    <3>1. DOMAIN snaps = {}
      BY <1>0, <1>6, <2>1, <2>2 DEF DisksInv, OldIsBare
    <3>2. Abandoned' = {}
      BY <1>4, <3>1 DEF Abandoned, Short
    <3>3. QED
      BY <1>0, <3>2, FS_EmptySet DEF DisksInv
  <2>3. CASE at[p].pc = "to4"
    <3>1. version >= 3
      BY <1>0, <1>6, <2>1, <2>3 DEF IInv, Typed
    <3>2. QED
      BY <1>0, <1>4, <2>1, <3>1 DEF DisksInv, EachByMishap
  <2>4. QED
    BY <1>0, <1>1, <2>1, <2>2, <2>3
<1>9. QED
  BY <1>0, <1>5, <1>7, <1>8 DEF DisksInv

LEMMA ClearCounts ==
  ASSUME IInv, DisksInv, NEW p \in Procs, Clear(p)
  PROVE  DisksInv'
<1>0. /\ at \in [Procs -> At] /\ at[p].pc = "clear" /\ version' = version
      /\ mishaps' = mishaps /\ met \subseteq met'
  BY DEF Clear, World, IInv, Typed
<1>1. "upgrade" \notin met => version < 3 /\ ~(version >= 3)
  BY <1>0 DEF IInv, OldOrNew, Upgrading, Typed
<1>2. "upgrade" \notin met => DOMAIN snaps' = {}
  BY <1>1 DEF Clear, DisksInv, OldIsBare
<1>3. "upgrade" \notin met' => Writers' = {}
  <2>1. SUFFICES ASSUME "upgrade" \notin met', NEW q \in Procs
                 PROVE  at'[q].pc # "disk"
    BY DEF Writers
  <2>2. at[q].pc # "disk"
    BY <1>0, <1>1, <2>1 DEF IInv, OldOrNew, Upgrading
  <2>3. at'[q].pc = at[q].pc \/ at'[q].pc = "to3"
    BY <1>0 DEF Clear, Goes
  <2>4. QED
    BY <2>2, <2>3
<1>4. QED
  BY <1>0, <1>1, <1>2, <1>3 DEF DisksInv, InWriting, OldIsBare, EachByMishap

LEMMA InsertCounts ==
  ASSUME IInv, DisksInv, NEW p \in Procs, Insert(p)
  PROVE  DisksInv'
<1>0. /\ at \in [Procs -> At] /\ at[p].pc = "insert" /\ version' = version
      /\ mishaps' = mishaps /\ met' = met
  BY DEF Insert, World, IInv, Typed
<1>1. /\ NextRow \in Nat /\ NextRow \notin DOMAIN snaps
      /\ at[p].print \in Machines /\ Disks[at[p].print] \in Nat
  <2>1. NextRow \in Nat /\ \A r \in DOMAIN snaps : r < NextRow
    BY NextIsNew DEF IInv
  <2>2. ~(NextRow < NextRow)
    BY <2>1
  <2>3. at[p].print \in Machines
    BY <1>0 DEF IInv, Typed, InHand
  <2>4. QED
    BY <2>1, <2>2, <2>3, RecordAssumption
<1>2. /\ DOMAIN snaps' = DOMAIN snaps \cup {NextRow}
      /\ snaps'[NextRow].print = at[p].print /\ snaps'[NextRow].disks = 0
      /\ \A r \in DOMAIN snaps : snaps'[r] = snaps[r]
  BY <1>1 DEF Insert
<1>3. at[p] \in At
  BY <1>0
<1>4. /\ at'[p].pc = "disk" /\ at'[p].row = NextRow /\ at'[p].print = at[p].print
      /\ at'[p].left = Disks[at[p].print]
  BY <1>0, <1>3 DEF Insert, At
<1>5. \A q \in Procs \ {p} : at'[q] = at[q]
  BY <1>0 DEF Insert
<1>6. Writers' = Writers \cup {p} /\ p \notin Writers /\ \A q \in Writers : at'[q] = at[q]
  BY <1>0, <1>4, <1>5 DEF Writers
<1>7. InWriting'
  <2>1. SUFFICES ASSUME "upgrade" \notin met, NEW q \in Writers'
                 PROVE  /\ at'[q].row \in DOMAIN snaps'
                        /\ snaps'[at'[q].row].print = at'[q].print
                        /\ snaps'[at'[q].row].disks + at'[q].left = Disks[at'[q].print]
                        /\ \A u \in Writers' : at'[u].row = at'[q].row => u = q
    BY <1>0 DEF InWriting
  <2>2. \A u \in Writers : at'[u].row \in DOMAIN snaps /\ at'[u] = at[u]
    BY <1>6, <2>1 DEF DisksInv, InWriting
  <2>3. CASE q = p
    <3>1. snaps'[at'[q].row].disks + at'[q].left = Disks[at'[q].print]
      BY <1>1, <1>2, <1>4, <2>3
    <3>2. \A u \in Writers' : at'[u].row = at'[q].row => u = q
      BY <1>1, <1>4, <1>6, <2>2, <2>3
    <3>3. QED
      BY <1>2, <1>4, <2>3, <3>1, <3>2
  <2>4. CASE q # p
    <3>1. q \in Writers /\ at'[q] = at[q] /\ at[q].row \in DOMAIN snaps
      BY <1>6, <2>1, <2>2, <2>4
    <3>2. /\ snaps[at[q].row].print = at[q].print
          /\ snaps[at[q].row].disks + at[q].left = Disks[at[q].print]
          /\ \A u \in Writers : at[u].row = at[q].row => u = q
      BY <2>1, <3>1 DEF DisksInv, InWriting
    <3>3. \A u \in Writers' : at'[u].row = at'[q].row => u = q
      BY <1>1, <1>4, <1>6, <2>2, <3>1, <3>2
    <3>4. QED
      BY <1>2, <3>1, <3>2, <3>3
  <2>5. QED
    BY <2>3, <2>4
<1>8. "upgrade" \notin met => ~(version < 3)
  BY <1>0 DEF IInv, OldOrNew, Upgrading
<1>9. Abandoned' \subseteq Abandoned
  <2>1. Written \subseteq Written' /\ NextRow \in Written'
    BY <1>4, <1>6 DEF Written
  <2>2. \A r \in Short' : r = NextRow \/ r \in Short
    BY <1>2 DEF Short
  <2>3. QED
    BY <2>1, <2>2 DEF Abandoned
<1>10. EachByMishap'
  BY <1>0, <1>9, FewLeft DEF IInv, DisksInv, EachByMishap
<1>11. QED
  BY <1>0, <1>7, <1>8, <1>10 DEF DisksInv, OldIsBare

LEMMA DiskCounts ==
  ASSUME IInv, DisksInv, NEW p \in Procs, Disk(p)
  PROVE  DisksInv'
<1> DEFINE row == at[p].row
<1>0. /\ at \in [Procs -> At] /\ at[p].pc = "disk" /\ version' = version
      /\ mishaps' = mishaps /\ mishaps \in Nat /\ met' = met
  BY DEF Disk, World, IInv, Typed, DisksInv
<1>1. SUFFICES ASSUME "upgrade" \notin met
               PROVE  InWriting' /\ ~(version < 3) /\ Abandoned' \subseteq Abandoned
  <2>1. "upgrade" \notin met => EachByMishap'
    BY <1>0, <1>1, FewLeft DEF IInv, DisksInv, EachByMishap
  <2>2. QED
    BY <1>0, <1>1, <2>1 DEF DisksInv, InWriting, OldIsBare, EachByMishap
<1>2. ~(version < 3)
  BY <1>0, <1>1 DEF IInv, OldOrNew, Upgrading
<1>3. p \in Writers /\ row \in DOMAIN snaps /\ snaps[row].print = at[p].print
      /\ snaps[row].disks + at[p].left = Disks[at[p].print]
      /\ \A q \in Writers : at[q].row = row => q = p
  BY <1>0, <1>1 DEF DisksInv, InWriting, Writers
<1>4. /\ at[p] \in At /\ at[p].left \in Nat /\ at[p].left > 0
      /\ snaps[row] \in Snap /\ snaps[row].disks \in Nat
  <2>1. at[p] \in At /\ InHand(at[p]) /\ snaps[row] \in Snap
    BY <1>3 DEF IInv, Typed
  <2>2. QED
    BY <1>0, <2>1 DEF InHand, At, Snap
<1>5. /\ DOMAIN snaps' = DOMAIN snaps
      /\ snaps'[row].print = snaps[row].print /\ snaps'[row].disks = snaps[row].disks + 1
      /\ \A r \in DOMAIN snaps : r # row => snaps'[r] = snaps[r]
  <2>1. snaps' = [snaps EXCEPT ![row].disks = @ + 1]
    BY <1>3 DEF Disk
  <2>2. QED
    BY <1>3, <1>4, <2>1 DEF Snap
<1>6. \A q \in Procs \ {p} : at'[q] = at[q]
  BY <1>0 DEF Disk, Back
<1>7. ASSUME NEW q \in Writers, q # p
      PROVE  /\ at'[q] = at[q] /\ at[q].row \in DOMAIN snaps /\ at[q].row # row
             /\ snaps'[at[q].row] = snaps[at[q].row]
             /\ snaps[at[q].row].print = at[q].print
             /\ snaps[at[q].row].disks + at[q].left = Disks[at[q].print]
             /\ \A u \in Writers : at[u].row = at[q].row => u = q
  <2>1. at'[q] = at[q]
    BY <1>6, <1>7 DEF Writers
  <2>2. /\ at[q].row \in DOMAIN snaps /\ snaps[at[q].row].print = at[q].print
        /\ snaps[at[q].row].disks + at[q].left = Disks[at[q].print]
        /\ \A u \in Writers : at[u].row = at[q].row => u = q
    BY <1>1 DEF DisksInv, InWriting
  <2>3. at[q].row # row
    BY <1>3, <1>7
  <2>4. QED
    BY <1>5, <2>1, <2>2, <2>3
<1> HIDE DEF row
<1>8. CASE at[p].left = 1
  <2>1. at'[p].pc = "up"
    BY <1>0, <1>3, <1>4, <1>8 DEF Disk, Back, At, row
  <2>2. Writers' = Writers \ {p}
    BY <1>6, <2>1 DEF Writers
  <2>3. InWriting'
    <3>1. SUFFICES ASSUME NEW q \in Writers'
                   PROVE  /\ at'[q].row \in DOMAIN snaps'
                          /\ snaps'[at'[q].row].print = at'[q].print
                          /\ snaps'[at'[q].row].disks + at'[q].left = Disks[at'[q].print]
                          /\ \A u \in Writers' : at'[u].row = at'[q].row => u = q
      BY DEF InWriting
    <3>2. q \in Writers /\ q # p /\ \A u \in Writers' : u \in Writers /\ at'[u] = at[u]
      BY <1>7, <2>2, <3>1
    <3>3. QED
      BY <1>5, <1>7, <3>2
  <2>4. row \notin Short'
    <3>1. snaps'[row].disks = Disks[snaps'[row].print]
      BY <1>3, <1>5, <1>8
    <3>2. Disks[snaps'[row].print] \in Nat
      BY <1>4, <1>5, <3>1
    <3>3. QED
      BY <3>1, <3>2 DEF Short
  <2>5. Written \subseteq Written' \cup {row}
    <3>1. SUFFICES ASSUME NEW q \in Writers, q # p
                   PROVE  at[q].row \in Written'
      BY DEF Written, row
    <3>2. q \in Writers' /\ at'[q] = at[q]
      BY <1>7, <2>2, <3>1
    <3>3. QED
      BY <3>2 DEF Written
  <2>6. \A r \in Short' : r \in Short
    BY <1>5, <2>4 DEF Short
  <2>7. Abandoned' \subseteq Abandoned
    BY <2>4, <2>5, <2>6 DEF Abandoned
  <2>8. QED
    BY <1>2, <2>3, <2>7
<1>9. CASE at[p].left # 1
  <2>1. /\ at'[p].pc = "disk" /\ at'[p].row = row /\ at'[p].print = at[p].print
        /\ at'[p].left = at[p].left - 1
    <3>1. at' = [at EXCEPT ![p].left = @ - 1]
      BY <1>3, <1>9 DEF Disk, row
    <3>2. QED
      BY <1>0, <1>4, <3>1 DEF At, row
  <2>2. Writers' = Writers /\ \A q \in Writers : at'[q].row = at[q].row
    <3>1. Writers' = Writers
      BY <1>0, <1>6, <2>1 DEF Writers
    <3>2. QED
      BY <1>7, <2>1, <3>1 DEF row
  <2>3. InWriting'
    <3>1. SUFFICES ASSUME NEW q \in Writers
                   PROVE  /\ at'[q].row \in DOMAIN snaps'
                          /\ snaps'[at'[q].row].print = at'[q].print
                          /\ snaps'[at'[q].row].disks + at'[q].left = Disks[at'[q].print]
                          /\ \A u \in Writers : at'[u].row = at'[q].row => u = q
      BY <2>2 DEF InWriting
    <3>2. CASE q = p
      <4>1. snaps'[at'[q].row].disks + at'[q].left = Disks[at'[q].print]
        BY <1>3, <1>4, <1>5, <2>1, <3>2
      <4>2. \A u \in Writers : at'[u].row = at'[q].row => u = q
        BY <1>3, <2>1, <2>2, <3>2
      <4>3. QED
        BY <1>3, <1>5, <2>1, <3>2, <4>1, <4>2
    <3>3. CASE q # p
      <4>1. \A u \in Writers : at'[u].row = at'[q].row => u = q
        BY <1>7, <2>2, <3>1, <3>3
      <4>2. QED
        BY <1>5, <1>7, <3>1, <3>3, <4>1
    <3>4. QED
      BY <3>2, <3>3
  <2>4. Written' = Written
    BY <2>2 DEF Written
  <2>5. \A r \in Short' : r \in Short \/ r = row
    BY <1>5 DEF Short
  <2>6. row \in Written
    BY <1>3 DEF Written, row
  <2>7. QED
    BY <1>2, <2>3, <2>4, <2>5, <2>6 DEF Abandoned
<1>10. QED
  BY <1>8, <1>9

\* The steps that touch neither the snapshots nor the version.
LEMMA RestCount ==
  ASSUME IInv, DisksInv, NEW p \in Procs,
         Open(p) \/ Find(p) \/ Create(p) \/ Gate(p) \/ Press(p) \/ Compare(p)
           \/ Sight(p) \/ Ends(p)
  PROVE  DisksInv'
<1>0. at \in [Procs -> At] /\ mishaps \in Nat
  BY DEF IInv, Typed, DisksInv
<1>1. CASE Open(p)
  <2>1. at'[p].pc \in {"to2", "clear", "to4", "find"}
    BY <1>0, <1>1 DEF Open, After, Closed
  <2>2. at[p].pc # "disk" /\ \A q \in Procs \ {p} : at'[q] = at[q]
    BY <1>0, <1>1 DEF Open
  <2>3. QED
    BY <1>0, <1>1, <2>1, <2>2, OthersWrite DEF Open, World, IInv
<1>2. CASE Find(p) \/ Create(p) \/ Gate(p) \/ Press(p)
  <2>1. at'[p].pc \in {"create", "gate", "latest", "up"} /\ at[p].pc # "disk"
    <3>1. at[p] \in At
      BY <1>0
    <3>2. QED
      BY <1>0, <1>2, <3>1 DEF Find, Create, Gate, Press, At
  <2>2. \A q \in Procs \ {p} : at'[q] = at[q]
    BY <1>0, <1>2 DEF Find, Create, Gate, Press
  <2>3. /\ UNCHANGED <<snaps, version, mishaps>> /\ met \subseteq met'
    BY <1>2 DEF Find, Create, Gate, Press, World
  <2>4. QED
    BY <1>0, <2>1, <2>2, <2>3, OthersWrite DEF IInv
<1>3. CASE Compare(p) \/ Sight(p)
  <2>1. at'[p].pc \in {"sight", "insert", "up"} /\ at[p].pc # "disk"
    <3>1. at[p] \in At
      BY <1>0
    <3>2. QED
      BY <1>0, <1>3, <3>1 DEF Compare, Sight, Goes, Back, At
  <2>2. \A q \in Procs \ {p} : at'[q] = at[q]
    BY <1>0, <1>3 DEF Compare, Sight, Goes, Back
  <2>3. /\ UNCHANGED <<snaps, version, mishaps>> /\ met \subseteq met'
    BY <1>3 DEF Compare, Sight, World
  <2>4. QED
    BY <1>0, <2>1, <2>2, <2>3, OthersWrite DEF IInv
<1>4. CASE Ends(p)
  <2>1. at'[p].pc \in {"closed", "up"}
    <3>1. at[p] \in At
      BY <1>0
    <3>2. QED
      BY <1>0, <1>4, <3>1 DEF Ends, Refused, Crash, Close, Back, Closed, At
  <2>2. \A q \in Procs \ {p} : at'[q] = at[q]
    BY <1>0, <1>4 DEF Ends, Refused, Crash, Close, Back
  <2>3. UNCHANGED <<snaps, version, met>>
    BY <1>4 DEF Ends, Refused, Crash, Close
  <2>4. mishaps' = mishaps + 1 \/ (mishaps' = mishaps /\ at[p].pc = "up")
    BY <1>4 DEF Ends, Refused, Crash, Close, World
  <2>5. QED
    BY <1>0, <2>1, <2>2, <2>3, <2>4, OthersWrite DEF IInv
<1>5. QED
  BY <1>1, <1>2, <1>3, <1>4

LEMMA DisksKept ==
  ASSUME IInv, DisksInv, [Next]_vars
  PROVE  DisksInv'
<1>1. CASE Change \/ UNCHANGED vars
  <2>1. UNCHANGED <<version, snaps, at, met, mishaps>>
    BY <1>1 DEF Change, vars
  <2>2. Writers' = Writers /\ Written' = Written
    BY <2>1 DEF Writers, Written
  <2>3. Abandoned' = Abandoned
    BY <2>1, <2>2 DEF Abandoned, Short
  <2>4. QED
    BY <2>1, <2>2, <2>3 DEF DisksInv, InWriting, OldIsBare, EachByMishap
<1>2. CASE \E p \in Procs : Opens(p)
  BY <1>2, StampCounts, ClearCounts, RestCount DEF Opens
<1>3. CASE \E p \in Procs : Records(p)
  BY <1>3, InsertCounts, DiskCounts, RestCount DEF Records
<1>4. CASE \E p \in Procs : Ends(p)
  BY <1>4, RestCount
<1>5. QED
  BY <1>1, <1>2, <1>3, <1>4 DEF Next

-----------------------------------------------------------------------------
\* There is one identity, unless two first starts overtook each other
\* (store.c:55-88): whoever is about to write one is alone, and found none.
THEOREM IdentityIsOne == Spec => []OneIdentity
<1>1. IInv => OneIdentity
  BY DEF IInv, OneWriter, OneIdentity
<1>2. QED
  BY Invariant, <1>1, PTL

\* No configuration is written down twice in a row, by any number of windows
\* with any number of kills between their statements (store.c:166-248).
THEOREM NoRowTwice == Spec => []NoneTwice
<1>1. IInv => NoneTwice
  BY DEF IInv
<1>2. QED
  BY Invariant, <1>1, PTL

\* A window on an install that was there before, on a machine that answered,
\* has a reading to show (ui.c:184-196, schema.c:85-108).
THEOREM ReadingIsThere == Spec => []ShowsReading
<1>1. IInv => ShowsReading
  BY DEF IInv, HasReading, ShowsReading
<1>2. QED
  BY Invariant, <1>1, PTL

\* A snapshot lacks a disk only while its process writes it, or a kill or a
\* refused statement of its own cost it the rest (store.c:249-275).
THEOREM ShortOnlyByMishap == Spec => []ShortByMishap
<1>1. IInv /\ DisksInv /\ [Next]_vars => IInv' /\ DisksInv'
  BY InvariantKept, DisksKept
<1>2. ASSUME IInv, DisksInv, "upgrade" \notin met, version = 4
      PROVE  Cardinality(Short) <= mishaps
               + Cardinality({p \in Procs : at[p].pc = "disk" /\ at[p].row \in Short})
  <2> DEFINE W == {p \in Procs : at[p].pc = "disk" /\ at[p].row \in Short}
  <2>1. Cardinality(Abandoned) <= mishaps /\ mishaps \in Nat
    BY <1>2 DEF DisksInv, EachByMishap
  <2>2. \A p, q \in Writers : at[q].row = at[p].row => q = p
    BY <1>2 DEF DisksInv, InWriting
  <2>3. Cardinality(Short) = Cardinality(Abandoned) + Cardinality(W)
    BY <1>2, <2>2, ShortIsCounted DEF IInv
  <2>4. Cardinality(Abandoned) \in Nat /\ Cardinality(W) \in Nat
    <3>1. IsFiniteSet(W)
      BY <1>2, <2>2, ShortIsCounted DEF IInv
    <3>2. QED
      BY <1>2, <3>1, AbandonedIsFinite, FS_CardinalityType DEF IInv
  <2> HIDE DEF W
  <2>5. Cardinality(Short) <= mishaps + Cardinality(W)
    BY <2>1, <2>3, <2>4
  <2>6. QED
    BY <2>5 DEF W
<1>3. IInv /\ DisksInv => ShortByMishap
  BY <1>2 DEF ShortByMishap
<1>4. QED
  BY InitHolds, DisksInit, <1>1, <1>3, PTL DEF Spec

\* All of what is said above of copies that do not overtake each other is so
\* of one copy at a time, whatever is killed, refused or changed: it takes a
\* second to lose an identity, a configuration or a reading.
THEOREM AloneMeetsNobody ==
  ASSUME \A p, q \in Procs : p = q
  PROVE  Spec => [](met = {})
<1>1. \A p \in Procs : \A pcs : ~Elsewhere(p, pcs)
  BY DEF Elsewhere
<1>2. ASSUME met = {}, NEW p \in Procs, Opens(p) \/ Records(p) \/ Ends(p)
      PROVE  met' = {}
  BY <1>1, <1>2 DEF Opens, Records, Ends, Open, Stamp, Clear, Find, Create, Gate, Press,
     Compare, Sight, Insert, Disk, Refused, Crash, Close
<1>3. met = {} /\ [Next]_vars => (met = {})'
  BY <1>2 DEF Next, Change, vars
<1>4. Init => met = {}
  BY Zenon DEF Init
<1>5. QED
  BY <1>3, <1>4, PTL DEF Spec
=============================================================================
