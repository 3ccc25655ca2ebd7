---------------------------- MODULE ListingProofs ----------------------------
(***************************************************************************)
(* Theorems about the caches of a directory, for any number of names,      *)
(* fillers and droppers, any lifetimes and any number of changes.          *)
(***************************************************************************)
EXTENDS ListingCache, SequenceTheorems, TLAPS

-----------------------------------------------------------------------------
(* Types and ages.                                                         *)
(*                                                                         *)
(* A listing on disk is no older than it was held there; one in memory may *)
(* have spent DiskTTL on disk before, and one in meta_cache MemTTL in      *)
(* memory on top.  What a filler holds has the sum of the stores it may    *)
(* have come through, and what it is about to save is new.                 *)

\* The listing or the lookup a filler holds fits the step it is at.
Holds(r) ==
    /\ pc[r] = "meta" => want[r] \in Names
    /\ pc[r] \in {"compare", "fill"} =>
          /\ got[r] \in Listing
          /\ got[r].age <= DiskTTL
          /\ \A i \in 1..Len(todo[r]) : todo[r][i] = "disk" => got[r].age = 0
    /\ pc[r] = "conclude" =>
          /\ want[r] \in Names /\ got[r] \in Listing
          /\ got[r].age <= DiskTTL + MemTTL
    /\ pc[r] = "answer" =>
          /\ got[r] \in Listing \cup Found
          /\ want[r] = Whole => got[r].age <= DiskTTL + MemTTL
          /\ got[r].age <= DiskTTL + 2 * MemTTL

\* No entry that may be used is older than limit and the time it was held.
NoOlder(entry, limit, ttl) ==
    entry # None /\ entry.held <= ttl => entry.list.age <= limit + entry.held

StoreAges ==
    /\ NoOlder(disk, 0, DiskTTL)
    /\ NoOlder(mem, DiskTTL, MemTTL)
    /\ \A n \in Names : NoOlder(meta[n], DiskTTL + MemTTL, MemTTL)

IInv == TypeOK /\ StoreAges /\ \A r \in Fillers : Holds(r)

-----------------------------------------------------------------------------
LEMMA ConstantTypes ==
    /\ MemTTL \in Nat /\ EmptyTTL \in Nat /\ DiskTTL \in Nat /\ MaxChanges \in Nat /\ AgeCap \in Nat
    /\ EmptyTTL <= MemTTL /\ Whole \notin Names
    /\ 0 \in Epochs /\ Epochs \subseteq Nat /\ Unsettled \in Contents
BY ListingAssumption DEF Epochs, Unsettled, Contents

\* What a listing or a lookup is made of.
LEMMA ListingTypes ==
    /\ \A l \in Listing : /\ l.contents \in Contents /\ l.epoch \in Epochs
                          /\ l.age \in 0..AgeCap /\ l.tainted \in BOOLEAN
    /\ \A l \in Found : l.epoch \in Epochs /\ l.age \in 0..AgeCap /\ l.tainted \in BOOLEAN
BY DEF Listing, Found

LEMMA Lookups ==
    ASSUME NEW l \in Listing, NEW n \in Names
    PROVE  /\ Lookup(l, n) \in Found
           /\ Lookup(l, n).epoch = l.epoch /\ Lookup(l, n).age = l.age
           /\ Lookup(l, n).tainted = l.tainted
BY DEF Lookup, Found, Listing, Contents

\* The taint a filler knows of by now goes with the listing.
LEMMA Marked ==
    ASSUME NEW l \in Listing, NEW t \in BOOLEAN
    PROVE  LET m == [l EXCEPT !.tainted = t]
           IN  /\ m \in Listing /\ m.epoch = l.epoch /\ m.age = l.age /\ m.tainted = t
               /\ m.contents = l.contents
BY DEF Listing

LEMMA Entries ==
    ASSUME NEW S, NEW ttl \in Nat
    PROVE  /\ \A e \in Held(S, ttl) : e # None => /\ e.list \in S /\ e.held \in 0..(ttl + 1)
                                                 /\ e = [list |-> e.list, held |-> e.held]
           /\ \A l \in S, h \in 0..(ttl + 1) : [list |-> l, held |-> h] \in Held(S, ttl)
           /\ None \in Held(S, ttl)
BY DEF Held

\* The first element of a sequence, and the others.
LEMMA HeadAndTail ==
    ASSUME NEW S, NEW q \in Seq(S), q # <<>>
    PROVE  /\ Head(q) \in S /\ Tail(q) \in Seq(S)
           /\ Head(q) = q[1] /\ 1 \in 1..Len(q)
           /\ Len(Tail(q)) = Len(q) - 1 /\ Len(q) \in Nat
           /\ \A i \in 1..Len(Tail(q)) : Tail(q)[i] = q[i + 1] /\ i + 1 \in 1..Len(q)
<1>1. Len(q) \in Nat /\ Len(q) > 0
  BY EmptySeq, LenProperties
<1>2. /\ Head(q) \in S /\ Tail(q) \in Seq(S) /\ Len(Tail(q)) = Len(q) - 1
      /\ \A i \in 1..Len(Tail(q)) : Tail(q)[i] = q[i + 1]
  BY HeadTailProperties
<1> QED BY <1>1, <1>2

\* The stores a filler makes after a listing.
LEMMA Stores ==
    /\ DiskStores \in Seq({"mem", "disk", "meta"})
    /\ \A i \in 1..Len(DiskStores) : DiskStores[i] # "disk"
    /\ \A r, b : FetchStores(r, b) \in Seq({"mem", "disk", "meta"})
<1>1. DiskStores \in Seq({"mem", "disk", "meta"}) /\ \A i \in 1..Len(DiskStores) : DiskStores[i] # "disk"
  BY DEF DiskStores
<1>2. /\ <<"mem">> \in Seq({"mem", "disk", "meta"}) /\ <<"meta">> \in Seq({"mem", "disk", "meta"})
      /\ <<"mem", "disk">> \in Seq({"mem", "disk", "meta"})
  OBVIOUS
<1>3. \A s, t \in Seq({"mem", "disk", "meta"}) : s \o t \in Seq({"mem", "disk", "meta"})
  BY ConcatProperties
<1>4. ASSUME NEW r, NEW b PROVE FetchStores(r, b) \in Seq({"mem", "disk", "meta"})
  BY <1>2, <1>3 DEF FetchStores
<1> QED BY <1>1, <1>4

LEMMA InitTyped == Init => IInv
<1> SUFFICES ASSUME Init PROVE IInv
  OBVIOUS
<1>1. <<>> \in Seq({"mem", "disk", "meta"}) /\ <<>> \in Seq({"own", "mem", "disk", "negatives", "subtree"})
  BY EmptySeq
<1>2. TypeOK
  BY <1>1, ConstantTypes DEF Init, TypeOK, Held
<1> QED BY <1>2 DEF Init, IInv, StoreAges, NoOlder, Holds

-----------------------------------------------------------------------------
(* The ways a filler moves. *)

Labels == {"idle", "meta", "mem", "disk", "list", "compare", "fill", "conclude", "answer"}

\* The other fillers, and the stores, are not concerned.
LEMMA FillerKeeps ==
    ASSUME IInv, NEW r \in Fillers, UNCHANGED <<bucket, epoch, caches, dropping>>,
           pc' \in [Fillers -> Labels], want' \in [Fillers -> Names \cup {Whole}],
           got' \in [Fillers -> {None} \cup Listing \cup Found],
           todo' \in [Fillers -> Seq({"mem", "disk", "meta"})],
           taint' \in [Fillers -> BOOLEAN], floor' \in [Fillers -> Contents],
           \A x \in Fillers \ {r} : /\ pc'[x] = pc[x] /\ want'[x] = want[x]
                                    /\ got'[x] = got[x] /\ todo'[x] = todo[x],
           Holds(r)'
    PROVE  IInv'
<1>1. TypeOK'
  BY DEF IInv, TypeOK, Labels, caches, dropping
<1>2. StoreAges'
  BY DEF IInv, StoreAges, NoOlder, caches
<1>3. ASSUME NEW x \in Fillers PROVE Holds(x)'
  <2>1. CASE x = r
    BY <2>1
  <2>2. CASE x # r
    BY <2>2 DEF IInv, Holds
  <2> QED BY <2>1, <2>2
<1> QED BY <1>1, <1>2, <1>3 DEF IInv

LEMMA BeginKeeps ==
    ASSUME IInv, NEW r \in Fillers, NEW what \in Names \cup {Whole},
           NEW where \in {"meta", "mem", "list"}, where = "meta" => what \in Names,
           Begin(r, what, where)
    PROVE  IInv'
<1>1. /\ pc' = [pc EXCEPT ![r] = where] /\ want' = [want EXCEPT ![r] = what]
      /\ taint' = [taint EXCEPT ![r] = \E d \in Droppers : Dropping(d)]
      /\ floor' = [floor EXCEPT ![r] = settled]
      /\ UNCHANGED <<bucket, epoch, caches, got, todo, dropping>>
  BY DEF Begin
<1>2. /\ pc' \in [Fillers -> Labels] /\ want' \in [Fillers -> Names \cup {Whole}]
      /\ taint' \in [Fillers -> BOOLEAN] /\ floor' \in [Fillers -> Contents]
      /\ pc'[r] = where /\ want'[r] = what
      /\ \A x \in Fillers \ {r} : pc'[x] = pc[x] /\ want'[x] = want[x]
  BY <1>1 DEF IInv, TypeOK, Labels
<1>3. Holds(r)'
  BY <1>2 DEF Holds
<1> QED BY <1>1, <1>2, <1>3, FillerKeeps DEF IInv, TypeOK

LEMMA TakeKeeps ==
    ASSUME IInv, NEW r \in Fillers, NEW list \in Listing \cup Found,
           NEW where \in {"compare", "fill", "conclude", "answer"},
           NEW stores \in Seq({"mem", "disk", "meta"}),
           where \in {"compare", "fill"} =>
              /\ list \in Listing /\ list.age <= DiskTTL
              /\ \A i \in 1..Len(stores) : stores[i] = "disk" => list.age = 0,
           where = "conclude" => /\ want[r] \in Names /\ list \in Listing
                                 /\ list.age <= DiskTTL + MemTTL,
           where = "answer" => /\ want[r] = Whole => list.age <= DiskTTL + MemTTL
                               /\ list.age <= DiskTTL + 2 * MemTTL,
           Take(r, list, where, stores)
    PROVE  IInv'
<1>1. /\ got' = [got EXCEPT ![r] = list] /\ pc' = [pc EXCEPT ![r] = where]
      /\ todo' = [todo EXCEPT ![r] = stores] /\ taint' = [taint EXCEPT ![r] = @ \/ list.tainted]
      /\ UNCHANGED <<bucket, epoch, caches, want, floor, dropping>>
  BY DEF Take
<1>2. /\ pc' \in [Fillers -> Labels] /\ got' \in [Fillers -> {None} \cup Listing \cup Found]
      /\ todo' \in [Fillers -> Seq({"mem", "disk", "meta"})]
      /\ pc'[r] = where /\ got'[r] = list /\ todo'[r] = stores
      /\ \A x \in Fillers \ {r} : pc'[x] = pc[x] /\ got'[x] = got[x] /\ todo'[x] = todo[x]
  BY <1>1 DEF IInv, TypeOK, Labels
<1>3. taint' \in [Fillers -> BOOLEAN]
  BY <1>1, ListingTypes DEF IInv, TypeOK
<1>4. Holds(r)'
  BY <1>1, <1>2 DEF Holds
<1> QED BY <1>1, <1>2, <1>3, <1>4, FillerKeeps DEF IInv, TypeOK

\* A step to where nothing new is asked of what the filler holds.
LEMMA MissKeeps ==
    ASSUME IInv, NEW r \in Fillers, NEW where \in Labels, Miss(r, where),
           where \in {"mem", "disk", "list"} \/ Holds(r)'
    PROVE  IInv'
<1>1. /\ pc' = [pc EXCEPT ![r] = where]
      /\ UNCHANGED <<bucket, epoch, caches, want, got, todo, taint, floor, dropping>>
  BY DEF Miss
<1>2. /\ pc' \in [Fillers -> Labels] /\ pc'[r] = where
      /\ \A x \in Fillers \ {r} : pc'[x] = pc[x]
  BY <1>1 DEF IInv, TypeOK, Labels
<1>3. Holds(r)'
  BY <1>2 DEF Holds
<1> QED BY <1>1, <1>2, <1>3, FillerKeeps DEF IInv, TypeOK

LEMMA EndKeeps == ASSUME IInv, NEW r \in Fillers, End(r) PROVE IInv'
<1>1. /\ pc' = [pc EXCEPT ![r] = "idle"] /\ want' = [want EXCEPT ![r] = Whole]
      /\ got' = [got EXCEPT ![r] = None] /\ todo' = [todo EXCEPT ![r] = <<>>]
      /\ taint' = [taint EXCEPT ![r] = FALSE] /\ floor' = [floor EXCEPT ![r] = Unsettled]
      /\ UNCHANGED <<bucket, epoch, caches, dropping>>
  BY DEF End
<1>2. <<>> \in Seq({"mem", "disk", "meta"}) /\ Unsettled \in Contents
  BY EmptySeq, ConstantTypes
<1>3. /\ pc' \in [Fillers -> Labels] /\ want' \in [Fillers -> Names \cup {Whole}]
      /\ got' \in [Fillers -> {None} \cup Listing \cup Found]
      /\ todo' \in [Fillers -> Seq({"mem", "disk", "meta"})]
      /\ taint' \in [Fillers -> BOOLEAN] /\ floor' \in [Fillers -> Contents]
      /\ pc'[r] = "idle"
      /\ \A x \in Fillers \ {r} : /\ pc'[x] = pc[x] /\ want'[x] = want[x]
                                  /\ got'[x] = got[x] /\ todo'[x] = todo[x]
  BY <1>1, <1>2 DEF IInv, TypeOK, Labels
<1>4. Holds(r)'
  BY <1>3 DEF Holds
<1> QED BY <1>1, <1>3, <1>4, FillerKeeps

\* What a filler finds in a store, and how old it is.
LEMMA FoundInMeta ==
    ASSUME IInv, NEW n \in Names, InForce(meta[n])
    PROVE  meta[n].list \in Found /\ meta[n].list.age <= DiskTTL + 2 * MemTTL
<1>1. /\ meta[n] # None /\ meta[n].held < MemTTL /\ meta[n] \in Held(Found, MemTTL)
      /\ NoOlder(meta[n], DiskTTL + MemTTL, MemTTL)
  BY DEF InForce, IInv, TypeOK, StoreAges
<1>2. meta[n].list \in Found /\ meta[n].held \in 0..(MemTTL + 1)
  BY <1>1, ConstantTypes, Entries
<1>3. meta[n].list.age \in 0..AgeCap
  BY <1>2, ListingTypes
<1> QED BY <1>1, <1>2, <1>3, ConstantTypes DEF NoOlder

LEMMA FoundInMem ==
    ASSUME IInv, InForce(mem)
    PROVE  /\ mem.list \in Listing
           /\ mem.list.age <= DiskTTL + MemTTL /\ mem.list.age <= DiskTTL + 2 * MemTTL
<1>1. /\ mem # None /\ mem.held < MemTTL /\ mem \in Held(Listing, MemTTL)
      /\ NoOlder(mem, DiskTTL, MemTTL)
  BY DEF InForce, IInv, TypeOK, StoreAges
<1>2. mem.list \in Listing /\ mem.held \in 0..(MemTTL + 1)
  BY <1>1, ConstantTypes, Entries
<1>3. mem.list.age \in 0..AgeCap
  BY <1>2, ListingTypes
<1> QED BY <1>1, <1>2, <1>3, ConstantTypes DEF NoOlder

LEMMA FoundOnDisk ==
    ASSUME IInv, disk # None, disk.held <= DiskTTL
    PROVE  disk.list \in Listing /\ disk.list.age <= DiskTTL
<1>1. disk \in Held(Listing, DiskTTL) /\ NoOlder(disk, 0, DiskTTL)
  BY DEF IInv, TypeOK, StoreAges
<1>2. disk.list \in Listing /\ disk.held \in 0..(DiskTTL + 1)
  BY <1>1, ConstantTypes, Entries
<1>3. disk.list.age \in 0..AgeCap
  BY <1>2, ListingTypes
<1> QED BY <1>1, <1>2, <1>3, ConstantTypes DEF NoOlder

\* A new listing of the bucket.
LEMMA Listings ==
    ASSUME IInv, NEW t \in BOOLEAN
    PROVE  LET l == [contents |-> bucket, epoch |-> epoch, age |-> 0, tainted |-> t]
           IN  l \in Listing /\ l.epoch = epoch /\ l.age = 0 /\ l.tainted = t
BY ConstantTypes DEF IInv, TypeOK, Listing

LEMMA ReadKeeps ==
    ASSUME IInv, NEW r \in Fillers, ReadMeta(r) \/ ReadMem(r) \/ ReadDisk(r) \/ List(r)
    PROVE  IInv'
<1>t. /\ <<>> \in Seq({"mem", "disk", "meta"}) /\ want[r] \in Names \cup {Whole}
      /\ taint[r] \in BOOLEAN
  BY EmptySeq DEF IInv, TypeOK
<1>1. CASE ReadMeta(r)
  <2>1. pc[r] = "meta" /\ want[r] \in Names /\ want[r] # Whole
    BY <1>1, ConstantTypes DEF ReadMeta, IInv, Holds
  <2>2. CASE InForce(meta[want[r]])
    <3>1. Take(r, meta[want[r]].list, "answer", <<>>)
      BY <1>1, <2>2 DEF ReadMeta
    <3> QED BY <1>t, <2>1, <2>2, <3>1, FoundInMeta, TakeKeeps
  <2>3. CASE ~InForce(meta[want[r]])
    BY <1>1, <2>3, MissKeeps DEF ReadMeta, Labels
  <2> QED BY <2>2, <2>3
<1>2. CASE ReadMem(r)
  <2>1. CASE InForce(mem)
    <3>1. Take(r, mem.list, Answered(r), <<>>)
      BY <1>2, <2>1 DEF ReadMem
    <3>2. \/ Answered(r) = "answer"
          \/ Answered(r) = "conclude" /\ want[r] \in Names
      BY <1>t DEF Answered
    <3> QED BY <1>t, <2>1, <3>1, <3>2, FoundInMem, TakeKeeps
  <2>2. CASE ~InForce(mem)
    BY <1>2, <2>2, MissKeeps DEF ReadMem, Labels
  <2> QED BY <2>1, <2>2
<1>3. CASE ReadDisk(r)
  <2>1. CASE disk # None /\ disk.held <= DiskTTL /\ ~IsEmpty(disk.list)
    <3>1. Take(r, disk.list, "fill", DiskStores)
      BY <1>3, <2>1 DEF ReadDisk
    <3> QED BY <2>1, <3>1, FoundOnDisk, Stores, TakeKeeps
  <2>2. CASE ~(disk # None /\ disk.held <= DiskTTL /\ ~IsEmpty(disk.list))
    BY <1>3, <2>2, MissKeeps DEF ReadDisk, Labels
  <2> QED BY <2>1, <2>2
<1>4. CASE List(r)
  <2> DEFINE l == [contents |-> bucket, epoch |-> epoch, age |-> 0, tainted |-> taint[r]]
             s == FetchStores(r, IsEmpty(l))
  <2>1. l \in Listing /\ l.age = 0 /\ s \in Seq({"mem", "disk", "meta"})
    BY <1>t, Listings, Stores
  <2>2. PICK where \in {"compare", "fill"} : Take(r, l, where, s)
    BY <1>4 DEF List
  <2> HIDE DEF l, s
  <2>3. l.age <= DiskTTL
    BY <2>1, ConstantTypes
  <2> QED BY <2>1, <2>2, <2>3, TakeKeeps
<1> QED BY <1>1, <1>2, <1>3, <1>4

LEMMA CallKeeps ==
    ASSUME IInv, NEW r \in Fillers,
           \/ Enumerate(r) \/ Resolve(r) \/ Refresh(r)
           \/ ListFails(r) \/ Compare(r) \/ Filled(r) \/ Answer(r)
    PROVE  IInv'
<1>1. CASE Enumerate(r) \/ Resolve(r) \/ Refresh(r)
  BY <1>1, BeginKeeps DEF Enumerate, Resolve, Refresh
<1>2. CASE ListFails(r) \/ Answer(r)
  BY <1>2, EndKeeps DEF ListFails, Answer
<1>3. CASE Compare(r)
  <2>1. CASE Miss(r, "fill")
    <3>1. pc[r] = "compare" /\ Holds(r)
      BY <1>3 DEF Compare, IInv
    <3>2. Holds(r)'
      BY <2>1, <3>1 DEF Miss, Holds, IInv, TypeOK
    <3> QED BY <2>1, <3>2, MissKeeps DEF Labels
  <2>2. CASE End(r)
    BY <2>2, EndKeeps
  <2> QED BY <1>3, <2>1, <2>2 DEF Compare
<1>4. CASE Filled(r)
  <2>1. CASE Miss(r, Answered(r))
    <3>1. /\ pc[r] = "fill" /\ got[r] \in Listing /\ got[r].age <= DiskTTL
          /\ want[r] \in Names \cup {Whole}
      BY <1>4 DEF Filled, IInv, Holds, TypeOK
    <3>2. got[r].age <= DiskTTL + MemTTL /\ got[r].age <= DiskTTL + 2 * MemTTL
      <4>1. got[r].age \in 0..AgeCap
        BY <3>1, ListingTypes
      <4> QED BY <3>1, <4>1, ConstantTypes
    <3>3. Answered(r) \in Labels
      BY DEF Answered, Labels
    <3>4. /\ pc'[r] = Answered(r) /\ want' = want /\ got' = got
      BY <2>1 DEF Miss, IInv, TypeOK
    <3>5. Holds(r)'
      BY <3>1, <3>2, <3>4 DEF Holds, Answered
    <3> QED BY <2>1, <3>3, <3>5, MissKeeps
  <2>2. CASE End(r)
    BY <2>2, EndKeeps
  <2> QED BY <1>4, <2>1, <2>2 DEF Filled
<1> QED BY <1>1, <1>2, <1>3, <1>4

-----------------------------------------------------------------------------
(* The stores a filler makes. *)

LEMMA FirstHelds == ASSUME NEW l \in Listing PROVE FirstHeld(l) \in 0..(MemTTL + 1)
BY ConstantTypes DEF FirstHeld

\* A filler's store takes a listing no older than limit, and any other part of the state
\* is left alone.
LEMMA FillTypes ==
    ASSUME IInv, NEW r \in Fillers, Fill(r)
    PROVE  /\ mem' \in Held(Listing, MemTTL) /\ disk' \in Held(Listing, DiskTTL)
           /\ meta' \in [Names -> Held(Found, MemTTL)]
           /\ StoreAges'
<1> DEFINE list == [got[r] EXCEPT !.tainted = taint[r]]
<1>1. /\ pc[r] = "fill" /\ todo[r] # <<>> /\ todo[r] \in Seq({"mem", "disk", "meta"})
      /\ got[r] \in Listing /\ got[r].age <= DiskTTL /\ taint[r] \in BOOLEAN
      /\ \A i \in 1..Len(todo[r]) : todo[r][i] = "disk" => got[r].age = 0
  BY DEF Fill, IInv, TypeOK, Holds
<1>2. Head(todo[r]) \in {"mem", "disk", "meta"} /\ (Head(todo[r]) = "disk" => got[r].age = 0)
  BY <1>1, HeadAndTail
<1>3. list \in Listing /\ list.age = got[r].age
  BY <1>1, Marked
<1>4. list.age \in Nat /\ list.age <= DiskTTL /\ (Head(todo[r]) = "disk" => list.age = 0)
  BY <1>1, <1>2, <1>3, ListingTypes, ConstantTypes
<1>5. /\ mem \in Held(Listing, MemTTL) /\ disk \in Held(Listing, DiskTTL)
      /\ meta \in [Names -> Held(Found, MemTTL)]
      /\ NoOlder(disk, 0, DiskTTL) /\ NoOlder(mem, DiskTTL, MemTTL)
      /\ \A n \in Names : NoOlder(meta[n], DiskTTL + MemTTL, MemTTL)
  BY DEF IInv, TypeOK, StoreAges
<1>6. \/ Head(todo[r]) = "mem" /\ mem' = [list |-> list, held |-> FirstHeld(list)]
         /\ UNCHANGED <<disk, meta>>
      \/ Head(todo[r]) = "disk" /\ disk' \in {disk, [list |-> list, held |-> 0]}
         /\ UNCHANGED <<mem, meta>>
      \/ Head(todo[r]) = "meta" /\ Seed(list) /\ UNCHANGED <<mem, disk>>
  BY <1>2 DEF Fill, Saves
<1> HIDE DEF list
<1>7. CASE Head(todo[r]) = "mem" /\ mem' = [list |-> list, held |-> FirstHeld(list)]
           /\ UNCHANGED <<disk, meta>>
  <2>1. FirstHeld(list) \in 0..(MemTTL + 1)
    BY <1>3, FirstHelds
  <2>2. mem' \in Held(Listing, MemTTL)
    BY <1>3, <1>7, <2>1, Entries, ConstantTypes
  <2>3. mem'.list.age <= DiskTTL + mem'.held
    BY <1>4, <1>7, <2>1, ConstantTypes
  <2>4. NoOlder(mem', DiskTTL, MemTTL)
    BY <2>3 DEF NoOlder
  <2> QED BY <1>5, <1>7, <2>2, <2>4 DEF StoreAges, NoOlder
<1>8. CASE Head(todo[r]) = "disk" /\ disk' \in {disk, [list |-> list, held |-> 0]}
           /\ UNCHANGED <<mem, meta>>
  <2>1. disk' \in Held(Listing, DiskTTL)
    BY <1>3, <1>5, <1>8, Entries, ConstantTypes
  <2>2. NoOlder(disk', 0, DiskTTL)
    BY <1>4, <1>5, <1>8, ConstantTypes DEF NoOlder
  <2> QED BY <1>5, <1>8, <2>1, <2>2 DEF StoreAges, NoOlder
<1>9. CASE Head(todo[r]) = "meta" /\ Seed(list) /\ UNCHANGED <<mem, disk>>
  <2>1. meta' = [n \in Names |-> IF list.contents[n] = 0 THEN meta[n]
                                 ELSE [list |-> Lookup(list, n), held |-> 0]]
    BY <1>9 DEF Seed
  <2>2. ASSUME NEW n \in Names
        PROVE  meta'[n] \in Held(Found, MemTTL) /\ NoOlder(meta'[n], DiskTTL + MemTTL, MemTTL)
    <3>1. CASE list.contents[n] = 0
      BY <1>5, <2>1, <3>1
    <3>2. CASE list.contents[n] # 0
      <4>1. meta'[n] = [list |-> Lookup(list, n), held |-> 0]
        BY <2>1, <3>2
      <4>2. Lookup(list, n) \in Found /\ Lookup(list, n).age = list.age
        BY <1>3, Lookups
      <4>3. meta'[n] \in Held(Found, MemTTL)
        BY <4>1, <4>2, Entries, ConstantTypes
      <4>4. meta'[n].list.age <= DiskTTL + MemTTL + meta'[n].held
        BY <1>4, <4>1, <4>2, ConstantTypes
      <4> QED BY <4>3, <4>4 DEF NoOlder
    <3> QED BY <3>1, <3>2
  <2>3. meta' \in [Names -> Held(Found, MemTTL)]
    BY <2>1, <2>2
  <2> QED BY <1>5, <1>9, <2>2, <2>3 DEF StoreAges, NoOlder
<1> QED BY <1>6, <1>7, <1>8, <1>9

LEMMA FillKeeps == ASSUME IInv, NEW r \in Fillers, Fill(r) PROVE IInv'
<1>1. /\ pc[r] = "fill" /\ todo[r] # <<>> /\ todo[r] \in Seq({"mem", "disk", "meta"})
      /\ todo' = [todo EXCEPT ![r] = Tail(@)]
      /\ UNCHANGED <<bucket, epoch, pc, want, got, taint, floor, dropping>>
  BY DEF Fill, IInv, TypeOK
<1>2. /\ Tail(todo[r]) \in Seq({"mem", "disk", "meta"})
      /\ \A i \in 1..Len(Tail(todo[r])) : /\ Tail(todo[r])[i] = todo[r][i + 1]
                                          /\ i + 1 \in 1..Len(todo[r])
  BY <1>1, HeadAndTail
<1>3. /\ todo' \in [Fillers -> Seq({"mem", "disk", "meta"})]
      /\ todo'[r] = Tail(todo[r]) /\ \A x \in Fillers \ {r} : todo'[x] = todo[x]
  BY <1>1, <1>2 DEF IInv, TypeOK
<1>4. TypeOK'
  BY <1>1, <1>3, FillTypes DEF IInv, TypeOK, dropping
<1>5. ASSUME NEW x \in Fillers PROVE Holds(x)'
  <2>1. CASE x = r
    <3>1. /\ got[r] \in Listing /\ got[r].age <= DiskTTL
          /\ \A i \in 1..Len(todo[r]) : todo[r][i] = "disk" => got[r].age = 0
      BY <1>1 DEF IInv, Holds
    <3>2. \A i \in 1..Len(todo'[r]) : todo'[r][i] = "disk" => got[r].age = 0
      BY <1>2, <1>3, <3>1
    <3> QED BY <1>1, <2>1, <3>1, <3>2 DEF Holds
  <2>2. CASE x # r
    BY <1>1, <1>3, <2>2 DEF IInv, Holds
  <2> QED BY <2>1, <2>2
<1> QED BY <1>4, <1>5, FillTypes DEF IInv

LEMMA ConcludeKeeps == ASSUME IInv, NEW r \in Fillers, Conclude(r) PROVE IInv'
<1> DEFINE list == [got[r] EXCEPT !.tainted = taint[r]]
           seen == Lookup(list, want[r])
<1>1. /\ pc[r] = "conclude" /\ want[r] \in Names /\ got[r] \in Listing
      /\ got[r].age <= DiskTTL + MemTTL /\ taint[r] \in BOOLEAN
  BY DEF Conclude, IInv, TypeOK, Holds
<1>2. /\ meta' = [meta EXCEPT ![want[r]] = [list |-> seen, held |-> 0]]
      /\ got' = [got EXCEPT ![r] = seen]
      /\ pc' = [pc EXCEPT ![r] = "answer"]
      /\ UNCHANGED <<bucket, epoch, mem, disk, want, todo, taint, floor, dropping>>
  BY DEF Conclude
<1>3. list \in Listing /\ list.age = got[r].age
  BY <1>1, Marked
<1> HIDE DEF list
<1>4. seen \in Found /\ seen.age = got[r].age /\ seen.age \in Nat
  BY <1>1, <1>3, Lookups, ListingTypes
<1> HIDE DEF seen
<1>5. [list |-> seen, held |-> 0] \in Held(Found, MemTTL)
  BY <1>4, Entries, ConstantTypes
<1>6. /\ meta' \in [Names -> Held(Found, MemTTL)] /\ got' \in [Fillers -> {None} \cup Listing \cup Found]
      /\ pc' \in [Fillers -> Labels]
      /\ pc'[r] = "answer" /\ got'[r] = seen
      /\ \A x \in Fillers \ {r} : pc'[x] = pc[x] /\ got'[x] = got[x]
      /\ meta'[want[r]] = [list |-> seen, held |-> 0]
      /\ \A n \in Names \ {want[r]} : meta'[n] = meta[n]
  BY <1>1, <1>2, <1>4, <1>5 DEF IInv, TypeOK, Labels
<1>7. TypeOK'
  BY <1>2, <1>6 DEF IInv, TypeOK, Labels, dropping
<1>8. StoreAges'
  <2>1. seen.age <= DiskTTL + MemTTL + 0
    BY <1>1, <1>4, ConstantTypes
  <2>2. ASSUME NEW n \in Names PROVE NoOlder(meta'[n], DiskTTL + MemTTL, MemTTL)
    <3>1. CASE n = want[r]
      BY <1>6, <2>1, <3>1 DEF NoOlder
    <3>2. CASE n # want[r]
      BY <1>6, <3>2 DEF IInv, StoreAges
    <3> QED BY <3>1, <3>2
  <2> QED BY <1>2, <2>2 DEF IInv, StoreAges, NoOlder
<1>9. ASSUME NEW x \in Fillers PROVE Holds(x)'
  <2>1. CASE x = r
    <3>1. seen.age <= DiskTTL + 2 * MemTTL
      BY <1>1, <1>4, ConstantTypes
    <3> QED BY <1>1, <1>2, <1>4, <1>6, <2>1, <3>1 DEF Holds
  <2>2. CASE x # r
    BY <1>2, <1>6, <2>2 DEF IInv, Holds
  <2> QED BY <2>1, <2>2
<1> QED BY <1>7, <1>8, <1>9 DEF IInv

-----------------------------------------------------------------------------
(* Changes, invalidation, time and restarts. *)

Stages == {"own", "mem", "disk", "negatives", "subtree"}

LEMMA Orders ==
    AfterUpload \in Seq(Stages) /\ AfterDelete \in Seq(Stages) /\ AfterPush \in Seq(Stages)
BY DEF AfterUpload, AfterDelete, AfterPush, Stages

LEMMA ChangedTypes ==
    ASSUME IInv, NEW n \in Names, Changed(n)
    PROVE  bucket' \in Contents /\ epoch' \in Epochs /\ epoch' = epoch + 1 /\ epoch \in Nat
<1>1. epoch \in 0..MaxChanges /\ epoch < MaxChanges /\ MaxChanges \in Nat
  BY ConstantTypes DEF Changed, IInv, TypeOK, Epochs
<1>2. epoch' = epoch + 1 /\ epoch' \in Epochs
  BY <1>1 DEF Changed, Epochs
<1>3. \/ bucket' = [bucket EXCEPT ![n] = epoch'] \/ bucket' = [bucket EXCEPT ![n] = 0]
  BY <1>2 DEF Changed
<1>4. bucket' \in Contents
  BY <1>2, <1>3, ConstantTypes DEF IInv, TypeOK, Contents
<1> QED BY <1>1, <1>2, <1>4

LEMMA StartsKeeps ==
    ASSUME IInv, NEW d \in Droppers, NEW what \in Names \cup {Whole}, NEW at \in Epochs,
           NEW stores \in Seq(Stages), Starts(d, what, at, stores),
           bucket' \in Contents, epoch' \in Epochs
    PROVE  IInv'
<1>1. /\ drop' = [drop EXCEPT ![d] = stores] /\ target' = [target EXCEPT ![d] = what]
      /\ since' = [since EXCEPT ![d] = at]
      /\ taint' = [r \in Fillers |-> taint[r] \/ pc[r] # "idle"]
      /\ UNCHANGED <<caches, pc, want, got, todo, floor, settled>>
  BY DEF Starts
<1>2. /\ drop' \in [Droppers -> Seq(Stages)] /\ target' \in [Droppers -> Names \cup {Whole}]
      /\ since' \in [Droppers -> Epochs]
  BY <1>1 DEF IInv, TypeOK, Stages
<1>3. taint' \in [Fillers -> BOOLEAN]
  BY <1>1 DEF IInv, TypeOK
<1>4. TypeOK'
  BY <1>1, <1>2, <1>3 DEF IInv, TypeOK, caches, Stages
<1>5. StoreAges' /\ \A r \in Fillers : Holds(r)'
  BY <1>1 DEF IInv, StoreAges, NoOlder, Holds, caches
<1> QED BY <1>4, <1>5 DEF IInv

LEMMA BeginsKeep ==
    ASSUME IInv, NEW d \in Droppers,
           LocalUpload(d) \/ LocalDelete(d) \/ Pushed(d) \/ Command(d)
    PROVE  IInv'
<1>1. CASE LocalUpload(d) \/ LocalDelete(d)
  <2>1. PICK n \in Names, stores \in Seq(Stages) : Changed(n) /\ Starts(d, n, epoch + 1, stores)
    BY <1>1, Orders DEF LocalUpload, LocalDelete
  <2>2. bucket' \in Contents /\ epoch' \in Epochs /\ epoch + 1 \in Epochs
    BY <2>1, ChangedTypes
  <2> QED BY <2>1, <2>2, StartsKeeps
<1>2. CASE Pushed(d) \/ Command(d)
  <2>1. Starts(d, Whole, epoch, AfterPush) /\ bucket' = bucket /\ epoch' = epoch
    BY <1>2 DEF Pushed, Command
  <2>2. bucket \in Contents /\ epoch \in Epochs
    BY DEF IInv, TypeOK
  <2> QED BY <2>1, <2>2, Orders, StartsKeeps
<1> QED BY <1>1, <1>2

LEMMA RemoteKeeps == ASSUME IInv, RemoteChange PROVE IInv'
<1>1. bucket' \in Contents /\ epoch' \in Epochs /\ UNCHANGED <<caches, filling, dropping>>
  BY ChangedTypes DEF RemoteChange
<1>2. TypeOK'
  BY <1>1 DEF IInv, TypeOK, caches, filling, dropping
<1>3. StoreAges' /\ \A r \in Fillers : Holds(r)'
  BY <1>1 DEF IInv, StoreAges, NoOlder, Holds, caches, filling
<1> QED BY <1>2, <1>3 DEF IInv

\* What a removal leaves on disk: nothing, or the old file, which counts as tainted.
LEMMA Removals ==
    ASSUME IInv, NEW e \in Removed
    PROVE  e \in Held(Listing, DiskTTL) /\ NoOlder(e, 0, DiskTTL) /\ (e = None \/ e.list.tainted)
<1>1. disk \in Held(Listing, DiskTTL) /\ NoOlder(disk, 0, DiskTTL)
  BY DEF IInv, TypeOK, StoreAges
<1>2. CASE e = None
  BY <1>2, Entries, ConstantTypes DEF NoOlder
<1>3. CASE e # None
  <2>1. disk # None /\ e = [disk EXCEPT !.list.tainted = TRUE]
    BY <1>3 DEF Removed
  <2>2. disk.list \in Listing /\ disk.held \in 0..(DiskTTL + 1)
        /\ disk = [list |-> disk.list, held |-> disk.held]
    BY <1>1, <2>1 DEF Held
  <2> DEFINE l == [disk.list EXCEPT !.tainted = TRUE]
  <2>3. l \in Listing /\ l.age = disk.list.age /\ l.tainted
    BY <2>2 DEF Listing
  <2>4. e = [list |-> l, held |-> disk.held]
    BY <2>1, <2>2
  <2> HIDE DEF l
  <2>5. e \in Held(Listing, DiskTTL) /\ e.list = l /\ e.held = disk.held
    BY <2>2, <2>3, <2>4, Entries, ConstantTypes
  <2> QED BY <1>1, <2>1, <2>3, <2>5 DEF NoOlder
<1> QED BY <1>2, <1>3

LEMMA DropTypes ==
    ASSUME IInv, NEW d \in Droppers, Drop(d)
    PROVE  /\ drop' \in [Droppers -> Seq(Stages)] /\ target' \in [Droppers -> Names \cup {Whole}]
           /\ since' \in [Droppers -> Epochs] /\ settled' \in Contents
<1>1. drop' = [drop EXCEPT ![d] = Tail(@)] /\ drop[d] # <<>> /\ drop[d] \in Seq(Stages)
  BY DEF Drop, Dropping, IInv, TypeOK, Stages
<1>2. Tail(drop[d]) \in Seq(Stages)
  BY <1>1, HeadAndTail
<1>3. drop' \in [Droppers -> Seq(Stages)]
  BY <1>1, <1>2 DEF IInv, TypeOK, Stages
<1>4. target' \in [Droppers -> Names \cup {Whole}]
  BY DEF Drop, IInv, TypeOK
<1>5. since' \in [Droppers -> Epochs]
  BY ConstantTypes DEF Drop, IInv, TypeOK
<1>6. settled \in [Names -> Epochs] /\ since[d] \in Epochs
  BY DEF IInv, TypeOK, Contents
<1>7. \/ settled' = settled
      \/ settled' = [n \in Names |-> IF target[d] \in {n, Whole} /\ since[d] > settled[n]
                                     THEN since[d] ELSE settled[n]]
  BY DEF Drop
<1>8. settled' \in Contents
  BY <1>6, <1>7 DEF Contents
<1> QED BY <1>3, <1>4, <1>5, <1>8

LEMMA DropKeeps == ASSUME IInv, NEW d \in Droppers, Drop(d) PROVE IInv'
<1>1. /\ mem' = IF Head(drop[d]) = "mem" THEN None ELSE mem
      /\ disk' \in Removed \/ disk' = disk
      /\ meta' = [n \in Names |-> IF Gone(d, n) THEN None ELSE meta[n]]
      /\ UNCHANGED <<bucket, epoch, filling>>
  BY DEF Drop
<1>2. /\ mem \in Held(Listing, MemTTL) /\ disk \in Held(Listing, DiskTTL)
      /\ meta \in [Names -> Held(Found, MemTTL)]
      /\ None \in Held(Listing, MemTTL) /\ None \in Held(Listing, DiskTTL) /\ None \in Held(Found, MemTTL)
  BY Entries, ConstantTypes DEF IInv, TypeOK
<1>3. /\ mem' \in Held(Listing, MemTTL) /\ disk' \in Held(Listing, DiskTTL)
      /\ meta' \in [Names -> Held(Found, MemTTL)]
      /\ mem' \in {None, mem} /\ \A n \in Names : meta'[n] \in {None, meta[n]}
      /\ NoOlder(disk', 0, DiskTTL)
  BY <1>1, <1>2, Removals DEF IInv, StoreAges
<1>4. TypeOK'
  BY <1>1, <1>3, DropTypes DEF IInv, TypeOK, Stages, filling
<1>5. StoreAges'
  BY <1>3 DEF IInv, StoreAges, NoOlder
<1>6. \A r \in Fillers : Holds(r)'
  BY <1>1 DEF IInv, Holds, filling
<1> QED BY <1>4, <1>5, <1>6 DEF IInv

\* A listing or a lookup at another age.
LEMMA AtAge ==
    ASSUME NEW a \in 0..AgeCap
    PROVE  /\ \A l \in Listing : [l EXCEPT !.age = a] \in Listing /\ [l EXCEPT !.age = a].age = a
           /\ \A l \in Found : [l EXCEPT !.age = a] \in Found /\ [l EXCEPT !.age = a].age = a
BY DEF Listing, Found

LEMMA Aged ==
    ASSUME NEW S \in {Listing, Found}, NEW ttl \in Nat, NEW limit \in Nat,
           NEW e \in Held(S, ttl), NoOlder(e, limit, ttl)
    PROVE  Older(e, ttl) \in Held(S, ttl) /\ NoOlder(Older(e, ttl), limit, ttl)
<1>1. CASE e = None
  BY <1>1 DEF Older, NoOlder
<1>2. CASE e # None
  <2> DEFINE a == IF e.list.age < AgeCap THEN e.list.age + 1 ELSE e.list.age
             l == [e.list EXCEPT !.age = a]
             h == IF e.held <= ttl THEN e.held + 1 ELSE e.held
  <2>1. e.list \in S /\ e.held \in 0..(ttl + 1) /\ e.list.age \in 0..AgeCap
    BY <1>2, Entries, ListingTypes
  <2>2. l \in S /\ l.age \in 0..AgeCap /\ l.age <= e.list.age + 1
    <3>1. a \in 0..AgeCap /\ a <= e.list.age + 1
      BY <2>1, ConstantTypes
    <3> HIDE DEF a
    <3>2. l \in S /\ l.age = a
      BY <2>1, <3>1, AtAge
    <3> QED BY <3>1, <3>2
  <2>3. h \in 0..(ttl + 1) /\ (h <= ttl => e.held <= ttl /\ h = e.held + 1)
    BY <2>1
  <2>4. Older(e, ttl) = [list |-> l, held |-> h]
    BY <1>2 DEF Older
  <2> HIDE DEF l, h
  <2>5. Older(e, ttl) \in Held(S, ttl)
    BY <2>2, <2>3, <2>4, Entries
  <2>6. h <= ttl => l.age <= limit + h
    <3>1. e.held <= ttl => e.list.age <= limit + e.held
      BY <1>2 DEF NoOlder
    <3> QED BY <2>1, <2>2, <2>3, <3>1
  <2> QED BY <2>4, <2>5, <2>6 DEF NoOlder
<1> QED BY <1>1, <1>2

LEMMA TickKeeps == ASSUME IInv, Tick PROVE IInv'
<1>1. /\ mem' = Older(mem, MemTTL) /\ disk' = Older(disk, DiskTTL)
      /\ meta' = [n \in Names |-> Older(meta[n], MemTTL)]
      /\ UNCHANGED <<bucket, epoch, filling, dropping>>
  BY DEF Tick
<1>2. /\ mem \in Held(Listing, MemTTL) /\ disk \in Held(Listing, DiskTTL)
      /\ NoOlder(disk, 0, DiskTTL) /\ NoOlder(mem, DiskTTL, MemTTL)
      /\ \A n \in Names : /\ NoOlder(meta[n], DiskTTL + MemTTL, MemTTL)
                          /\ meta[n] \in Held(Found, MemTTL)
  BY DEF IInv, TypeOK, StoreAges
<1>3. MemTTL \in Nat /\ DiskTTL \in Nat /\ DiskTTL + MemTTL \in Nat /\ 0 \in Nat
  BY ConstantTypes
<1>4. mem' \in Held(Listing, MemTTL) /\ NoOlder(mem', DiskTTL, MemTTL)
  BY <1>1, <1>2, <1>3, Aged
<1>5. disk' \in Held(Listing, DiskTTL) /\ NoOlder(disk', 0, DiskTTL)
  BY <1>1, <1>2, <1>3, Aged
<1>6. \A n \in Names : meta'[n] \in Held(Found, MemTTL) /\ NoOlder(meta'[n], DiskTTL + MemTTL, MemTTL)
  BY <1>1, <1>2, <1>3, Aged
<1>7. meta' \in [Names -> Held(Found, MemTTL)]
  BY <1>1, <1>6
<1>8. TypeOK'
  BY <1>1, <1>4, <1>5, <1>7 DEF IInv, TypeOK, filling, dropping
<1>9. StoreAges'
  BY <1>4, <1>5, <1>6 DEF StoreAges, NoOlder
<1>10. \A r \in Fillers : Holds(r)'
  BY <1>1 DEF IInv, Holds, filling
<1> QED BY <1>8, <1>9, <1>10 DEF IInv

LEMMA RestartKeeps == ASSUME IInv, Restart PROVE IInv'
<1>1. <<>> \in Seq({"mem", "disk", "meta"}) /\ <<>> \in Seq(Stages)
  BY EmptySeq
<1>2. TypeOK'
  BY <1>1, ConstantTypes DEF IInv, TypeOK, Restart, Held, Stages
<1>3. StoreAges' /\ \A r \in Fillers : Holds(r)'
  BY DEF IInv, StoreAges, NoOlder, Holds, Restart
<1> QED BY <1>2, <1>3 DEF IInv

LEMMA AgesNext == IInv /\ [Next]_vars => IInv'
<1> SUFFICES ASSUME IInv, [Next]_vars PROVE IInv'
  OBVIOUS
<1>1. ASSUME NEW r \in Fillers, FillerStep(r) PROVE IInv'
  BY <1>1, ReadKeeps, CallKeeps, FillKeeps, ConcludeKeeps DEF FillerStep
<1>2. ASSUME NEW d \in Droppers, DropperStep(d) PROVE IInv'
  BY <1>2, BeginsKeep, DropKeeps DEF DropperStep
<1>3. CASE UNCHANGED vars
  <2>1. UNCHANGED <<bucket, epoch, caches, filling, dropping>>
    BY <1>3 DEF vars
  <2>2. TypeOK'
    BY <2>1 DEF IInv, TypeOK, caches, filling, dropping
  <2>3. StoreAges' /\ \A r \in Fillers : Holds(r)'
    BY <2>1 DEF IInv, StoreAges, NoOlder, Holds, caches, filling
  <2> QED BY <2>2, <2>3 DEF IInv
<1> QED BY <1>1, <1>2, <1>3, RemoteKeeps, TickKeeps, RestartKeeps DEF Next

\* Whatever stores an answer came through, restarts between them included, it is no
\* older than the lifetimes of those stores together.
THEOREM AnswersAreBounded == Spec => []AgeBounded
<1>1. IInv => AgeBounded
  BY DEF IInv, AgeBounded, Holds, Fillers
<1> QED BY <1>1, InitTyped, AgesNext, PTL DEF Spec

-----------------------------------------------------------------------------
(* What is settled is seen.                                                *)
(*                                                                         *)
(* An entry stored by a filler no dropper ran beside is at least as new as *)
(* all that is settled: a dropper settles its change when it has cleared   *)
(* every store, and what was stored behind its back carries a taint.       *)

Dirty(entry) == entry = None \/ entry.list.tainted

AsNew(entry, n) == Dirty(entry) \/ entry.list.epoch >= settled[n]

\* The store s is still to be cleared by d.
Still(d, s) == \E i \in 1..Len(drop[d]) : drop[d][i] = s

Bounds ==
    \A n \in Names : /\ settled[n] <= epoch
                     /\ \A r \in Fillers : floor[r][n] <= settled[n]

StoresNew == \A n \in Names : AsNew(mem, n) /\ AsNew(disk, n) /\ AsNew(meta[n], n)

CarriesNew(r) ==
    ~taint[r] => \A n \in Names :
        \/ pc[r] \in {"compare", "fill", "conclude"}
        \/ pc[r] = "answer" /\ want[r] \in {n, Whole}
        => got[r].epoch >= settled[n]

\* The stores a dropper has behind it hold nothing from before its change.
Clearing(d) ==
    Dropping(d) =>
        /\ ~Still(d, "mem") => Dirty(mem)
        /\ ~Still(d, "disk") => Dirty(disk)
        /\ ~Still(d, "own") /\ ~Still(d, "subtree") =>
              \A n \in Names : target[d] \in {n, Whole} => Dirty(meta[n])
        /\ Still(d, "own") => target[d] # Whole
        /\ since[d] <= epoch
        /\ \A r \in Fillers : pc[r] # "idle" => taint[r]

SInv ==
    /\ IInv
    /\ Bounds
    /\ StoresNew
    /\ \A r \in Fillers : CarriesNew(r)
    /\ \A d \in Droppers : Clearing(d)

LEMMA Numbers ==
    ASSUME IInv
    PROVE  /\ epoch \in Nat
           /\ \A n \in Names : settled[n] \in Nat /\ \A r \in Fillers : floor[r][n] \in Nat
           /\ \A d \in Droppers : since[d] \in Nat
<1>1. /\ epoch \in Epochs /\ settled \in [Names -> Epochs]
      /\ floor \in [Fillers -> [Names -> Epochs]] /\ since \in [Droppers -> Epochs]
  BY DEF IInv, TypeOK, Contents
<1>2. Epochs \subseteq Nat
  BY ConstantTypes
<1> QED BY <1>1, <1>2

LEMMA InitNew == Init => SInv
<1> SUFFICES ASSUME Init PROVE SInv
  OBVIOUS
<1>1. IInv
  BY InitTyped
<1>2. Bounds
  BY DEF Init, Bounds, Unsettled
<1>3. StoresNew /\ (\A r \in Fillers : CarriesNew(r)) /\ \A d \in Droppers : Clearing(d)
  BY DEF Init, StoresNew, AsNew, Dirty, CarriesNew, Clearing, Dropping
<1> QED BY <1>1, <1>2, <1>3 DEF SInv

\* The move of a filler that stores nothing.
LEMMA FillerNew ==
    ASSUME SInv, IInv', NEW r \in Fillers, UNCHANGED <<bucket, epoch, caches, dropping>>,
           \A x \in Fillers \ {r} : /\ pc'[x] = pc[x] /\ want'[x] = want[x] /\ got'[x] = got[x]
                                    /\ taint'[x] = taint[x] /\ floor'[x] = floor[x],
           \A n \in Names : floor'[r][n] <= settled[n],
           CarriesNew(r)',
           pc'[r] # "idle" => \A d \in Droppers : Dropping(d) => taint'[r]
    PROVE  SInv'
<1>1. Bounds'
  BY DEF SInv, Bounds, dropping
<1>2. StoresNew'
  BY DEF SInv, StoresNew, AsNew, Dirty, caches, dropping
<1>3. ASSUME NEW x \in Fillers PROVE CarriesNew(x)'
  <2>1. CASE x = r
    BY <2>1
  <2>2. CASE x # r
    BY <2>2 DEF SInv, CarriesNew, dropping
  <2> QED BY <2>1, <2>2
<1>4. ASSUME NEW d \in Droppers PROVE Clearing(d)'
  <2> SUFFICES ASSUME Dropping(d)' PROVE Clearing(d)'
    BY DEF Clearing
  <2>1. Dropping(d) /\ Clearing(d)
    BY DEF Dropping, dropping, SInv
  <2>2. ASSUME NEW x \in Fillers, pc'[x] # "idle" PROVE taint'[x]
    <3>1. CASE x = r
      BY <2>1, <2>2, <3>1
    <3>2. CASE x # r
      BY <2>1, <2>2, <3>2 DEF Clearing
    <3> QED BY <3>1, <3>2
  <2> QED BY <2>1, <2>2 DEF Clearing, Dirty, Still, caches, dropping
<1> QED BY <1>1, <1>2, <1>3, <1>4 DEF SInv

LEMMA BeginNew ==
    ASSUME SInv, IInv', NEW r \in Fillers, NEW what, NEW where \in {"meta", "mem", "list"},
           Begin(r, what, where)
    PROVE  SInv'
<1>1. /\ pc' = [pc EXCEPT ![r] = where] /\ want' = [want EXCEPT ![r] = what]
      /\ taint' = [taint EXCEPT ![r] = \E d \in Droppers : Dropping(d)]
      /\ floor' = [floor EXCEPT ![r] = settled]
      /\ UNCHANGED <<bucket, epoch, caches, got, todo, dropping>>
  BY DEF Begin
<1>2. TypeOK
  BY DEF SInv, IInv
<1>3. /\ pc'[r] = where /\ floor'[r] = settled
      /\ \A x \in Fillers \ {r} : /\ pc'[x] = pc[x] /\ want'[x] = want[x] /\ got'[x] = got[x]
                                  /\ taint'[x] = taint[x] /\ floor'[x] = floor[x]
  BY <1>1, <1>2 DEF TypeOK
<1>4. taint'[r] = \E d \in Droppers : Dropping(d)
  BY <1>1, <1>2 DEF TypeOK
<1>5. \A n \in Names : floor'[r][n] <= settled[n]
  BY <1>3, Numbers DEF SInv
<1>6. CarriesNew(r)'
  BY <1>3 DEF CarriesNew
<1> QED BY <1>1, <1>3, <1>4, <1>5, <1>6, FillerNew

\* A listing taken from a store, or from the bucket.
LEMMA TakeNew ==
    ASSUME SInv, IInv', NEW r \in Fillers, NEW list, NEW where \in Labels, NEW stores,
           pc[r] # "idle", Take(r, list, where, stores),
           ~taint[r] /\ ~list.tainted => \A n \in Names :
               where # "answer" \/ want[r] \in {n, Whole} => list.epoch >= settled[n]
    PROVE  SInv'
<1>1. /\ got' = [got EXCEPT ![r] = list] /\ pc' = [pc EXCEPT ![r] = where]
      /\ taint' = [taint EXCEPT ![r] = taint[r] \/ list.tainted]
      /\ UNCHANGED <<bucket, epoch, caches, want, floor, dropping>>
  BY DEF Take
<1>2. TypeOK
  BY DEF SInv, IInv
<1>3. /\ pc'[r] = where /\ got'[r] = list
      /\ \A x \in Fillers \ {r} : /\ pc'[x] = pc[x] /\ want'[x] = want[x] /\ got'[x] = got[x]
                                  /\ taint'[x] = taint[x] /\ floor'[x] = floor[x]
  BY <1>1, <1>2 DEF TypeOK
<1>4. taint'[r] = (taint[r] \/ list.tainted)
  BY <1>1, <1>2 DEF TypeOK
<1>5. \A n \in Names : floor'[r][n] <= settled[n]
  BY <1>1 DEF SInv, Bounds
<1>6. CarriesNew(r)'
  BY <1>1, <1>3, <1>4 DEF CarriesNew, dropping
<1>7. \A d \in Droppers : Dropping(d) => taint'[r]
  BY <1>4 DEF SInv, Clearing
<1> QED BY <1>1, <1>3, <1>5, <1>6, <1>7, FillerNew

LEMMA MissNew ==
    ASSUME SInv, IInv', NEW r \in Fillers, NEW where \in Labels, pc[r] # "idle", Miss(r, where),
           \/ where \in {"mem", "disk", "list"}
           \/ pc[r] \in {"compare", "fill"}
    PROVE  SInv'
<1>1. /\ pc' = [pc EXCEPT ![r] = where]
      /\ UNCHANGED <<bucket, epoch, caches, want, got, todo, taint, floor, dropping>>
  BY DEF Miss
<1>2. TypeOK
  BY DEF SInv, IInv
<1>3. pc'[r] = where /\ \A x \in Fillers \ {r} : pc'[x] = pc[x]
  BY <1>1, <1>2 DEF TypeOK
<1>4. \A n \in Names : floor'[r][n] <= settled[n]
  BY <1>1 DEF SInv, Bounds
<1>5. CarriesNew(r)'
  BY <1>1, <1>3 DEF SInv, CarriesNew, dropping
<1>6. \A d \in Droppers : Dropping(d) => taint'[r]
  BY <1>1 DEF SInv, Clearing
<1> QED BY <1>1, <1>3, <1>4, <1>5, <1>6, FillerNew

LEMMA EndNew == ASSUME SInv, IInv', NEW r \in Fillers, End(r) PROVE SInv'
<1>1. /\ pc' = [pc EXCEPT ![r] = "idle"] /\ want' = [want EXCEPT ![r] = Whole]
      /\ got' = [got EXCEPT ![r] = None] /\ taint' = [taint EXCEPT ![r] = FALSE]
      /\ floor' = [floor EXCEPT ![r] = Unsettled]
      /\ UNCHANGED <<bucket, epoch, caches, dropping>>
  BY DEF End
<1>2. TypeOK
  BY DEF SInv, IInv
<1>3. /\ pc'[r] = "idle" /\ floor'[r] = Unsettled
      /\ \A x \in Fillers \ {r} : /\ pc'[x] = pc[x] /\ want'[x] = want[x] /\ got'[x] = got[x]
                                  /\ taint'[x] = taint[x] /\ floor'[x] = floor[x]
  BY <1>1, <1>2 DEF TypeOK
<1>4. \A n \in Names : floor'[r][n] <= settled[n]
  BY <1>3, Numbers DEF SInv, Unsettled
<1>5. CarriesNew(r)'
  BY <1>3 DEF CarriesNew
<1> QED BY <1>1, <1>3, <1>4, <1>5, FillerNew

LEMMA ReadNew ==
    ASSUME SInv, IInv', NEW r \in Fillers, ReadMeta(r) \/ ReadMem(r) \/ ReadDisk(r) \/ List(r)
    PROVE  SInv'
<1>t. /\ want[r] \in Names \cup {Whole} /\ taint[r] \in BOOLEAN
      /\ Labels = {"idle", "meta", "mem", "disk", "list", "compare", "fill", "conclude", "answer"}
  BY DEF SInv, IInv, TypeOK, Labels
<1>1. CASE ReadMeta(r)
  <2>1. pc[r] = "meta" /\ want[r] \in Names /\ want[r] # Whole
    BY <1>1, ConstantTypes DEF ReadMeta, SInv, IInv, Holds
  <2>2. CASE InForce(meta[want[r]])
    <3>1. Take(r, meta[want[r]].list, "answer", <<>>)
      BY <1>1, <2>2 DEF ReadMeta
    <3>2. AsNew(meta[want[r]], want[r])
      BY <2>1 DEF SInv, StoresNew
    <3>3. ~meta[want[r]].list.tainted => meta[want[r]].list.epoch >= settled[want[r]]
      BY <2>2, <3>2 DEF AsNew, Dirty, InForce
    <3> QED BY <1>t, <2>1, <3>1, <3>3, TakeNew
  <2>3. CASE ~InForce(meta[want[r]])
    BY <1>t, <1>1, <2>1, <2>3, MissNew DEF ReadMeta
  <2> QED BY <2>2, <2>3
<1>2. CASE ReadMem(r)
  <2>1. CASE InForce(mem)
    <3>1. Take(r, mem.list, Answered(r), <<>>) /\ pc[r] # "idle"
      BY <1>2, <2>1 DEF ReadMem
    <3>2. ~mem.list.tainted => \A n \in Names : mem.list.epoch >= settled[n]
      BY <2>1 DEF SInv, StoresNew, AsNew, Dirty, InForce
    <3>3. Answered(r) \in Labels
      BY <1>t DEF Answered
    <3> QED BY <3>1, <3>2, <3>3, TakeNew
  <2>2. CASE ~InForce(mem)
    BY <1>t, <1>2, <2>2, MissNew DEF ReadMem
  <2> QED BY <2>1, <2>2
<1>3. CASE ReadDisk(r)
  <2>1. CASE disk # None /\ disk.held <= DiskTTL /\ ~IsEmpty(disk.list)
    <3>1. Take(r, disk.list, "fill", DiskStores) /\ pc[r] # "idle"
      BY <1>3, <2>1 DEF ReadDisk
    <3>2. ~disk.list.tainted => \A n \in Names : disk.list.epoch >= settled[n]
      BY <2>1 DEF SInv, StoresNew, AsNew, Dirty
    <3> QED BY <1>t, <3>1, <3>2, TakeNew
  <2>2. CASE ~(disk # None /\ disk.held <= DiskTTL /\ ~IsEmpty(disk.list))
    BY <1>t, <1>3, <2>2, MissNew DEF ReadDisk
  <2> QED BY <2>1, <2>2
<1>4. CASE List(r)
  <2> DEFINE l == [contents |-> bucket, epoch |-> epoch, age |-> 0, tainted |-> taint[r]]
             s == FetchStores(r, IsEmpty(l))
  <2>1. l.epoch = epoch /\ pc[r] # "idle"
    BY <1>4 DEF List
  <2>2. PICK where \in {"compare", "fill"} : Take(r, l, where, s)
    BY <1>4 DEF List
  <2> HIDE DEF l, s
  <2>3. \A n \in Names : l.epoch >= settled[n]
    BY <2>1, Numbers DEF SInv, Bounds
  <2> QED BY <1>t, <2>1, <2>2, <2>3, TakeNew
<1> QED BY <1>1, <1>2, <1>3, <1>4

LEMMA CallNew ==
    ASSUME SInv, IInv', NEW r \in Fillers,
           \/ Enumerate(r) \/ Resolve(r) \/ Refresh(r)
           \/ ListFails(r) \/ Compare(r) \/ Filled(r) \/ Answer(r)
    PROVE  SInv'
<1>1. CASE Enumerate(r) \/ Resolve(r) \/ Refresh(r)
  BY <1>1, BeginNew DEF Enumerate, Resolve, Refresh
<1>2. CASE ListFails(r) \/ Answer(r)
  BY <1>2, EndNew DEF ListFails, Answer
<1>3. CASE Compare(r)
  <2>1. pc[r] = "compare" /\ (Miss(r, "fill") \/ End(r))
    BY <1>3 DEF Compare
  <2> QED BY <2>1, MissNew, EndNew DEF Labels
<1>4. CASE Filled(r)
  <2>1. pc[r] = "fill" /\ (Miss(r, Answered(r)) \/ End(r)) /\ Answered(r) \in Labels
    BY <1>4 DEF Filled, Answered, Labels
  <2> QED BY <2>1, MissNew, EndNew
<1> QED BY <1>1, <1>2, <1>3, <1>4

\* The move of a filler that stores something: with a dropper at work it is tainted.
LEMMA StoreNew ==
    ASSUME SInv, IInv', NEW r \in Fillers, pc[r] # "idle",
           UNCHANGED <<bucket, epoch, want, taint, floor, dropping>>,
           \A x \in Fillers \ {r} : pc'[x] = pc[x] /\ got'[x] = got[x],
           CarriesNew(r)', StoresNew',
           mem' = mem \/ (taint[r] => Dirty(mem)'),
           disk' = disk \/ (taint[r] => Dirty(disk)'),
           \A n \in Names : meta'[n] = meta[n] \/ (taint[r] => Dirty(meta'[n]))
    PROVE  SInv'
<1>1. Bounds'
  BY DEF SInv, Bounds, dropping
<1>2. ASSUME NEW x \in Fillers PROVE CarriesNew(x)'
  <2>1. CASE x = r
    BY <2>1
  <2>2. CASE x # r
    BY <2>2 DEF SInv, CarriesNew, dropping
  <2> QED BY <2>1, <2>2
<1>3. ASSUME NEW d \in Droppers PROVE Clearing(d)'
  <2> SUFFICES ASSUME Dropping(d)' PROVE Clearing(d)'
    BY DEF Clearing
  <2>1. Dropping(d) /\ Clearing(d)
    BY DEF Dropping, dropping, SInv
  <2>2. taint[r]
    BY <2>1 DEF Clearing
  <2>3. /\ Dirty(mem) => Dirty(mem)'
        /\ Dirty(disk) => Dirty(disk)'
        /\ \A n \in Names : Dirty(meta[n]) => Dirty(meta'[n])
    BY <2>2 DEF Dirty
  <2>4. \A x \in Fillers : pc'[x] # "idle" => taint'[x]
    BY <2>1, <2>2 DEF Clearing
  <2>5. \A s : Still(d, s)' <=> Still(d, s)
    BY DEF Still, dropping
  <2>6. drop' = drop /\ target' = target /\ since' = since /\ epoch' = epoch
    BY DEF dropping
  <2> QED BY <2>1, <2>3, <2>4, <2>5, <2>6 DEF Clearing
<1> QED BY <1>1, <1>2, <1>3 DEF SInv

LEMMA FillNew == ASSUME SInv, IInv', NEW r \in Fillers, Fill(r) PROVE SInv'
<1> DEFINE list == [got[r] EXCEPT !.tainted = taint[r]]
<1>1. /\ pc[r] = "fill" /\ todo[r] # <<>> /\ todo[r] \in Seq({"mem", "disk", "meta"})
      /\ got[r] \in Listing /\ taint[r] \in BOOLEAN
      /\ UNCHANGED <<bucket, epoch, pc, want, got, taint, floor, dropping>>
  BY DEF Fill, SInv, IInv, TypeOK, Holds
<1>2. Head(todo[r]) \in {"mem", "disk", "meta"}
  BY <1>1, HeadAndTail
<1>3. list \in Listing /\ list.epoch = got[r].epoch /\ list.tainted = taint[r]
  BY <1>1, Marked
<1>4. \/ mem' = [list |-> list, held |-> FirstHeld(list)] /\ UNCHANGED <<disk, meta>>
      \/ disk' \in {disk, [list |-> list, held |-> 0]} /\ UNCHANGED <<mem, meta>>
      \/ Seed(list) /\ UNCHANGED <<mem, disk>>
  BY <1>2 DEF Fill, Saves
<1>5. taint[r] \/ \A n \in Names : list.epoch >= settled[n]
  BY <1>1, <1>3 DEF SInv, CarriesNew
<1> HIDE DEF list
<1>6. /\ settled' = settled
      /\ \A n \in Names : AsNew(mem, n) /\ AsNew(disk, n) /\ AsNew(meta[n], n)
  BY <1>1 DEF SInv, StoresNew, dropping
<1>7. CarriesNew(r)'
  BY <1>1, <1>6 DEF SInv, CarriesNew
<1>8. /\ mem' = mem \/ (taint[r] => Dirty(mem)')
      /\ disk' = disk \/ (taint[r] => Dirty(disk)')
      /\ \A n \in Names : meta'[n] = meta[n] \/ (taint[r] => Dirty(meta'[n]))
      /\ StoresNew'
  <2>1. CASE mem' = [list |-> list, held |-> FirstHeld(list)] /\ UNCHANGED <<disk, meta>>
    <3>1. mem'.list = list
      BY <2>1
    <3> QED BY <1>3, <1>5, <1>6, <2>1, <3>1 DEF StoresNew, AsNew, Dirty
  <2>2. CASE disk' \in {disk, [list |-> list, held |-> 0]} /\ UNCHANGED <<mem, meta>>
    <3>1. disk' = disk \/ disk'.list = list
      BY <2>2
    <3> QED BY <1>3, <1>5, <1>6, <2>2, <3>1 DEF StoresNew, AsNew, Dirty
  <2>3. CASE Seed(list) /\ UNCHANGED <<mem, disk>>
    <3>1. ASSUME NEW n \in Names
          PROVE  meta'[n] = meta[n] \/ meta'[n].list = Lookup(list, n)
      BY <2>3 DEF Seed
    <3>2. ASSUME NEW n \in Names
          PROVE  /\ meta'[n] = meta[n] \/ (taint[r] => Dirty(meta'[n]))
                 /\ AsNew(meta'[n], n)
      <4>1. /\ Lookup(list, n).epoch = list.epoch
            /\ Lookup(list, n).tainted = taint[r]
        BY <1>3, Lookups
      <4> QED BY <1>5, <1>6, <3>1, <4>1 DEF AsNew, Dirty
    <3> QED BY <1>6, <2>3, <3>2 DEF StoresNew, AsNew, Dirty
  <2> QED BY <1>4, <2>1, <2>2, <2>3
<1> QED BY <1>1, <1>7, <1>8, StoreNew

LEMMA ConcludeNew == ASSUME SInv, IInv', NEW r \in Fillers, Conclude(r) PROVE SInv'
<1> DEFINE list == [got[r] EXCEPT !.tainted = taint[r]]
           seen == Lookup(list, want[r])
<1>1. pc[r] = "conclude" /\ want[r] \in Names /\ got[r] \in Listing /\ taint[r] \in BOOLEAN
  BY DEF Conclude, SInv, IInv, TypeOK, Holds
<1>2. /\ meta' = [meta EXCEPT ![want[r]] = [list |-> seen, held |-> 0]]
      /\ got' = [got EXCEPT ![r] = seen]
      /\ pc' = [pc EXCEPT ![r] = "answer"]
      /\ UNCHANGED <<bucket, epoch, mem, disk, want, todo, taint, floor, dropping>>
  BY DEF Conclude
<1>3. list \in Listing /\ list.epoch = got[r].epoch /\ list.tainted = taint[r]
  BY <1>1, Marked
<1> HIDE DEF list
<1>4. seen.epoch = got[r].epoch /\ seen.tainted = taint[r]
  BY <1>1, <1>3, Lookups
<1> HIDE DEF seen
<1>5. taint[r] \/ \A n \in Names : seen.epoch >= settled[n]
  BY <1>1, <1>4 DEF SInv, CarriesNew
<1>6. /\ pc'[r] = "answer" /\ got'[r] = seen
      /\ \A x \in Fillers \ {r} : pc'[x] = pc[x] /\ got'[x] = got[x]
      /\ meta'[want[r]].list = seen
      /\ \A n \in Names \ {want[r]} : meta'[n] = meta[n]
  BY <1>1, <1>2 DEF SInv, IInv, TypeOK
<1>7. /\ settled' = settled /\ taint' = taint
      /\ \A n \in Names : AsNew(mem, n) /\ AsNew(disk, n) /\ AsNew(meta[n], n)
  BY <1>2 DEF SInv, StoresNew, dropping
<1>8. CarriesNew(r)'
  BY <1>5, <1>6, <1>7 DEF CarriesNew
<1>9. ASSUME NEW n \in Names
      PROVE  /\ meta'[n] = meta[n] \/ (taint[r] => Dirty(meta'[n]))
             /\ AsNew(meta'[n], n)
  <2>1. meta'[n] = meta[n] \/ meta'[n].list = seen
    BY <1>6
  <2> QED BY <1>4, <1>5, <1>7, <2>1 DEF AsNew, Dirty
<1>10. StoresNew'
  BY <1>2, <1>7, <1>9 DEF StoresNew, AsNew, Dirty
<1> QED BY <1>1, <1>2, <1>6, <1>8, <1>9, <1>10, StoreNew

\* Each order of clearing has all that holds the name the change is about.
Covers(stores, what) ==
    LET has(s) == \E i \in 1..Len(stores) : stores[i] = s
    IN  /\ has("mem") /\ has("disk")
        /\ has("own") \/ has("subtree")
        /\ has("own") => what # Whole

LEMMA OrdersCover ==
    /\ \A n \in Names : Covers(AfterUpload, n) /\ Covers(AfterDelete, n)
    /\ Covers(AfterPush, Whole)
<1>1. ASSUME NEW n \in Names PROVE Covers(AfterUpload, n) /\ Covers(AfterDelete, n)
  <2>1. n # Whole
    BY ConstantTypes
  <2>2. /\ Len(AfterUpload) = 4 /\ Len(AfterDelete) = 4
        /\ AfterUpload[1] = "own" /\ AfterUpload[2] = "mem" /\ AfterUpload[3] = "disk"
        /\ AfterDelete[1] = "mem" /\ AfterDelete[2] = "disk" /\ AfterDelete[4] = "own"
        /\ {1, 2, 3, 4} \subseteq 1..4
    BY DEF AfterUpload, AfterDelete
  <2> QED BY <2>1, <2>2 DEF Covers
<1>2. /\ Len(AfterPush) = 3 /\ {1, 2, 3} = 1..3
      /\ AfterPush[1] = "mem" /\ AfterPush[2] = "subtree" /\ AfterPush[3] = "disk"
  BY DEF AfterPush
<1>3. Covers(AfterPush, Whole)
  BY <1>2 DEF Covers
<1> QED BY <1>1, <1>3

LEMMA StartsNew ==
    ASSUME SInv, IInv', NEW d \in Droppers, NEW what \in Names \cup {Whole}, NEW at \in Nat,
           NEW stores \in Seq(Stages), Starts(d, what, at, stores), Covers(stores, what),
           epoch' >= epoch, at <= epoch'
    PROVE  SInv'
<1>1. /\ drop' = [drop EXCEPT ![d] = stores] /\ target' = [target EXCEPT ![d] = what]
      /\ since' = [since EXCEPT ![d] = at]
      /\ taint' = [r \in Fillers |-> taint[r] \/ pc[r] # "idle"]
      /\ UNCHANGED <<caches, pc, want, got, todo, floor, settled>>
  BY DEF Starts
<1>2. /\ drop'[d] = stores /\ target'[d] = what /\ since'[d] = at
      /\ \A x \in Droppers \ {d} : drop'[x] = drop[x] /\ target'[x] = target[x] /\ since'[x] = since[x]
  BY <1>1 DEF SInv, IInv, TypeOK
<1>3. epoch \in Nat /\ epoch' \in Nat
  <2>1. epoch' \in Epochs
    BY DEF IInv, TypeOK
  <2> QED BY <2>1, ConstantTypes, Numbers DEF SInv
<1>4. Bounds'
  <2>1. ASSUME NEW n \in Names PROVE settled[n] <= epoch'
    BY <1>3, Numbers DEF SInv, Bounds
  <2> QED BY <1>1, <2>1 DEF SInv, Bounds
<1>5. StoresNew'
  BY <1>1 DEF SInv, StoresNew, AsNew, Dirty, caches
<1>6. \A r \in Fillers : CarriesNew(r)'
  BY <1>1 DEF SInv, CarriesNew
<1>7. \A r \in Fillers : pc'[r] # "idle" => taint'[r]
  BY <1>1
<1>8. ASSUME NEW x \in Droppers PROVE Clearing(x)'
  <2>1. CASE x = d
    <3>1. Still(d, "mem")' /\ Still(d, "disk")' /\ (Still(d, "own")' \/ Still(d, "subtree")')
          /\ (Still(d, "own")' => target'[d] # Whole)
      BY <1>2 DEF Still, Covers
    <3> QED BY <1>2, <1>7, <2>1, <3>1 DEF Clearing
  <2>2. CASE x # d
    <3> SUFFICES ASSUME Dropping(x)' PROVE Clearing(x)'
      BY DEF Clearing
    <3>1. Dropping(x) /\ Clearing(x)
      BY <1>2, <2>2 DEF Dropping, SInv
    <3>2. since'[x] <= epoch'
      BY <1>2, <1>3, <2>2, <3>1, Numbers DEF Clearing, SInv
    <3>3. \A s : Still(x, s)' <=> Still(x, s)
      BY <1>2, <2>2 DEF Still
    <3> QED BY <1>1, <1>2, <1>7, <2>2, <3>1, <3>2, <3>3 DEF Clearing, Dirty, caches
  <2> QED BY <2>1, <2>2
<1> QED BY <1>4, <1>5, <1>6, <1>8 DEF SInv

LEMMA BeginsNew ==
    ASSUME SInv, IInv', NEW d \in Droppers,
           LocalUpload(d) \/ LocalDelete(d) \/ Pushed(d) \/ Command(d)
    PROVE  SInv'
<1>1. CASE LocalUpload(d) \/ LocalDelete(d)
  <2>1. PICK n \in Names, stores \in Seq(Stages) :
            Changed(n) /\ Starts(d, n, epoch + 1, stores) /\ Covers(stores, n)
    BY <1>1, Orders, OrdersCover DEF LocalUpload, LocalDelete
  <2>2. epoch' = epoch + 1 /\ epoch \in Nat
    BY <2>1, ChangedTypes DEF SInv
  <2> QED BY <2>1, <2>2, StartsNew
<1>2. CASE Pushed(d) \/ Command(d)
  <2>1. Starts(d, Whole, epoch, AfterPush) /\ epoch' = epoch /\ epoch \in Nat
    BY <1>2, Numbers DEF Pushed, Command, SInv
  <2> QED BY <2>1, Orders, OrdersCover, StartsNew
<1> QED BY <1>1, <1>2

LEMMA RemoteNew == ASSUME SInv, IInv', RemoteChange PROVE SInv'
<1>1. epoch' >= epoch /\ epoch \in Nat /\ epoch' \in Nat /\ UNCHANGED <<caches, filling, dropping>>
  BY ChangedTypes DEF RemoteChange, SInv
<1>2. ASSUME NEW n \in Names PROVE settled[n] <= epoch'
  BY <1>1, Numbers DEF SInv, Bounds
<1>3. Bounds'
  BY <1>1, <1>2 DEF SInv, Bounds, filling, dropping
<1>4. StoresNew' /\ \A r \in Fillers : CarriesNew(r)'
  BY <1>1 DEF SInv, StoresNew, AsNew, Dirty, CarriesNew, caches, filling, dropping
<1>5. ASSUME NEW d \in Droppers PROVE Clearing(d)'
  <2>1. Clearing(d)
    BY DEF SInv
  <2>2. Dropping(d) => since[d] <= epoch'
    BY <1>1, <2>1, Numbers DEF SInv, Clearing
  <2> QED BY <1>1, <2>1, <2>2 DEF Clearing, Dropping, Still, Dirty, caches, filling, dropping
<1> QED BY <1>3, <1>4, <1>5 DEF SInv

\* What a dropper has cleared after a step, and that no entry becomes clean by it.
LEMMA Cleared ==
    ASSUME SInv, NEW d \in Droppers, Drop(d)
    PROVE  /\ ~Still(d, "mem")' => Dirty(mem)'
           /\ ~Still(d, "disk")' => Dirty(disk)'
           /\ ~Still(d, "own")' /\ ~Still(d, "subtree")' =>
                 \A n \in Names : target[d] \in {n, Whole} => Dirty(meta'[n])
           /\ Still(d, "own")' => target[d] # Whole
<1>1. /\ Dropping(d) /\ drop[d] # <<>> /\ drop[d] \in Seq(Stages) /\ Clearing(d)
      /\ drop' = [drop EXCEPT ![d] = Tail(@)]
      /\ mem' = IF Head(drop[d]) = "mem" THEN None ELSE mem
      /\ disk' \in IF Head(drop[d]) = "disk" THEN Removed ELSE {disk}
      /\ meta' = [n \in Names |-> IF Gone(d, n) THEN None ELSE meta[n]]
  BY DEF Drop, Dropping, SInv, IInv, TypeOK, Stages
<1>2. drop'[d] = Tail(drop[d])
  BY <1>1 DEF SInv, IInv, TypeOK
<1>3. /\ Head(drop[d]) = drop[d][1] /\ Len(Tail(drop[d])) = Len(drop[d]) - 1 /\ Len(drop[d]) \in Nat
      /\ \A i \in 1..Len(Tail(drop[d])) : /\ Tail(drop[d])[i] = drop[d][i + 1]
                                          /\ i + 1 \in 1..Len(drop[d])
  BY <1>1, HeadAndTail
<1>4. ASSUME NEW s, Still(d, s)' PROVE Still(d, s)
  BY <1>2, <1>3, <1>4 DEF Still
<1>5. ASSUME NEW s, ~Still(d, s)', Head(drop[d]) # s PROVE ~Still(d, s)
  <2> SUFFICES ASSUME NEW i \in 1..Len(drop[d]), drop[d][i] = s PROVE FALSE
    BY DEF Still
  <2>1. i # 1 /\ i - 1 \in 1..Len(Tail(drop[d])) /\ (i - 1) + 1 = i
    BY <1>3, <1>5
  <2>2. Tail(drop[d])[i - 1] = s
    BY <1>3, <2>1
  <2> QED BY <1>2, <1>5, <2>1, <2>2 DEF Still
<1>6. ~Still(d, "mem")' => Dirty(mem)'
  BY <1>1, <1>5 DEF Clearing, Dirty
<1>7. ~Still(d, "disk")' => Dirty(disk)'
  BY <1>1, <1>5, Removals DEF SInv, Clearing, Dirty
<1>8. ASSUME ~Still(d, "own")', ~Still(d, "subtree")', NEW n \in Names, target[d] \in {n, Whole}
      PROVE  Dirty(meta'[n])
  <2>1. meta'[n] = None \/ (~Gone(d, n) /\ meta'[n] = meta[n])
    <3>1. meta'[n] = IF Gone(d, n) THEN None ELSE meta[n]
      BY <1>1
    <3>2. CASE Gone(d, n)
      BY <3>1, <3>2
    <3>3. CASE ~Gone(d, n)
      BY <3>1, <3>3
    <3> QED BY <3>2, <3>3
  <2>2. CASE ~Still(d, "own") /\ ~Still(d, "subtree")
    BY <1>1, <1>8, <2>1, <2>2 DEF Clearing, Dirty
  <2>3. CASE Head(drop[d]) = "subtree"
    BY <2>1, <2>3 DEF Gone, Dirty
  <2>4. CASE Head(drop[d]) = "own"
    <3>1. Still(d, "own")
      <4>1. 1 \in 1..Len(drop[d])
        BY <1>1, HeadAndTail
      <4> QED BY <1>3, <2>4, <4>1 DEF Still
    <3>2. target[d] = n
      BY <1>1, <1>8, <3>1 DEF Clearing
    <3> QED BY <2>1, <2>4, <3>2 DEF Gone, Dirty
  <2> QED BY <1>5, <1>8, <2>2, <2>3, <2>4
<1>9. Still(d, "own")' => target[d] # Whole
  BY <1>1, <1>4 DEF Clearing
<1> QED BY <1>6, <1>7, <1>8, <1>9

LEMMA DropNew == ASSUME SInv, IInv', NEW d \in Droppers, Drop(d) PROVE SInv'
<1>1. /\ Dropping(d) /\ drop[d] # <<>> /\ drop[d] \in Seq(Stages) /\ Clearing(d)
      /\ drop' = [drop EXCEPT ![d] = Tail(@)]
      /\ UNCHANGED <<bucket, epoch, filling>>
  BY DEF Drop, Dropping, SInv, IInv, TypeOK, Stages
<1>2. /\ drop'[d] = Tail(drop[d])
      /\ \A x \in Droppers \ {d} : drop'[x] = drop[x] /\ target'[x] = target[x] /\ since'[x] = since[x]
  BY <1>1 DEF Drop, SInv, IInv, TypeOK
<1>3. /\ mem' = mem \/ mem' = None
      /\ disk' = disk \/ Dirty(disk')
      /\ \A n \in Names : meta'[n] = meta[n] \/ meta'[n] = None
  BY Removals DEF Drop, SInv, Dirty
<1>4. /\ Dirty(mem) => Dirty(mem)'
      /\ Dirty(disk) => Dirty(disk)'
      /\ \A n \in Names : Dirty(meta[n]) => Dirty(meta'[n])
  BY <1>3 DEF Dirty
<1>5. ASSUME NEW x \in Droppers \ {d} PROVE Clearing(x)'
  <2> SUFFICES ASSUME Dropping(x)' PROVE Clearing(x)'
    BY DEF Clearing
  <2>1. Dropping(x) /\ Clearing(x)
    BY <1>2 DEF Dropping, SInv
  <2>2. \A s : Still(x, s)' <=> Still(x, s)
    BY <1>2 DEF Still
  <2>3. \A r \in Fillers : pc'[r] # "idle" => taint'[r]
    BY <1>1, <2>1 DEF Clearing, filling
  <2>4. target'[x] = target[x] /\ since'[x] = since[x] /\ epoch' = epoch
    BY <1>1, <1>2
  <2> QED BY <1>4, <2>1, <2>2, <2>3, <2>4 DEF Clearing
<1>6. CASE Len(drop[d]) > 1
  <2>1. settled' = settled /\ target' = target /\ since' = since
    BY <1>6 DEF Drop
  <2>2. Bounds' /\ \A r \in Fillers : CarriesNew(r)'
    BY <1>1, <2>1 DEF SInv, Bounds, CarriesNew, filling
  <2>3. StoresNew'
    BY <1>3, <2>1 DEF SInv, StoresNew, AsNew, Dirty
  <2>4. Clearing(d)'
    <3>1. /\ since'[d] <= epoch' /\ \A r \in Fillers : pc'[r] # "idle" => taint'[r]
      BY <1>1, <2>1 DEF Clearing, filling
    <3> QED BY <2>1, <3>1, Cleared DEF Clearing
  <2> QED BY <1>5, <2>2, <2>3, <2>4 DEF SInv
<1>7. CASE ~(Len(drop[d]) > 1)
  <2>1. Tail(drop[d]) = <<>>
    <3>1. Len(Tail(drop[d])) = Len(drop[d]) - 1 /\ 1 \in 1..Len(drop[d]) /\ Len(drop[d]) \in Nat
          /\ Tail(drop[d]) \in Seq(Stages)
      BY <1>1, HeadAndTail
    <3>2. ASSUME NEW k \in Nat, 1 \in 1..k, ~(k > 1) PROVE k - 1 = 0
      BY <3>2
    <3>3. Len(Tail(drop[d])) = 0
      BY <1>7, <3>1, <3>2
    <3> QED BY <3>1, <3>3, EmptySeq
  <2>2. \A s : ~Still(d, s)'
    <3>1. drop'[d] = <<>>
      BY <1>2, <2>1
    <3>2. 1..Len(<<>>) = {}
      OBVIOUS
    <3> QED BY <3>1, <3>2 DEF Still
  <2>3. Clearing(d)'
    BY <1>2, <2>1 DEF Clearing, Dropping
  <2>4. settled' = [n \in Names |-> IF target[d] \in {n, Whole} /\ since[d] > settled[n]
                                    THEN since[d] ELSE settled[n]]
    BY <1>7 DEF Drop
  <2>5. /\ since[d] <= epoch
        /\ \A r \in Fillers : pc[r] # "idle" => taint[r]
    BY <1>1 DEF Clearing
  <2>6. Bounds'
    <3>1. ASSUME NEW n \in Names
          PROVE  settled'[n] <= epoch /\ settled[n] <= settled'[n] /\ settled'[n] \in Nat
      BY <2>4, <2>5, Numbers DEF SInv, Bounds
    <3>2. ASSUME NEW n \in Names, NEW r \in Fillers PROVE floor[r][n] <= settled'[n]
      BY <3>1, Numbers DEF SInv, Bounds
    <3> QED BY <1>1, <3>1, <3>2 DEF Bounds, filling
  <2>7. \A r \in Fillers : CarriesNew(r)'
    BY <1>1, <2>5 DEF CarriesNew, filling
  <2>8. ASSUME NEW n \in Names
        PROVE  AsNew(mem, n)' /\ AsNew(disk, n)' /\ AsNew(meta[n], n)'
    <3>1. CASE target[d] \in {n, Whole}
      BY <2>2, <3>1, Cleared DEF AsNew, Dirty
    <3>2. CASE target[d] \notin {n, Whole}
      <4>1. settled'[n] = settled[n]
        BY <2>4, <3>2
      <4> QED BY <1>3, <4>1 DEF SInv, StoresNew, AsNew, Dirty
    <3> QED BY <3>1, <3>2
  <2>9. StoresNew'
    BY <2>8 DEF StoresNew
  <2> QED BY <1>5, <2>3, <2>6, <2>7, <2>9 DEF SInv
<1> QED BY <1>6, <1>7

LEMMA TickNew == ASSUME SInv, IInv', Tick PROVE SInv'
<1>1. /\ mem' = Older(mem, MemTTL) /\ disk' = Older(disk, DiskTTL)
      /\ meta' = [n \in Names |-> Older(meta[n], MemTTL)]
      /\ UNCHANGED <<bucket, epoch, filling, dropping>>
  BY DEF Tick
<1>2. ASSUME NEW S \in {Listing, Found}, NEW t \in Nat, NEW e \in Held(S, t), e # None
      PROVE  Older(e, t).list.epoch = e.list.epoch /\ Older(e, t).list.tainted = e.list.tainted
  <2>1. e.list \in Listing \/ e.list \in Found
    BY <1>2, Entries
  <2>2. Older(e, t).list = [e.list EXCEPT !.age = IF e.list.age < AgeCap THEN e.list.age + 1
                                                 ELSE e.list.age]
    BY <1>2 DEF Older
  <2>3. ASSUME NEW a, NEW l \in Listing \cup Found
        PROVE  [l EXCEPT !.age = a].epoch = l.epoch /\ [l EXCEPT !.age = a].tainted = l.tainted
    BY DEF Listing, Found
  <2> QED BY <2>1, <2>2, <2>3
<1>3. /\ mem \in Held(Listing, MemTTL) /\ disk \in Held(Listing, DiskTTL)
      /\ \A n \in Names : meta[n] \in Held(Found, MemTTL)
      /\ MemTTL \in Nat /\ DiskTTL \in Nat
  BY ConstantTypes DEF SInv, IInv, TypeOK
<1>4. ASSUME NEW S \in {Listing, Found}, NEW t \in Nat, NEW e \in Held(S, t)
      PROVE  /\ Dirty(e) => Dirty(Older(e, t))
             /\ \A n \in Names : AsNew(e, n) => AsNew(Older(e, t), n)
  <2>1. CASE e = None
    BY <2>1 DEF Older, Dirty, AsNew
  <2>2. CASE e # None
    BY <1>2, <2>2 DEF Dirty, AsNew
  <2> QED BY <2>1, <2>2
<1>5. /\ Dirty(mem) => Dirty(mem)'
      /\ Dirty(disk) => Dirty(disk)'
      /\ \A n \in Names : Dirty(meta[n]) => Dirty(meta'[n])
  <2>1. (Dirty(mem) => Dirty(mem')) /\ (Dirty(disk) => Dirty(disk'))
    BY <1>1, <1>3, <1>4
  <2>2. \A n \in Names : Dirty(meta[n]) => Dirty(meta'[n])
    BY <1>1, <1>3, <1>4
  <2> QED BY <2>1, <2>2 DEF Dirty
<1>6. \A n \in Names : AsNew(mem', n) /\ AsNew(disk', n) /\ AsNew(meta'[n], n)
  BY <1>1, <1>3, <1>4 DEF SInv, StoresNew
<1>7. StoresNew'
  BY <1>1, <1>6 DEF StoresNew, AsNew, Dirty, dropping
<1>8. Bounds' /\ \A r \in Fillers : CarriesNew(r)'
  BY <1>1 DEF SInv, Bounds, CarriesNew, filling, dropping
<1>9. ASSUME NEW d \in Droppers PROVE Clearing(d)'
  <2> SUFFICES ASSUME Dropping(d)' PROVE Clearing(d)'
    BY DEF Clearing
  <2>1. /\ drop' = drop /\ target' = target /\ since' = since /\ epoch' = epoch
        /\ pc' = pc /\ taint' = taint
    BY <1>1 DEF filling, dropping
  <2>2. Dropping(d) /\ Clearing(d)
    BY <2>1 DEF Dropping, SInv
  <2>3. \A s : Still(d, s)' <=> Still(d, s)
    BY <2>1 DEF Still
  <2> QED BY <1>5, <2>1, <2>2, <2>3 DEF Clearing
<1> QED BY <1>7, <1>8, <1>9 DEF SInv

LEMMA RestartNew == ASSUME SInv, IInv', Restart PROVE SInv'
<1>1. Bounds'
  <2>1. \A n \in Names : settled[n] \in Nat
    BY Numbers DEF SInv
  <2> QED BY <2>1 DEF SInv, Bounds, Restart, Unsettled
<1>2. StoresNew'
  BY DEF SInv, StoresNew, AsNew, Dirty, Restart
<1>3. (\A r \in Fillers : CarriesNew(r)') /\ \A d \in Droppers : Clearing(d)'
  BY DEF CarriesNew, Clearing, Dropping, Restart
<1> QED BY <1>1, <1>2, <1>3 DEF SInv

LEMMA SettledNext == SInv /\ [Next]_vars => SInv'
<1> SUFFICES ASSUME SInv, [Next]_vars PROVE SInv'
  OBVIOUS
<1>1. IInv'
  BY AgesNext DEF SInv
<1>2. ASSUME NEW r \in Fillers, FillerStep(r) PROVE SInv'
  BY <1>1, <1>2, ReadNew, CallNew, FillNew, ConcludeNew DEF FillerStep
<1>3. ASSUME NEW d \in Droppers, DropperStep(d) PROVE SInv'
  BY <1>1, <1>3, BeginsNew, DropNew DEF DropperStep
<1>4. CASE UNCHANGED vars
  <2>1. UNCHANGED <<bucket, epoch, caches, filling, dropping>>
    BY <1>4 DEF vars
  <2>2. Bounds' /\ StoresNew' /\ \A r \in Fillers : CarriesNew(r)'
    BY <2>1 DEF SInv, Bounds, StoresNew, AsNew, Dirty, CarriesNew, caches, filling, dropping
  <2>3. \A d \in Droppers : Clearing(d)'
    BY <2>1 DEF SInv, Clearing, Dropping, Still, Dirty, caches, filling, dropping
  <2> QED BY <1>1, <2>2, <2>3 DEF SInv
<1> QED BY <1>1, <1>2, <1>3, <1>4, RemoteNew, TickNew, RestartNew DEF Next

\* A call that begins after an invalidation is done answers with what it is about, or
\* with something newer, whatever orders the droppers clear the stores in and whatever
\* fillers are at work, unless the answer comes from a filler that ran beside a dropper.
THEOREM SettledSeen == Spec => []SettledIsSeen
<1>1. SInv => SettledIsSeen
  <2> SUFFICES ASSUME SInv, NEW r \in Readers, pc[r] = "answer", ~taint[r],
                      NEW n \in Names, want[r] \in {n, Whole}
               PROVE  Shows(r, n)
    BY DEF SettledIsSeen
  <2>1. r \in Fillers
    BY DEF Fillers
  <2>2. got[r].epoch >= settled[n] /\ settled[n] >= floor[r][n]
    BY <2>1 DEF SInv, CarriesNew, Bounds
  <2>3. got[r].epoch \in Nat
    <3>1. got[r] \in Listing \cup Found
      BY <2>1 DEF SInv, IInv, Holds
    <3>2. got[r].epoch \in Epochs
      BY <3>1, ListingTypes
    <3> QED BY <3>2, ConstantTypes
  <2> QED BY <2>1, <2>2, <2>3, Numbers DEF Shows, SInv
<1> QED BY <1>1, InitNew, SettledNext, PTL DEF Spec
=============================================================================
