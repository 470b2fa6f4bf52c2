--------------------------- MODULE Settings_proofs ---------------------------
(***************************************************************************)
(* Proofs about Settings, for any keys, values and workers and any number  *)
(* of sets, flushes, edits and faults.                                     *)
(***************************************************************************)
EXTENDS Settings, TLAPS

(* Of the objects made so far only the current one is dirty or being       *)
(* saved, unless a worker set one that had been dropped.                   *)
OldInv ==
    ~outlived => \A o \in DOMAIN objects :
                    o # current => objects[o].step = "idle" /\ ~objects[o].dirty

TouchedInv == \A o \in DOMAIN objects : objects[o].touched => objects[o].dirty

(* The file or its copy is there as soon as there is an object, and the    *)
(* copy, with what the object has, while it is being saved.                *)
CopyInv ==
    ~outlived /\ ~unwritten =>
        /\ file = Absent /\ tmp = Absent => sets = 0 /\ objects = <<>>
        /\ \A o \in DOMAIN objects : objects[o].step # "idle" => tmp = objects[o].settings

(* A copy that could not be written is a fault, and a reload that has read *)
(* the file keeps flush_one() away from the current object.                *)
LockInv ==
    /\ unwritten => faults # 0
    /\ reloading # Absent => current # 0 /\ flushing = 0

Disk == IF file = Absent THEN Empty ELSE file

(* What was set is in the current object, and on the disk when nothing is  *)
(* left to save; while the object is saved the copy has what it has.       *)
LatestInv ==
    edits = 0 /\ faults = 0 /\ ~outlived /\ ~overtaken =>
        /\ current = 0 => Read(Disk) = latest
        /\ current # 0 =>
              /\ Read(objects[current].settings) = latest
              /\ objects[current].step = "idle" /\ ~objects[current].touched => Read(Disk) = latest
              /\ objects[current].step # "idle" => tmp = objects[current].settings

IInv == TypeOK /\ OldInv /\ TouchedInv /\ CopyInv /\ LockInv /\ LatestInv

-----------------------------------------------------------------------------
(* Operators *)

(* What was read, and saved, is read the same; and what reading makes of a *)
(* value that was set.                                                     *)
LEMMA ReadTwice ==
    /\ Empty \in Contents
    /\ Read(Empty) = Empty
    /\ \A c \in Contents : Read(c) \in Contents /\ Read(Read(c)) = Read(c)
<1>1. Empty \in Contents /\ Read(Empty) = Empty
  BY DEF Empty, Contents, Read, Trim
<1>2. \A v \in Values \cup {None} : Trim(v) \in Values \cup {None} /\ Trim(Trim(v)) = Trim(v)
  BY SettingsAssumption DEF Trim
<1>3. ASSUME NEW c \in Contents
      PROVE  Read(c) \in Contents /\ Read(Read(c)) = Read(c)
  <2>1. \A k \in Keys : c[k] \in Values \cup {None}
    BY DEF Contents
  <2> QED
    BY <1>2, <2>1 DEF Contents, Read
<1> QED
  BY <1>1, <1>3

(* Reading after one value was set differs in that value.                  *)
LEMMA ReadOfSet ==
    ASSUME NEW c \in Contents, NEW k \in Keys, NEW v
    PROVE  Read([c EXCEPT ![k] = v]) = [Read(c) EXCEPT ![k] = Trim(v)]
<1> DEFINE d == [c EXCEPT ![k] = v]
<1>1. d[k] = v /\ \A i \in Keys : i # k => d[i] = c[i]
  BY DEF Contents
<1>2. Read(d) = [i \in Keys |-> IF i = k THEN Trim(v) ELSE Trim(c[i])]
  <2> HIDE DEF d
  <2>1. \A i \in Keys : Trim(d[i]) = IF i = k THEN Trim(v) ELSE Trim(c[i])
    BY <1>1, Zenon
  <2> QED
    BY <2>1 DEF Read
<1>3. [Read(c) EXCEPT ![k] = Trim(v)] = [i \in Keys |-> IF i = k THEN Trim(v) ELSE Trim(c[i])]
  BY Zenon DEF Read
<1> QED
  BY <1>2, <1>3

(* A step on one object, o, that makes it r. *)
Becomes(o, r) ==
    /\ objects' \in Seq(Objects)
    /\ Len(objects') = Len(objects)
    /\ DOMAIN objects' = DOMAIN objects
    /\ objects'[o] = r
    /\ \A i \in DOMAIN objects : i # o => objects'[i] = objects[i]

(* Replacing one object leaves the others.                                 *)
LEMMA OneObject ==
    ASSUME objects \in Seq(Objects), NEW o \in DOMAIN objects, NEW r \in Objects,
           objects' = [objects EXCEPT ![o] = r]
    PROVE  Becomes(o, r)
<1>1. DOMAIN objects = 1 .. Len(objects) /\ Len(objects) \in Nat
  OBVIOUS
<1>2. \A i \in DOMAIN objects : objects[i] \in Objects
  OBVIOUS
<1>3. DOMAIN objects' = 1 .. Len(objects) /\ \A i \in 1 .. Len(objects) : objects'[i] \in Objects
  BY <1>1, <1>2
<1>4. objects' = [i \in 1 .. Len(objects) |-> objects'[i]]
  BY <1>1, Zenon
<1>5. objects' \in Seq(Objects)
  BY <1>1, <1>3, <1>4
<1>6. Len(objects') = Len(objects)
  BY <1>1, <1>3, <1>5
<1> QED
  BY <1>1, <1>3, <1>5, <1>6 DEF Becomes

(* A step that makes a new object, of what the file has. *)
Adds(c) ==
    /\ objects' \in Seq(Objects)
    /\ Len(objects') = Len(objects) + 1
    /\ objects'[Len(objects')].settings = Read(c)
    /\ objects'[Len(objects')].step = "idle"
    /\ ~objects'[Len(objects')].touched
    /\ \A i \in DOMAIN objects : objects'[i] = objects[i]

(* An object made of a file is one of the objects.                         *)
LEMMA NewObjectType ==
    ASSUME NEW c \in Contents, NEW d \in BOOLEAN
    PROVE  NewObject(Read(c), d) \in Objects
BY ReadTwice, Zenon DEF NewObject, Objects

(* loadSettingsPath() leaves the objects there are.                        *)
LEMMA OneMore ==
    ASSUME objects \in Seq(Objects), NEW c \in Contents, Load(c)
    PROVE  Adds(c)
<1>1. PICK d \in BOOLEAN : objects' = Append(objects, NewObject(Read(c), d))
  BY DEF Load
<1> DEFINE r == NewObject(Read(c), d)
<1>2. r \in Objects
  BY NewObjectType
<1>3. r.settings = Read(c) /\ r.step = "idle" /\ ~r.touched
  BY DEF NewObject
<1>4. objects' = Append(objects, r)
  BY <1>1
<1> HIDE DEF r
<1> QED
  BY <1>2, <1>3, <1>4 DEF Adds

-----------------------------------------------------------------------------
(* The inductive invariant *)

(* scandir(), at the start and after a crash. *)
LEMMA StartedFacts ==
    ASSUME file \in Contents \cup {Absent}, NEW objs, NEW cur, Started(objs, cur)
    PROVE  /\ objs \in Seq(Objects) /\ cur = Len(objs)
           /\ file = Absent => objs = <<>>
           /\ file # Absent => /\ Len(objs) = 1
                               /\ objs[1].step = "idle" /\ ~objs[1].touched
                               /\ objs[1].settings = Read(file)
<1>1. CASE file = Absent
  BY <1>1 DEF Started
<1>2. CASE file # Absent
  <2>1. PICK d \in BOOLEAN : objs = <<NewObject(Read(file), d)>>
    BY <1>2 DEF Started
  <2> DEFINE r == NewObject(Read(file), d)
  <2>2. r \in Objects
    BY <1>2, NewObjectType
  <2>3. r.settings = Read(file) /\ r.step = "idle" /\ ~r.touched
    BY DEF NewObject
  <2>4. objs = <<r>> /\ cur = 1
    BY <1>2, <2>1 DEF Started
  <2> HIDE DEF r
  <2> QED
    BY <1>2, <2>2, <2>3, <2>4
<1> QED
  BY <1>1, <1>2

(* The daemon starts with an empty file, or none. *)
LEMMA InitInv == Init => IInv
<1> SUFFICES ASSUME Init PROVE IInv
  OBVIOUS
<1>0. file \in Contents \cup {Absent} /\ Read(Disk) = Empty /\ Empty \in Contents
  BY ReadTwice DEF Init, Disk
<1>1. /\ objects \in Seq(Objects) /\ current = Len(objects)
      /\ file = Absent => objects = <<>>
      /\ file # Absent => /\ Len(objects) = 1
                          /\ objects[1].step = "idle" /\ ~objects[1].touched
                          /\ objects[1].settings = Read(file)
  BY <1>0, StartedFacts DEF Init
<1>2. file # Absent => Read(file) = Empty
  BY <1>0 DEF Disk
<1>3. Read(Empty) = Empty
  BY ReadTwice
<1>4. TypeOK
  <2>1. outlived \in BOOLEAN /\ overtaken \in BOOLEAN /\ unwritten \in BOOLEAN
    BY Zenon DEF Init
  <2>2. Len(objects) \in Nat /\ workers \in [Workers -> DOMAIN objects \cup {None}]
    BY <1>1 DEF Init
  <2> QED
    BY <1>0, <1>1, <2>1, <2>2 DEF Init, TypeOK
<1>5. OldInv /\ TouchedInv /\ CopyInv /\ LockInv
  BY <1>1 DEF Init, OldInv, TouchedInv, CopyInv, LockInv
<1>6. LatestInv
  BY <1>0, <1>1, <1>2, <1>3 DEF Init, LatestInv
<1> QED
  BY <1>4, <1>5, <1>6 DEF IInv

(* What the inductive invariant says of one object. *)
LEMMA ObjectFacts ==
    ASSUME IInv, NEW o \in DOMAIN objects
    PROVE  /\ objects \in Seq(Objects) /\ objects[o] \in Objects
           /\ objects[o].settings \in Contents
           /\ objects[o].touched => objects[o].dirty
           /\ o \in 1 .. Len(objects) /\ Len(objects) \in Nat
           /\ ~outlived /\ (objects[o].step # "idle" \/ objects[o].dirty) => o = current
<1>1. objects \in Seq(Objects)
  BY DEF IInv, TypeOK
<1>2. objects[o] \in Objects /\ o \in 1 .. Len(objects) /\ Len(objects) \in Nat
  BY <1>1
<1>3. objects[o].settings \in Contents
  BY <1>2 DEF Objects
<1>4. objects[o].touched => objects[o].dirty
  BY DEF IInv, TouchedInv
<1>5. ~outlived /\ (objects[o].step # "idle" \/ objects[o].dirty) => o = current
  BY DEF IInv, OldInv
<1> QED
  BY <1>1, <1>2, <1>3, <1>4, <1>5

(* open() and reloadSettings() make an object of the file when there is no *)
(* current one.                                                            *)
LEMMA LoadKeeps ==
    ASSUME IInv, current = 0, NEW c \in Contents, file # Absent => c = file,
           file = Absent => c = Empty, file' = c, Load(c), current' = Len(objects'),
           flushing = 0, flushing' = 0, tmp' = tmp, sets' = sets, edits' = edits, faults' = faults,
           outlived' = outlived, overtaken' = overtaken, unwritten' = unwritten,
           reloading' = reloading, flushes' \in Nat,
           workers' \in [Workers -> DOMAIN objects' \cup {None}],
           latest' = latest \/ (file # Absent /\ latest' = Merged(file, latest))
    PROVE  IInv'
<1>1. Adds(c)
  BY OneMore DEF IInv, TypeOK
<1>2. DOMAIN objects = 1 .. Len(objects) /\ Len(objects) \in Nat
  BY DEF IInv, TypeOK
<1>3. DOMAIN objects' = 1 .. Len(objects) + 1 /\ current' = Len(objects) + 1
  BY <1>1, <1>2 DEF Adds
<1>4. latest' \in Contents
  <2>1. CASE latest' = latest
    BY <2>1 DEF IInv, TypeOK
  <2>2. CASE file # Absent /\ latest' # latest
    <3>1. file \in Contents /\ latest \in Contents
      BY <2>2 DEF IInv, TypeOK
    <3>2. Read(file) \in Contents
      BY <3>1, ReadTwice
    <3>3. \A k \in Keys : Trim(file[k]) \in Values \cup {None} /\ latest[k] \in Values \cup {None}
      BY <3>1, <3>2 DEF Contents, Read
    <3> QED
      BY <2>2, <3>3 DEF Contents, Merged
  <2> QED
    BY <2>1, <2>2
<1>5. TypeOK'
  BY <1>1, <1>2, <1>3, <1>4 DEF Adds, IInv, TypeOK
<1>6. OldInv'
  BY <1>1, <1>2, <1>3 DEF Adds, IInv, OldInv
<1>7. TouchedInv'
  BY <1>1, <1>2, <1>3 DEF Adds, IInv, TouchedInv
<1>8. CopyInv'
  <2>1. c # Absent
    BY SettingsAssumption DEF Contents
  <2> QED
    BY <1>1, <1>2, <1>3, <2>1 DEF Adds, IInv, OldInv, CopyInv
<1>10. LockInv'
  BY <1>2, <1>3 DEF IInv, LockInv
<1>9. LatestInv'
  <2> SUFFICES ASSUME edits = 0, faults = 0, ~outlived, ~overtaken
               PROVE  /\ Read(objects'[current'].settings) = latest'
                      /\ objects'[current'].step = "idle"
                      /\ Read(Disk') = latest'
    BY <1>2, <1>3 DEF LatestInv
  <2>1. Read(c) = latest
    BY DEF IInv, LatestInv, Disk
  <2>2. latest' = latest
    BY <2>1 DEF Read, IInv, TypeOK, Contents, Trim, Merged
  <2>3. Read(Disk') = latest
    BY <2>1, SettingsAssumption DEF Disk, Contents
  <2>4. Read(objects'[current'].settings) = latest /\ objects'[current'].step = "idle"
    BY <1>1, <2>1, ReadTwice DEF Adds
  <2> QED
    BY <2>2, <2>3, <2>4
<1> QED
  BY <1>5, <1>6, <1>7, <1>8, <1>9, <1>10 DEF IInv

(* save() of an object that is not dirty, or its first part: nothing that  *)
(* was set is lost, and the copy is complete.                              *)
LEMMA BeginKeeps ==
    ASSUME IInv, NEW o \in DOMAIN objects, NEW r \in Objects, Becomes(o, r),
           objects[o].step = "idle", r.settings = objects[o].settings,
           r.dirty = objects[o].dirty, r.touched = objects[o].touched, file' = file,
           \/ objects[o].dirty /\ r.step = "written" /\ WriteCopy(objects[o].settings)
           \/ ~objects[o].dirty /\ r.step = "idle" /\ UNCHANGED <<tmp, faults, unwritten>>,
           \/ current' = current
           \/ o = current /\ ~objects[o].dirty /\ current' = 0,
           flushing' \in {0, current'}, flushes' \in Nat,
           reloading' = reloading, reloading = Absent \/ UNCHANGED <<current, flushing>>,
           workers' = workers, sets' = sets, edits' = edits,
           latest' = latest, outlived' = outlived, overtaken' = overtaken
    PROVE  IInv'
<1>1. /\ objects \in Seq(Objects) /\ objects[o].settings \in Contents
      /\ objects[o].touched => objects[o].dirty
      /\ o \in 1 .. Len(objects) /\ Len(objects) \in Nat
      /\ ~outlived /\ objects[o].dirty => o = current
  BY ObjectFacts
<1>7. /\ tmp' \in Contents \cup {Absent} /\ faults' \in Nat /\ unwritten' \in BOOLEAN
      /\ unwritten' => faults' # 0
      /\ faults' = 0 => faults = 0
      /\ ~unwritten' => ~unwritten
      /\ objects[o].dirty /\ (~unwritten' \/ faults' = 0) => tmp' = objects[o].settings
  <2>1. tmp \in Contents \cup {Absent} /\ faults \in Nat /\ unwritten \in BOOLEAN /\ (unwritten => faults # 0)
    BY DEF IInv, TypeOK, LockInv
  <2>2. CASE UNCHANGED <<faults, unwritten>> /\ (tmp' = objects[o].settings \/ (~objects[o].dirty /\ tmp' = tmp))
    BY <1>1, <2>1, <2>2
  <2>3. CASE faults' = faults + 1 /\ unwritten' = TRUE /\ tmp' \in Contents \cup {Absent}
    BY <2>1, <2>3
  <2>4. \A kept \in SUBSET Keys :
            [k \in Keys |-> IF k \in kept THEN objects[o].settings[k] ELSE None] \in Contents
    BY <1>1 DEF Contents
  <2> QED
    BY <2>1, <2>2, <2>3, <2>4, Zenon DEF WriteCopy
<1>2. TypeOK'
  BY <1>1, <1>7 DEF Becomes, IInv, TypeOK
<1>3. OldInv'
  BY <1>1 DEF Becomes, IInv, OldInv
<1>4. TouchedInv'
  BY <1>1 DEF Becomes, IInv, TouchedInv
<1>5. CopyInv'
  <2> SUFFICES ASSUME ~outlived, ~unwritten' PROVE CopyInv'
    BY DEF CopyInv
  <2>1. ~unwritten /\ (tmp' = tmp \/ (objects[o].dirty /\ tmp' = objects[o].settings))
    <3>1. CASE objects[o].dirty
      BY <1>7, <3>1
    <3>2. CASE ~objects[o].dirty
      <4>1. UNCHANGED <<tmp, faults, unwritten>>
        BY <3>2
      <4>2. ~unwritten' => ~unwritten
        BY <1>7
      <4> QED
        BY <4>1, <4>2
    <3> QED
      BY <3>1, <3>2
  <2>2. (objects # <<>> /\ tmp' = tmp) \/ tmp' # Absent
    BY <1>1, <2>1, SettingsAssumption DEF Contents
  <2>3. ~(file = Absent /\ tmp = Absent)
    BY <1>1, <2>1 DEF IInv, CopyInv
  <2>4. ASSUME NEW i \in DOMAIN objects, objects'[i].step # "idle"
        PROVE  tmp' = objects'[i].settings
    <3>1. CASE i = o
      <4>1. objects'[o] = r
        BY <1>1 DEF Becomes
      <4>2. objects[o].dirty
        BY <2>4, <3>1, <4>1
      <4> QED
        BY <1>7, <3>1, <4>1, <4>2
    <3>2. CASE i # o
      <4>1. objects'[i] = objects[i] /\ i = current
        BY <2>4, <3>2, ObjectFacts DEF Becomes
      <4>2. ~objects[o].dirty
        BY <1>1, <3>2, <4>1
      <4> QED
        BY <2>1, <2>4, <4>1, <4>2 DEF IInv, CopyInv
    <3> QED
      BY <3>1, <3>2
  <2> QED
    BY <1>1, <2>2, <2>3, <2>4 DEF Becomes, CopyInv
<1>8. LockInv'
  BY <1>7 DEF IInv, LockInv
<1>6. LatestInv'
  <2> SUFFICES ASSUME edits = 0, faults' = 0, ~outlived, ~overtaken
               PROVE  LatestInv'
    BY Zenon DEF LatestInv
  <2>4. faults = 0 /\ (objects[o].dirty => tmp' = objects[o].settings)
    BY <1>7
  <2>0. Disk' = Disk
    BY DEF Disk
  <2>1. CASE current' = current /\ o = current
    <3>1. Read(r.settings) = latest
      BY <1>1, <2>1, <2>4 DEF IInv, LatestInv
    <3>2. r.step = "idle" /\ ~r.touched => Read(Disk) = latest
      BY <1>1, <2>1, <2>4, Zenon DEF IInv, LatestInv
    <3>3. r.step # "idle" => tmp' = r.settings
      BY <2>4, Zenon
    <3> QED
      BY <1>1, <2>0, <2>1, <3>1, <3>2, <3>3 DEF Becomes, LatestInv
  <2>2. CASE current' = current /\ o # current
    <3>1. tmp' = tmp
      BY <1>1, <2>2
    <3>2. current # 0 => current \in DOMAIN objects /\ objects'[current] = objects[current]
      BY <1>1, <2>2 DEF Becomes, IInv, TypeOK
    <3> QED
      BY <2>0, <2>2, <2>4, <3>1, <3>2, Zenon DEF IInv, LatestInv
  <2>3. CASE o = current /\ ~objects[o].dirty /\ current' = 0
    BY <1>1, <2>0, <2>3, <2>4 DEF IInv, LatestInv
  <2> QED
    BY <2>1, <2>2, <2>3, Zenon
<1> QED
  BY <1>2, <1>3, <1>4, <1>5, <1>6, <1>8 DEF IInv

(* The save timer of an object runs.                                       *)
LEMMA TimerKeeps ==
    ASSUME IInv, NEW o \in DOMAIN objects, SaveTimer(o)
    PROVE  IInv'
<1>1. objects \in Seq(Objects) /\ objects[o] \in Objects
  BY ObjectFacts
<1>2. objects[o].timers - 1 \in Nat /\ objects[o].timers > 0
  BY <1>1 DEF SaveTimer, Objects
<1> DEFINE objs == [objects EXCEPT ![o].timers = @ - 1]
<1>3. /\ objs[o] = [objects[o] EXCEPT !.timers = @ - 1]
      /\ objs[o].step = objects[o].step /\ objs[o].dirty = objects[o].dirty
      /\ objs[o].settings = objects[o].settings
  BY <1>1, Zenon DEF Objects
<1>4. CASE objects[o].dirty
  <2> DEFINE r == [objects[o] EXCEPT !.timers = @ - 1, !.step = "written"]
  <2>1. r \in Objects
    BY <1>1, <1>2, Zenon DEF Objects
  <2>2. /\ r.settings = objects[o].settings /\ r.dirty = objects[o].dirty
        /\ r.touched = objects[o].touched /\ r.step = "written"
    BY <1>1 DEF Objects
  <2>3. objects' = [objs EXCEPT ![o].step = "written"] /\ WriteCopy(objects[o].settings) /\ file' = file
    BY <1>3, <1>4, Zenon DEF SaveTimer, BeginSave
  <2>4. objects' = [objects EXCEPT ![o] = r]
    BY <1>1, <2>3, Zenon DEF Objects
  <2>5. objects[o].step = "idle"
    BY <1>3 DEF SaveTimer, BeginSave
  <2> HIDE DEF r
  <2>6. Becomes(o, r)
    BY <1>1, <2>1, <2>4, OneObject, Zenon
  <2>7. flushing' \in {0, current'} /\ flushes' \in Nat
    BY DEF SaveTimer, IInv, TypeOK
  <2> QED
    BY <1>4, <2>1, <2>2, <2>3, <2>5, <2>6, <2>7, BeginKeeps, Zenon DEF SaveTimer
<1>5. CASE ~objects[o].dirty
  <2> DEFINE r == [objects[o] EXCEPT !.timers = @ - 1, !.saveQueued = FALSE]
  <2>1. r \in Objects
    BY <1>1, <1>2, Zenon DEF Objects
  <2>2. /\ r.settings = objects[o].settings /\ r.dirty = objects[o].dirty
        /\ r.touched = objects[o].touched /\ r.step = objects[o].step
    BY <1>1 DEF Objects
  <2>3. objects' = [objs EXCEPT ![o].saveQueued = FALSE] /\ UNCHANGED <<file, tmp, faults, unwritten>>
    BY <1>3, <1>5 DEF SaveTimer, BeginSave
  <2>4. objects' = [objects EXCEPT ![o] = r]
    BY <1>1, <2>3, Zenon DEF Objects
  <2>5. objects[o].step = "idle"
    BY <1>3 DEF SaveTimer, BeginSave
  <2> HIDE DEF r
  <2>6. Becomes(o, r)
    BY <1>1, <2>1, <2>4, OneObject, Zenon
  <2>7. flushing' \in {0, current'} /\ flushes' \in Nat
    BY DEF SaveTimer, IInv, TypeOK
  <2> QED
    BY <1>5, <2>1, <2>2, <2>3, <2>5, <2>6, <2>7, BeginKeeps DEF SaveTimer
<1> QED
  BY <1>4, <1>5

(* flush_one() begins to save the current object, or drops it.             *)
LEMMA FlushKeeps ==
    ASSUME IInv, Flush
    PROVE  IInv'
<1> DEFINE o == current
<1>1. o \in DOMAIN objects
  BY DEF Flush, IInv, TypeOK
<1>2. objects \in Seq(Objects) /\ objects[o] \in Objects
  BY <1>1, ObjectFacts
<1>3. objects[o].step = "idle" /\ flushes' \in Nat
  BY DEF Flush, BeginSave, IInv, TypeOK
<1>4. CASE objects[o].dirty
  <2> DEFINE r == [objects[o] EXCEPT !.step = "written"]
  <2>1. r \in Objects
    BY <1>2, Zenon DEF Objects
  <2>2. /\ r.settings = objects[o].settings /\ r.dirty = objects[o].dirty
        /\ r.touched = objects[o].touched /\ r.step = "written"
    BY <1>2 DEF Objects
  <2>3. /\ objects' = [objects EXCEPT ![o] = r] /\ WriteCopy(objects[o].settings) /\ file' = file
        /\ current' = current /\ flushing' = current
    BY <1>2, <1>4 DEF Flush, BeginSave, Objects
  <2> HIDE DEF r
  <2>4. Becomes(o, r)
    BY <1>1, <1>2, <2>1, <2>3, OneObject, Zenon
  <2> QED
    BY <1>1, <1>3, <1>4, <2>1, <2>2, <2>3, <2>4, BeginKeeps, Zenon DEF Flush, FactoryFree
<1>5. CASE ~objects[o].dirty
  <2> DEFINE r == [objects[o] EXCEPT !.saveQueued = FALSE]
  <2>1. r \in Objects
    BY <1>2, Zenon DEF Objects
  <2>2. /\ r.settings = objects[o].settings /\ r.dirty = objects[o].dirty
        /\ r.touched = objects[o].touched /\ r.step = objects[o].step
    BY <1>2 DEF Objects
  <2>3. /\ objects' = [objects EXCEPT ![o] = r] /\ UNCHANGED <<file, tmp, faults, unwritten>>
        /\ current' = 0 /\ flushing' = 0
    BY <1>2, <1>5 DEF Flush, FactoryFree, BeginSave, Objects
  <2> HIDE DEF r
  <2>4. Becomes(o, r)
    BY <1>1, <1>2, <2>1, <2>3, OneObject, Zenon
  <2> QED
    BY <1>1, <1>3, <1>5, <2>1, <2>2, <2>3, <2>4, BeginKeeps DEF Flush, FactoryFree
<1> QED
  BY <1>4, <1>5

(* save() removes the old file: the copy is there meanwhile, and what it   *)
(* has is what the object has.                                             *)
LEMMA RemoveKeeps ==
    ASSUME IInv, NEW o \in DOMAIN objects, RemoveOld(o)
    PROVE  IInv'
<1> DEFINE r == [objects[o] EXCEPT !.step = "removed"]
<1>1. /\ objects \in Seq(Objects) /\ objects[o] \in Objects
      /\ o \in 1 .. Len(objects) /\ Len(objects) \in Nat
      /\ ~outlived => o = current
  BY ObjectFacts DEF RemoveOld
<1>2. r \in Objects
  BY <1>1, Zenon DEF Objects
<1>3. /\ r.settings = objects[o].settings /\ r.dirty = objects[o].dirty
      /\ r.touched = objects[o].touched /\ r.step = "removed"
  BY <1>1 DEF Objects
<1>4. objects' = [objects EXCEPT ![o] = r]
  BY <1>1 DEF RemoveOld, Objects
<1> HIDE DEF r
<1>5. Becomes(o, r)
  BY <1>1, <1>2, <1>4, OneObject, Zenon
<1>6. TypeOK'
  BY <1>1, <1>5 DEF RemoveOld, bounds, mishaps, Becomes, IInv, TypeOK
<1>7. OldInv'
  BY <1>1, <1>5 DEF RemoveOld, mishaps, Becomes, IInv, OldInv
<1>8. TouchedInv'
  BY <1>3, <1>5 DEF Becomes, IInv, TouchedInv
<1>11. objects[o].step = "written" /\ UNCHANGED <<tmp, current, flushing, reloading, faults, outlived, unwritten>>
  BY DEF RemoveOld, bounds, mishaps
<1>9. CopyInv'
  <2> SUFFICES ASSUME ~outlived, ~unwritten PROVE CopyInv'
    BY <1>11 DEF CopyInv
  <2>1. tmp = objects[o].settings /\ objects[o].settings # Absent
    BY <1>1, <1>11, SettingsAssumption DEF IInv, CopyInv, Objects, Contents
  <2>2. ASSUME NEW i \in DOMAIN objects, objects'[i].step # "idle"
        PROVE  tmp = objects'[i].settings
    <3>1. CASE i = o
      BY <1>3, <1>5, <2>1, <3>1 DEF Becomes
    <3>2. CASE i # o
      BY <1>5, <2>2, <3>2 DEF Becomes, IInv, CopyInv
    <3> QED
      BY <3>1, <3>2
  <2> QED
    BY <1>5, <1>11, <2>1, <2>2 DEF Becomes, CopyInv
<1>12. LockInv'
  BY <1>11 DEF IInv, LockInv
<1>10. LatestInv'
  BY <1>1, <1>3, <1>5 DEF RemoveOld, bounds, mishaps, Becomes, IInv, LatestInv
<1> QED
  BY <1>6, <1>7, <1>8, <1>9, <1>10, <1>12 DEF IInv

(* The copy becomes the file: it holds what the object held all the time.  *)
LEMMA RenameKeeps ==
    ASSUME IInv, NEW o \in DOMAIN objects, RenameNew(o)
    PROVE  IInv'
<1> DEFINE r == [objects[o] EXCEPT !.saveQueued = FALSE, !.dirty = FALSE, !.step = "idle", !.touched = FALSE]
<1>1. /\ objects \in Seq(Objects) /\ objects[o] \in Objects
      /\ o \in 1 .. Len(objects) /\ Len(objects) \in Nat
      /\ ~outlived => o = current
  BY ObjectFacts DEF RenameNew
<1>2. r \in Objects
  BY <1>1, Zenon DEF Objects
<1>3. r.settings = objects[o].settings /\ ~r.dirty /\ ~r.touched /\ r.step = "idle"
  BY <1>1 DEF Objects
<1>4. objects' = [objects EXCEPT ![o] = r]
  BY <1>1, Zenon DEF RenameNew, Saved, Objects
<1> HIDE DEF r
<1>5. Becomes(o, r)
  BY <1>1, <1>2, <1>4, OneObject, Zenon
<1>6. \/ current' = current /\ flushing' = flushing
      \/ current = o /\ current' = 0 /\ flushing' = 0
  <2>1. flushing = o => current = o
    BY <1>1 DEF IInv, TypeOK
  <2> QED
    BY <2>1 DEF RenameNew, EndFlush
<1>7. TypeOK'
  BY <1>1, <1>5, <1>6 DEF RenameNew, bounds, mishaps, Becomes, IInv, TypeOK
<1>8. OldInv'
  BY <1>1, <1>3, <1>5, <1>6 DEF RenameNew, mishaps, Becomes, IInv, OldInv
<1>9. TouchedInv'
  BY <1>3, <1>5 DEF Becomes, IInv, TouchedInv
<1>10. CopyInv'
  BY <1>1, <1>3, <1>5 DEF RenameNew, bounds, mishaps, Becomes, IInv, OldInv, CopyInv
<1>12. LockInv'
  BY <1>1, <1>6, Zenon DEF RenameNew, EndFlush, bounds, mishaps, IInv, LockInv
<1>11. LatestInv'
  <2> SUFFICES ASSUME edits = 0, faults = 0, ~outlived, ~overtaken
               PROVE  LatestInv'
    BY Zenon DEF LatestInv, RenameNew, bounds, mishaps
  <2>1. tmp = r.settings /\ Read(r.settings) = latest
    BY <1>1, <1>3 DEF RenameNew, IInv, LatestInv
  <2>2. Read(Disk') = latest'
    BY <2>1 DEF Disk, RenameNew
  <2> QED
    BY <1>1, <1>3, <1>5, <1>6, <2>1, <2>2, Zenon DEF Becomes, LatestInv, RenameNew
<1> QED
  BY <1>7, <1>8, <1>9, <1>10, <1>11, <1>12 DEF IInv

(* save() fails: no other object's save took the copy, unless a dropped    *)
(* object was set, and it was written, unless there was a fault.           *)
LEMMA ThrowsKeeps ==
    ASSUME IInv, NEW o \in DOMAIN objects, SaveThrows(o)
    PROVE  IInv'
<1> DEFINE r == [objects[o] EXCEPT !.step = "idle"]
<1>1. /\ objects \in Seq(Objects) /\ objects[o] \in Objects
      /\ o \in 1 .. Len(objects) /\ Len(objects) \in Nat
      /\ ~outlived => o = current
  BY ObjectFacts DEF SaveThrows
<1>2. r \in Objects
  BY <1>1, Zenon DEF Objects
<1>3. /\ r.settings = objects[o].settings /\ r.dirty = objects[o].dirty
      /\ r.touched = objects[o].touched /\ r.step = "idle"
  BY <1>1 DEF Objects
<1>4. objects' = [objects EXCEPT ![o] = r]
  BY <1>1 DEF SaveThrows, Objects
<1> HIDE DEF r
<1>5. Becomes(o, r)
  BY <1>1, <1>2, <1>4, OneObject, Zenon
<1>6. faults' \in Nat /\ (faults' = 0 => outlived) /\ (unwritten => faults' # 0)
  <2>1. faults \in Nat /\ (unwritten => faults # 0) /\ objects[o].settings # Absent
    BY <1>1, SettingsAssumption DEF IInv, TypeOK, LockInv, Objects, Contents
  <2> QED
    BY <2>1 DEF SaveThrows, IInv, CopyInv
<1>7. TypeOK'
  BY <1>1, <1>5, <1>6, Zenon DEF SaveThrows, mishaps, Becomes, IInv, TypeOK
<1>8. OldInv'
  BY <1>1, <1>3, <1>5 DEF SaveThrows, mishaps, Becomes, IInv, OldInv
<1>9. TouchedInv'
  BY <1>3, <1>5 DEF Becomes, IInv, TouchedInv
<1>10. CopyInv'
  <2>1. ~outlived /\ ~unwritten => ~(file = Absent /\ tmp = Absent)
    BY <1>1 DEF IInv, CopyInv
  <2> QED
    BY <1>3, <1>5, <2>1, Zenon DEF SaveThrows, mishaps, Becomes, IInv, CopyInv
<1>11. LatestInv'
  BY <1>6 DEF SaveThrows, mishaps, LatestInv
<1>12. LockInv'
  BY <1>6 DEF SaveThrows, mishaps, IInv, LockInv
<1> QED
  BY <1>7, <1>8, <1>9, <1>10, <1>11, <1>12 DEF IInv

(* set(): the object has the new value, and waits to be saved. *)
LEMMA SetKeeps ==
    ASSUME IInv, NEW w \in Workers, NEW k \in Keys, NEW v \in Values \cup {None}, Set(w, k, v)
    PROVE  IInv'
<1> DEFINE o == workers[w]
           obj == objects[o]
           r == [obj EXCEPT !.settings[k] = v, !.dirty = TRUE, !.touched = TRUE, !.saveQueued = TRUE,
                            !.timers = IF obj.saveQueued THEN @ ELSE @ + 1]
<1>1. o \in DOMAIN objects
  BY DEF Set, IInv, TypeOK
<1>2. /\ objects \in Seq(Objects) /\ obj \in Objects /\ obj.settings \in Contents
      /\ o \in 1 .. Len(objects) /\ Len(objects) \in Nat
  BY <1>1, ObjectFacts
<1>3. r.settings = [obj.settings EXCEPT ![k] = v]
  BY <1>2 DEF Objects
<1>4. [obj.settings EXCEPT ![k] = v] \in Contents
  BY <1>2 DEF Contents
<1>5. r \in Objects
  <2>1. (IF obj.saveQueued THEN obj.timers ELSE obj.timers + 1) \in Nat
    BY <1>2 DEF Objects
  <2> QED
    BY <1>2, <1>4, <2>1, Zenon DEF Objects
<1>6. r.dirty /\ r.touched /\ r.step = "idle"
  BY <1>2 DEF Objects, Set
<1>7. objects' = [objects EXCEPT ![o] = r]
  BY DEF Set
<1>8. Trim(v) \in Values \cup {None}
  BY SettingsAssumption DEF Trim
<1>9. Read(r.settings) = [Read(obj.settings) EXCEPT ![k] = Trim(v)]
  <2>1. Read([obj.settings EXCEPT ![k] = v]) = [Read(obj.settings) EXCEPT ![k] = Trim(v)]
    <3> HIDE DEF obj
    <3> QED
      BY <1>2, ReadOfSet, ZenonT(30)
  <2> QED
    BY <1>3, <2>1, Zenon
<1>10. obj.step = "idle"
  BY DEF Set
<1>11. /\ workers' = [workers EXCEPT ![w] = None] /\ sets' = sets + 1
       /\ latest' = [latest EXCEPT ![k] = Trim(v)]
       /\ outlived' = (outlived \/ o # current)
       /\ UNCHANGED <<file, tmp, current, flushing, reloading, flushes, edits, faults, overtaken, unwritten>>
  BY DEF Set
<1> HIDE DEF r, o
<1>12. Becomes(o, r)
  BY <1>1, <1>2, <1>5, <1>7, OneObject, Zenon
<1>13. TypeOK'
  <2>1. outlived' \in BOOLEAN
    BY <1>11, Zenon DEF IInv, TypeOK
  <2>2. latest' \in Contents
    BY <1>8, <1>11, Zenon DEF IInv, TypeOK, Contents
  <2> QED
    BY <1>11, <1>12, <2>1, <2>2, SMTT(30) DEF Becomes, IInv, TypeOK
<1>14. OldInv'
  <2>1. ~outlived' => ~outlived /\ o = current
    BY <1>11, Zenon
  <2> QED
    BY <1>11, <1>12, <2>1 DEF Becomes, IInv, OldInv
<1>15. TouchedInv'
  BY <1>6, <1>12, SMTT(30) DEF Becomes, IInv, TouchedInv
<1>16. CopyInv'
  <2>1. ~outlived' => ~outlived
    BY <1>11, Zenon
  <2>2. ~outlived /\ ~unwritten => ~(file = Absent /\ tmp = Absent)
    BY <1>2 DEF IInv, CopyInv
  <2> QED
    BY <1>6, <1>11, <1>12, <2>1, <2>2 DEF Becomes, IInv, CopyInv
<1>18. LockInv'
  BY <1>11 DEF IInv, LockInv
<1>17. LatestInv'
  <2> SUFFICES ASSUME edits = 0, faults = 0, ~outlived', ~overtaken
               PROVE  /\ current' # 0
                      /\ Read(objects'[current'].settings) = latest'
                      /\ objects'[current'].step = "idle" /\ objects'[current'].touched
    BY <1>11 DEF LatestInv
  <2>1. ~outlived /\ o = current /\ current # 0
    <3>1. ~outlived /\ o = current
      BY <1>11, Zenon
    <3> QED
      BY <1>2, <3>1
  <2>2. Read(obj.settings) = latest
    BY <2>1 DEF IInv, LatestInv
  <2> QED
    BY <1>6, <1>9, <1>11, <1>12, <2>1, <2>2 DEF Becomes
<1> QED
  BY <1>13, <1>14, <1>15, <1>16, <1>17, <1>18 DEF IInv

(* open(), and the end of a request: a worker takes or leaves an object.   *)
LEMMA WorkersKeep ==
    ASSUME IInv, workers' \in [Workers -> DOMAIN objects \cup {None}],
           UNCHANGED <<file, tmp, objects, current, flushing, reloading, bounds, latest, mishaps>>
    PROVE  IInv'
<1>1. TypeOK'
  BY DEF IInv, TypeOK, bounds, mishaps
<1>2. OldInv' /\ TouchedInv' /\ CopyInv' /\ LockInv'
  BY Zenon DEF IInv, OldInv, TouchedInv, CopyInv, LockInv, bounds, mishaps
<1>3. LatestInv'
  BY DEF IInv, LatestInv, Disk, bounds, mishaps
<1> QED
  BY <1>1, <1>2, <1>3 DEF IInv

(* open() hands out the current object, or makes one of the file.          *)
LEMMA OpenKeeps ==
    ASSUME IInv, NEW w \in Workers, NEW allowCreate \in BOOLEAN, Open(w, allowCreate)
    PROVE  IInv'
<1>1. CASE current # 0
  <2>1. current \in DOMAIN objects
    BY <1>1 DEF IInv, TypeOK
  <2>2. workers' \in [Workers -> DOMAIN objects \cup {None}]
    BY <1>1, <2>1 DEF Open, IInv, TypeOK
  <2> QED
    BY <1>1, <2>2, WorkersKeep DEF Open
<1>2. CASE current = 0
  <2> DEFINE c == IF file = Absent THEN Empty ELSE file
  <2>1. file' = c /\ Load(c) /\ current' = Len(objects') /\ workers' = [workers EXCEPT ![w] = current']
    BY <1>2 DEF Open, Load
  <2>2. c \in Contents
    BY ReadTwice DEF IInv, TypeOK
  <2>3. /\ flushing = 0 /\ flushing' = 0 /\ tmp' = tmp /\ sets' = sets /\ edits' = edits
        /\ faults' = faults /\ flushes' = flushes /\ latest' = latest /\ reloading' = reloading
        /\ outlived' = outlived /\ overtaken' = overtaken /\ unwritten' = unwritten
    BY DEF Open, FactoryFree, bounds, mishaps
  <2>4. (file # Absent => c = file) /\ (file = Absent => c = Empty)
    OBVIOUS
  <2> HIDE DEF c
  <2>5. Adds(c)
    BY <2>1, <2>2, OneMore, Zenon DEF IInv, TypeOK
  <2>6. workers' \in [Workers -> DOMAIN objects' \cup {None}]
    BY <2>1, <2>5 DEF Adds, IInv, TypeOK
  <2>7. flushes' \in Nat
    BY <2>3 DEF IInv, TypeOK
  <2> QED
    BY <1>2, <2>1, <2>2, <2>3, <2>4, <2>6, <2>7, LoadKeeps
<1> QED
  BY <1>1, <1>2

(* load.setting reads the file, and makes an object of it when there is    *)
(* none.                                                                   *)
LEMMA ReloadKeeps ==
    ASSUME IInv, ReloadSettings
    PROVE  IInv'
<1>0. /\ flushing = 0 /\ flushing' = 0 /\ reloading = Absent /\ file # Absent /\ flushes' \in Nat
      /\ UNCHANGED <<file, tmp, workers, sets, edits, faults, outlived, overtaken, unwritten>>
  BY DEF ReloadSettings, FactoryFree, mishaps, IInv, TypeOK
<1>1. file \in Contents
  BY <1>0 DEF IInv, TypeOK
<1>2. CASE current = 0
  <2>1. Load(file) /\ current' = Len(objects') /\ latest' = Merged(file, latest) /\ reloading' = reloading
    BY <1>2 DEF ReloadSettings
  <2>2. Adds(file)
    BY <1>1, <2>1, OneMore, Zenon DEF IInv, TypeOK
  <2>3. workers' \in [Workers -> DOMAIN objects' \cup {None}]
    BY <1>0, <2>2 DEF Adds, IInv, TypeOK
  <2> QED
    BY <1>0, <1>1, <1>2, <2>1, <2>3, LoadKeeps
<1>3. CASE current # 0
  <2>1. reloading' = file /\ UNCHANGED <<objects, current, latest>>
    BY <1>3 DEF ReloadSettings
  <2>2. TypeOK'
    BY <1>0, <1>1, <2>1 DEF IInv, TypeOK
  <2>3. OldInv' /\ TouchedInv' /\ CopyInv'
    BY <1>0, <2>1 DEF IInv, OldInv, TouchedInv, CopyInv
  <2>4. LockInv'
    BY <1>0, <1>3, <2>1, Zenon DEF IInv, LockInv
  <2>5. LatestInv'
    BY <1>0, <2>1 DEF IInv, LatestInv, Disk
  <2> QED
    BY <2>2, <2>3, <2>4, <2>5 DEF IInv
<1> QED
  BY <1>2, <1>3

(* Merging two contents makes contents.                                    *)
LEMMA MergedType ==
    ASSUME NEW c \in Contents, NEW d \in Contents
    PROVE  Merged(c, d) \in Contents
<1>1. Read(c) \in Contents
  BY ReadTwice
<1>2. \A k \in Keys : Trim(c[k]) \in Values \cup {None} /\ d[k] \in Values \cup {None}
  BY <1>1 DEF Contents, Read
<1> QED
  BY <1>2 DEF Contents, Merged

(* Reading what was merged is merging into what was read.                  *)
LEMMA ReadOfMerged ==
    ASSUME NEW c \in Contents, NEW d \in Contents
    PROVE  Read(Merged(c, d)) = Merged(c, Read(d))
<1>1. \A v \in Values \cup {None} : Trim(Trim(v)) = Trim(v)
  BY SettingsAssumption DEF Trim
<1>2. \A k \in Keys : c[k] \in Values \cup {None}
  BY DEF Contents
<1>3. \A k \in Keys : Trim(Merged(c, d)[k]) = Merged(c, Read(d))[k]
  BY <1>1, <1>2, Zenon DEF Merged, Read
<1> QED
  BY <1>3 DEF Merged, Read

(* What the file had is in the object and in what counts as set; what it   *)
(* did not have stays in both.                                             *)
LEMMA MergeKeeps ==
    ASSUME IInv, ReloadMerge
    PROVE  IInv'
<1> DEFINE o == current
           c == reloading
           s == Merged(c, objects[o].settings)
           r == [objects[o] EXCEPT !.settings = s]
<1>0. /\ c # Absent /\ reloading' = Absent /\ latest' = Merged(c, latest)
      /\ overtaken' = (overtaken \/ file # c)
      /\ UNCHANGED <<file, tmp, current, flushing, workers, sets, flushes, edits, faults, outlived, unwritten>>
  BY DEF ReloadMerge, bounds
<1>1. c \in Contents /\ latest \in Contents /\ current # 0 /\ o \in DOMAIN objects
  BY <1>0 DEF IInv, TypeOK, LockInv
<1>2. /\ objects \in Seq(Objects) /\ objects[o] \in Objects /\ objects[o].settings \in Contents
      /\ objects[o].step = "idle"
  BY <1>1, ObjectFacts DEF ReloadMerge
<1>3. s \in Contents /\ latest' \in Contents
  BY <1>0, <1>1, <1>2, MergedType
<1>4. r \in Objects
  BY <1>2, <1>3, Zenon DEF Objects
<1>5. /\ r.settings = s /\ r.dirty = objects[o].dirty
      /\ r.touched = objects[o].touched /\ r.step = "idle"
  BY <1>2 DEF Objects
<1>6. objects' = [objects EXCEPT ![o] = r]
  BY <1>2 DEF ReloadMerge, Objects
<1>7. edits = 0 /\ faults = 0 /\ ~outlived /\ ~overtaken => Read(s) = latest'
  <2> SUFFICES ASSUME edits = 0, faults = 0, ~outlived, ~overtaken
               PROVE  Read(s) = latest'
    OBVIOUS
  <2>1. Read(objects[o].settings) = latest
    BY <1>1 DEF IInv, LatestInv
  <2> QED
    BY <1>0, <1>1, <1>2, <2>1, ReadOfMerged
<1>8. ~overtaken' /\ edits = 0 /\ faults = 0 /\ ~outlived /\ ~objects[o].touched => Read(file) = latest'
  <2> SUFFICES ASSUME ~overtaken, file = c, edits = 0, faults = 0, ~outlived, ~objects[o].touched
               PROVE  Read(file) = latest'
    BY <1>0, Zenon
  <2>1. Read(file) = latest
    BY <1>0, <1>1, <1>2 DEF IInv, LatestInv, Disk
  <2> QED
    BY <1>0, <2>1 DEF Read, Trim, Merged
<1> HIDE DEF r, s
<1>9. Becomes(o, r)
  BY <1>1, <1>2, <1>4, <1>6, OneObject, Zenon
<1>10. TypeOK'
  <2>1. overtaken' \in BOOLEAN
    BY <1>0, Zenon DEF IInv, TypeOK
  <2> QED
    BY <1>0, <1>2, <1>3, <1>9, <2>1 DEF Becomes, IInv, TypeOK
<1>11. OldInv' /\ TouchedInv'
  BY <1>0, <1>2, <1>5, <1>9, Zenon DEF Becomes, IInv, OldInv, TouchedInv
<1>12. CopyInv' /\ LockInv'
  BY <1>0, <1>5, <1>9, SMTT(30) DEF Becomes, IInv, CopyInv, LockInv
<1>13. LatestInv'
  <2> SUFFICES ASSUME edits = 0, faults = 0, ~outlived, ~overtaken'
               PROVE  LatestInv'
    BY <1>0 DEF LatestInv
  <2>1. ~overtaken /\ file = c
    BY <1>0, Zenon
  <2>2. Disk' = file
    BY <1>0, <2>1 DEF Disk
  <2> QED
    BY <1>0, <1>1, <1>2, <1>5, <1>7, <1>8, <1>9, <2>1, <2>2, Zenon DEF Becomes, LatestInv
<1> QED
  BY <1>10, <1>11, <1>12, <1>13 DEF IInv

(* The operator edits the file.                                            *)
LEMMA EditKeeps ==
    ASSUME IInv, NEW k \in Keys, NEW v \in Values, EditFile(k, v)
    PROVE  IInv'
<1>1. edits' \in Nat /\ edits' # 0 /\ file' \in Contents /\ file' # Absent
  BY SettingsAssumption, SMTT(30) DEF EditFile, IInv, TypeOK, Contents
<1>2. TypeOK'
  BY <1>1 DEF EditFile, mishaps, IInv, TypeOK
<1>3. OldInv' /\ TouchedInv'
  BY ZenonT(30) DEF EditFile, mishaps, IInv, OldInv, TouchedInv
<1>4. CopyInv' /\ LockInv'
  BY <1>1 DEF EditFile, mishaps, IInv, CopyInv, LockInv
<1>5. LatestInv'
  BY <1>1 DEF LatestInv
<1> QED
  BY <1>2, <1>3, <1>4, <1>5 DEF IInv

(* After a crash there is one object at most, and the files are as they    *)
(* were.                                                                   *)
LEMMA CrashKeeps ==
    ASSUME IInv, Crash
    PROVE  IInv'
<1>1. /\ objects' \in Seq(Objects) /\ current' = Len(objects')
      /\ file = Absent => objects' = <<>>
      /\ file # Absent => /\ Len(objects') = 1
                          /\ objects'[1].step = "idle" /\ ~objects'[1].touched
                          /\ objects'[1].settings = Read(file)
  BY StartedFacts DEF Crash, IInv, TypeOK
<1>2. faults' \in Nat /\ faults' # 0
  BY SMTT(30) DEF Crash, IInv, TypeOK
<1>3. TypeOK'
  <2>1. workers' \in [Workers -> DOMAIN objects' \cup {None}]
    BY DEF Crash
  <2> QED
    BY <1>1, <1>2, <2>1 DEF Crash, mishaps, IInv, TypeOK
<1>4. OldInv' /\ TouchedInv'
  BY <1>1, SMTT(30) DEF OldInv, TouchedInv
<1>5. CopyInv' /\ LockInv'
  BY <1>1, <1>2 DEF Crash, mishaps, IInv, CopyInv, LockInv
<1>6. LatestInv'
  BY <1>2 DEF LatestInv
<1> QED
  BY <1>3, <1>4, <1>5, <1>6, Zenon DEF IInv

(* Every step keeps the inductive invariant. *)
LEMMA NextInv == IInv /\ [Next]_vars => IInv'
<1> SUFFICES ASSUME IInv, [Next]_vars
             PROVE  IInv'
  OBVIOUS
<1>1. ASSUME NEW w \in Workers, NEW allowCreate \in BOOLEAN, Open(w, allowCreate)
      PROVE  IInv'
  BY <1>1, OpenKeeps
<1>2. ASSUME NEW w \in Workers, NEW k \in Keys, NEW v \in Values \cup {None}, Set(w, k, v)
      PROVE  IInv'
  BY <1>2, SetKeeps
<1>3. ASSUME NEW w \in Workers, Get(w)
      PROVE  IInv'
  <2>1. workers' \in [Workers -> DOMAIN objects \cup {None}]
    BY <1>3 DEF Get, IInv, TypeOK
  <2> QED
    BY <1>3, <2>1, WorkersKeep DEF Get
<1>4. CASE Saving
  BY <1>4, TimerKeeps, RemoveKeeps, RenameKeeps, ThrowsKeeps DEF Saving
<1>5. CASE Flush
  BY <1>5, FlushKeeps
<1>6. CASE ReloadSettings \/ ReloadMerge
  BY <1>6, ReloadKeeps, MergeKeeps
<1>7. ASSUME NEW k \in Keys, NEW v \in Values, EditFile(k, v)
      PROVE  IInv'
  BY <1>7, EditKeeps
<1>8. CASE Crash
  BY <1>8, CrashKeeps
<1>9. CASE UNCHANGED vars
  <2>1. workers' \in [Workers -> DOMAIN objects \cup {None}]
    BY <1>9 DEF vars, IInv, TypeOK
  <2> QED
    BY <1>9, <2>1, WorkersKeep, Zenon DEF vars
<1> QED
  BY <1>1, <1>2, <1>3, <1>4, <1>5, <1>6, <1>7, <1>8, <1>9 DEF Next

-----------------------------------------------------------------------------
(* Theorems *)

(* For any number of requests, timers, flushes, reloads, crashes and       *)
(* failed removes: between remove() and rename(), and after a crash there, *)
(* the copy that save() wrote is on the disk, and what is about to become  *)
(* the file is what the object has; as long as no worker set an object     *)
(* that a flush had dropped, and no writing of a copy failed.              *)
THEOREM CopyBesideFile == Spec => []FileOrCopy
<1>1. IInv => FileOrCopy
  BY SMTT(30) DEF IInv, CopyInv, FileOrCopy
<1> QED
  BY <1>1, InitInv, NextInv, PTL DEF Spec

(* For any number of requests, timers, flushes and reloads: once no object *)
(* waits to be saved the file reads as everything that was set; as long as *)
(* there was no fault and no edit, no worker set an object that a flush    *)
(* had dropped, and no save replaced the file between a reload's read and  *)
(* its merge.                                                              *)
THEOREM SettledIsExact == Spec => []SettledExact
<1>1. IInv => SettledExact
  <2> SUFFICES ASSUME IInv, AtRest, edits = 0, faults = 0, ~outlived, ~overtaken
               PROVE  Read(Disk) = latest
    BY DEF SettledExact, Disk
  <2>1. current = 0 \/ current \in DOMAIN objects
    BY DEF IInv, TypeOK
  <2> QED
    BY <2>1 DEF IInv, LatestInv, AtRest
<1> QED
  BY <1>1, InitInv, NextInv, PTL DEF Spec

=============================================================================
