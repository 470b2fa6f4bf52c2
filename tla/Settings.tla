------------------------------ MODULE Settings -------------------------------
(***************************************************************************)
(* One settings file of the daemon, daemon/Settings.cpp: RealSettings and  *)
(* RealSettingsFactory, the workers that serve the page with them, and the *)
(* admin commands flush, flush.setting and load.setting.                   *)
(*                                                                         *)
(* Several threads run the handlers.  An action is one section under the   *)
(* factory's or the object's lock; save() is cut between its steps on the  *)
(* disk, where the daemon may crash and a thread with another object may   *)
(* run, and a reload between its read of the file and its wait for the     *)
(* object's lock.  Of a value matters only what trim() makes of it when    *)
(* the file is read.  flush() is flush_one() for every file.               *)
(***************************************************************************)
EXTENDS Naturals, Sequences

CONSTANTS
    Keys, Values,
    None,           \* no value, and the empty string
    Trimmed,        \* what sql_unquote() and trim() make of a stored value
    Absent,         \* there is no such file
    Workers,        \* requests of the page
    MaxSets, MaxFlushes, MaxEdits, MaxFaults    \* bounds

ASSUME SettingsAssumption ==
    /\ None \notin Values
    /\ Absent \notin [Keys -> Values \cup {None}]
    /\ Trimmed \in [Values -> Values \cup {None}]
    /\ \A v \in Values : Trimmed[v] # None => Trimmed[Trimmed[v]] = Trimmed[v]
    /\ {MaxSets, MaxFlushes, MaxEdits, MaxFaults} \subseteq Nat

Contents == [Keys -> Values \cup {None}]
Empty == [k \in Keys |-> None]

VARIABLES
    file, tmp,  \* name.set and name.set.tmp
    objects,    \* the RealSettings made since the daemon started
    current,    \* files_[name], 0 for none
    flushing,   \* the object flush_one() is saving, under the factory's lock
    reloading,  \* what reloadSettings() has read, under the same lock
    workers,    \* the object each worker holds, None when it is idle
    sets, flushes, edits, faults,
    latest,     \* for the properties: what the sets so far amount to
    outlived,   \* a worker set an object that flush_one() had dropped
    overtaken,  \* the file was replaced between a reload's read and its merge
    unwritten   \* the copy could not be written, which save() does not see

bounds == <<sets, flushes, edits, faults>>
mishaps == <<outlived, overtaken, unwritten>>
vars == <<file, tmp, objects, current, flushing, reloading, workers, bounds, latest, mishaps>>

(* timers: handlers of saveTimer_ to come; step: where save() is; touched, *)
(* for the properties: set() was called since the last load or save.       *)
Objects == [settings : Contents, dirty : BOOLEAN, saveQueued : BOOLEAN, timers : Nat,
            step : {"idle", "written", "removed"}, touched : BOOLEAN]

Trim(v) == IF v = None THEN None ELSE Trimmed[v]
Read(content) == [k \in Keys |-> Trim(content[k])]

(* The constructor leaves dirty_ as the memory was. *)
NewObject(settings, dirty) ==
    [settings |-> settings, dirty |-> dirty, saveQueued |-> FALSE, timers |-> 0,
     step |-> "idle", touched |-> FALSE]

(* scandir(): the file is loaded when the daemon starts, if there is one. *)
Started(objs, cur) ==
    IF file = Absent THEN objs = <<>> /\ cur = 0
    ELSE (\E dirty \in BOOLEAN : objs = <<NewObject(Read(file), dirty)>>) /\ cur = 1

Init ==
    /\ file \in {Absent, Empty} /\ tmp = Absent
    /\ Started(objects, current) /\ flushing = 0 /\ reloading = Absent
    /\ workers = [w \in Workers |-> None]
    /\ sets = 0 /\ flushes = 0 /\ edits = 0 /\ faults = 0
    /\ latest = Empty
    /\ outlived = FALSE /\ overtaken = FALSE /\ unwritten = FALSE

-----------------------------------------------------------------------------
(* Nobody holds the factory's lock. *)
FactoryFree == flushing = 0 /\ reloading = Absent

(* loadSettingsPath() when the object is new *)
Load(content) ==
    \E dirty \in BOOLEAN : objects' = Append(objects, NewObject(Read(content), dirty))

(* RealSettingsFactory::open(); a set may create the file, a get may not,  *)
(* and then go_complete() has no object and reports 404.                   *)
Open(w, allowCreate) ==
    /\ workers[w] = None
    /\ FactoryFree
    /\ \/ /\ current # 0
          /\ workers' = [workers EXCEPT ![w] = current]
          /\ UNCHANGED <<file, objects, current>>
       \/ /\ current = 0
          /\ file # Absent \/ allowCreate
          /\ file' = IF file = Absent THEN Empty ELSE file
          /\ Load(file')
          /\ current' = Len(objects')
          /\ workers' = [workers EXCEPT ![w] = current']
    /\ UNCHANGED <<tmp, flushing, reloading, bounds, latest, mishaps>>

(* RealSettings::set() and queueSave().  Setting the time of a timer that  *)
(* is still armed makes its handler run, which does not look at the error. *)
Set(w, k, v) ==
    LET o == workers[w]
        obj == objects[o]
    IN  /\ o # None
        /\ obj.step = "idle"
        /\ sets < MaxSets
        /\ sets' = sets + 1
        /\ objects' = [objects EXCEPT ![o] =
              [obj EXCEPT !.settings[k] = v, !.dirty = TRUE, !.touched = TRUE, !.saveQueued = TRUE,
                          !.timers = IF obj.saveQueued THEN @ ELSE @ + 1]]
        /\ workers' = [workers EXCEPT ![w] = None]
        /\ latest' = [latest EXCEPT ![k] = Trim(v)]
        /\ outlived' = (outlived \/ o # current)
        /\ UNCHANGED <<file, tmp, current, flushing, reloading, flushes, edits, faults,
                       overtaken, unwritten>>

(* A get, or a set of no valid key. *)
Get(w) ==
    /\ workers[w] # None
    /\ workers' = [workers EXCEPT ![w] = None]
    /\ UNCHANGED <<file, tmp, objects, current, flushing, reloading, bounds, latest, mishaps>>

-----------------------------------------------------------------------------
(* RealSettings::save() *)

(* Slip: saveQueued_ stays set. *)
MutantSaved(o) == [objects EXCEPT ![o].dirty = FALSE, ![o].step = "idle", ![o].touched = FALSE]

(* The last lines of save(). *)
Saved(o) == [objects EXCEPT ![o].saveQueued = FALSE, ![o].dirty = FALSE, ![o].step = "idle", ![o].touched = FALSE]

(* Slip: the old file is removed before the new one is written. *)
MutantBeginSave(o, objs) ==
    /\ objs[o].step = "idle"
    /\ IF objs[o].dirty
       THEN file' = Absent /\ tmp' = tmp /\ objects' = [objs EXCEPT ![o].step = "written"]
       ELSE objects' = [objs EXCEPT ![o].saveQueued = FALSE] /\ UNCHANGED <<file, tmp>>
    /\ UNCHANGED <<faults, unwritten>>

(* The new file is written beside the old one.  Empty values are not       *)
(* written, which reads the same.  Nobody looks at the state of the        *)
(* stream: when it cannot be opened the copy stays as it was, and when a   *)
(* write fails it ends there.                                              *)
WriteCopy(settings) ==
    \/ tmp' = settings /\ UNCHANGED <<faults, unwritten>>
    \/ /\ faults < MaxFaults
       /\ faults' = faults + 1
       /\ unwritten' = TRUE
       /\ \/ tmp' = tmp
          \/ \E kept \in SUBSET Keys :
                 tmp' = [k \in Keys |-> IF k \in kept THEN settings[k] ELSE None]

BeginSave(o, objs) ==
    /\ objs[o].step = "idle"
    /\ file' = file
    /\ IF objs[o].dirty
       THEN WriteCopy(objs[o].settings) /\ objects' = [objs EXCEPT ![o].step = "written"]
       ELSE objects' = [objs EXCEPT ![o].saveQueued = FALSE] /\ UNCHANGED <<tmp, faults, unwritten>>

SaveTimer(o) ==
    /\ objects[o].timers > 0
    /\ BeginSave(o, [objects EXCEPT ![o].timers = @ - 1])
    /\ UNCHANGED <<current, flushing, reloading, workers, sets, flushes, edits, latest,
                   outlived, overtaken>>

RemoveOld(o) ==
    /\ objects[o].step = "written"
    /\ file' = Absent
    /\ objects' = [objects EXCEPT ![o].step = "removed"]
    /\ UNCHANGED <<tmp, current, flushing, reloading, workers, bounds, latest, mishaps>>

(* The files_ entry goes when flush_one() has saved the object. *)
EndFlush(o) ==
    IF flushing = o THEN flushing' = 0 /\ current' = 0 ELSE UNCHANGED <<flushing, current>>

RenameNew(o) ==
    /\ objects[o].step = "removed"
    /\ tmp # Absent
    /\ file' = tmp
    /\ tmp' = Absent
    /\ objects' = Saved(o)
    /\ EndFlush(o)
    /\ UNCHANGED <<reloading, workers, bounds, latest, mishaps>>

(* An exception leaves save() as it is, with saveQueued_ set.  remove()    *)
(* may fail, and rename() does when there is no copy: another object's     *)
(* save took it, or it was never written.                                  *)
SaveThrows(o) ==
    /\ \/ objects[o].step = "written" /\ faults < MaxFaults /\ faults' = faults + 1
       \/ objects[o].step = "removed" /\ tmp = Absent /\ UNCHANGED faults
    /\ objects' = [objects EXCEPT ![o].step = "idle"]
    /\ flushing' = IF flushing = o THEN 0 ELSE flushing
    /\ UNCHANGED <<file, tmp, current, reloading, workers, sets, flushes, edits, latest, mishaps>>

-----------------------------------------------------------------------------
(* Commands of the operator *)

(* flush_one() *)
Flush ==
    /\ current # 0 /\ FactoryFree
    /\ flushes < MaxFlushes
    /\ flushes' = flushes + 1
    /\ BeginSave(current, objects)
    /\ IF objects[current].dirty THEN flushing' = current /\ UNCHANGED current
       ELSE current' = 0 /\ UNCHANGED flushing
    /\ UNCHANGED <<reloading, workers, sets, edits, latest, outlived, overtaken>>

(* What a file has replaces what there is, key by key; a key that is not   *)
(* in the file stays.                                                      *)
Merged(content, settings) ==
    [k \in Keys |-> IF content[k] # None THEN Trim(content[k]) ELSE settings[k]]

(* reloadSettings(), to where it has read the file.  With no object to     *)
(* merge into there is nothing to wait for.                                *)
ReloadSettings ==
    /\ FactoryFree
    /\ file # Absent
    /\ flushes < MaxFlushes
    /\ flushes' = flushes + 1
    /\ \/ /\ current = 0
          /\ Load(file)
          /\ current' = Len(objects')
          /\ latest' = Merged(file, latest)
          /\ UNCHANGED reloading
       \/ /\ current # 0
          /\ reloading' = file
          /\ UNCHANGED <<objects, current, latest>>
    /\ UNCHANGED <<file, tmp, flushing, workers, sets, edits, faults, mishaps>>

(* Slip: keys that are not in the file, perhaps not saved yet, go. *)
MutantReloadMerge ==
    /\ reloading # Absent
    /\ objects[current].step = "idle"
    /\ objects' = [objects EXCEPT ![current].settings = Read(reloading)]
    /\ latest' = Merged(reloading, latest)
    /\ overtaken' = (overtaken \/ file # reloading)
    /\ reloading' = Absent
    /\ UNCHANGED <<file, tmp, current, flushing, workers, bounds, outlived, unwritten>>

(* The rest of it, under the object's lock as well; dirty_ stays. *)
ReloadMerge ==
    /\ reloading # Absent
    /\ objects[current].step = "idle"
    /\ objects' = [objects EXCEPT ![current].settings = Merged(reloading, @)]
    /\ latest' = Merged(reloading, latest)
    /\ overtaken' = (overtaken \/ file # reloading)
    /\ reloading' = Absent
    /\ UNCHANGED <<file, tmp, current, flushing, workers, bounds, outlived, unwritten>>

(* The operator edits the file. *)
EditFile(k, v) ==
    /\ file # Absent
    /\ edits < MaxEdits
    /\ edits' = edits + 1
    /\ file' = [file EXCEPT ![k] = v]
    /\ UNCHANGED <<tmp, objects, current, flushing, reloading, workers, sets, flushes, faults,
                   latest, mishaps>>

(* The daemon crashes, or is stopped, and starts again. *)
Crash ==
    /\ faults < MaxFaults
    /\ faults' = faults + 1
    /\ Started(objects', current')
    /\ flushing' = 0 /\ reloading' = Absent
    /\ workers' = [w \in Workers |-> None]
    /\ UNCHANGED <<file, tmp, sets, flushes, edits, latest, mishaps>>

Saving == \E o \in DOMAIN objects : SaveTimer(o) \/ RemoveOld(o) \/ RenameNew(o) \/ SaveThrows(o)

Next ==
    \/ \E w \in Workers :
        \/ \E allowCreate \in BOOLEAN : Open(w, allowCreate)
        \/ \E k \in Keys, v \in Values \cup {None} : Set(w, k, v)
        \/ Get(w)
    \/ Saving
    \/ Flush
    \/ ReloadSettings \/ ReloadMerge
    \/ \E k \in Keys, v \in Values : EditFile(k, v)
    \/ Crash

Spec == Init /\ [][Next]_vars

FairSpec == Spec /\ WF_vars(Saving)

-----------------------------------------------------------------------------
(* Properties *)

TypeOK ==
    /\ file \in Contents \cup {Absent} /\ tmp \in Contents \cup {Absent}
    /\ objects \in Seq(Objects)
    /\ current \in 0 .. Len(objects) /\ flushing \in {0, current}
    /\ workers \in [Workers -> DOMAIN objects \cup {None}]
    /\ sets \in Nat /\ flushes \in Nat /\ edits \in Nat /\ faults \in Nat
    /\ reloading \in Contents \cup {Absent} /\ latest \in Contents
    /\ outlived \in BOOLEAN /\ overtaken \in BOOLEAN /\ unwritten \in BOOLEAN

AtRest == \A o \in DOMAIN objects : objects[o].step = "idle" /\ ~ objects[o].touched

(* Once nothing waits to be saved, the file holds the latest value of      *)
(* every key, through any number of timers, flushes and reloads, in the    *)
(* words trim() reads from it.  Excepted: a file the operator edited, a    *)
(* fault, a set on an object that a flush had dropped meanwhile, and a     *)
(* reload that merged what it had read before a save replaced the file.    *)
SettledExact ==
    AtRest /\ edits = 0 /\ faults = 0 /\ ~ outlived /\ ~ overtaken =>
        Read(IF file = Absent THEN Empty ELSE file) = latest

(* Whatever crashes, is flushed or reloaded, and whichever remove() fails: *)
(* while the file is missing between remove() and rename(), or after a     *)
(* crash there, a copy is beside it; and what rename() is about to make    *)
(* the file is what the object has, whoever sets or reloads it meanwhile.  *)
(* Excepted: the writing of a copy failed, which save() does not notice    *)
(* before it removes the old file; and a worker set an object that a flush *)
(* had dropped, so that two objects save through the same copy.            *)
FileOrCopy ==
    ~ outlived /\ ~ unwritten =>
        /\ file = Absent /\ sets > 0 => tmp # Absent
        /\ \A o \in DOMAIN objects : objects[o].step = "removed" => tmp = objects[o].settings

(* What was set is saved in the end: there is always a timer to come for   *)
(* it.  Excepted: a fault, and a worker that set an object a flush had     *)
(* dropped; the rename() of one of the two objects then throws, which      *)
(* leaves saveQueued_ set with no timer to come.                           *)
SavedInTheEnd == ~ AtRest ~> (AtRest \/ faults > 0 \/ outlived)

(* "Only re-write if dirty": save() writes the file only if something was  *)
(* set since the file was read, so that a file edited on the disk can be   *)
(* loaded with a flush.                                                    *)
OnlyDirtyWritten == \A o \in DOMAIN objects : objects[o].step # "idle" => objects[o].touched

=============================================================================
