------------------------------- MODULE AllKeys -------------------------------
(***************************************************************************)
(* daemon/AllKeys.cpp: the lock-free list of counter names.  Threads of    *)
(* the io_service call add() when a counter is created and match() when a  *)
(* listing is asked for; the refresh strand calls exchange() with a list   *)
(* it has built, and then frees the list it got back with delete_all().    *)
(* Each step below is one access to memory the threads share.              *)
(*                                                                         *)
(* A record of Recs carries one name; a record is never reused.  The list  *)
(* that exchange() brings in holds the single record WaRec.                *)
(***************************************************************************)
EXTENDS Naturals

CONSTANTS
    Keys,           \* counter names
    Adders,         \* threads that call add()
    Matchers,       \* threads that call match()
    NumRecs,        \* bound: records add() can allocate
    MaxMatches,     \* bound: calls of match()
    MaxExchanges    \* bound: calls of exchange(), at most one per model run

ASSUME AllKeysAssumption ==
    /\ 0 \notin Keys /\ 0 \notin Matchers
    /\ NumRecs \in Nat /\ MaxMatches \in Nat
    /\ MaxExchanges \in {0, 1}

Nil == 0

WaRec == NumRecs + 1

Recs == 1 .. WaRec

VARIABLES
    head,           \* head_
    next,           \* Rec::next
    data,           \* Rec::data.name
    dirty,          \* dirty_
    toMatch,        \* toMatch_.ctrs
    freed,          \* records delete_all() has deleted
    adder,          \* per adder: program counter and its record
    settled,        \* records of the list whose add() or exchange() has returned
    lock,           \* holder of lock_, or Nil
    matcher,        \* per matcher: program counter, cursor, what it rebuilt or must see
    matches,        \* calls of match() so far
    xpc, oldHead    \* exchange(): program counter and its local variable

listVars == <<head, next, data, freed>>
matchVars == <<toMatch, lock, matcher, matches>>
vars == <<head, next, data, dirty, toMatch, freed, adder, settled, lock, matcher, matches, xpc,
          oldHead>>

(* A set with r that the pointers nx do not leave.                         *)
Closed(nx, r, S) ==
    /\ r # Nil => r \in S
    /\ \A s \in S : nx[s] # Nil => nx[s] \in S

(* The list from r on: what every such set has.                            *)
ListFrom(nx, r) == {s \in Recs : \A S \in SUBSET Recs : Closed(nx, r, S) => s \in S}

Chain(r) == ListFrom(next, r)

Contents == {data[r] : r \in Chain(head)}

-----------------------------------------------------------------------------
(* dirty_ is not initialised by the constructor: either value.             *)
Init ==
    /\ head = Nil
    /\ next = [r \in Recs |-> Nil]
    /\ \E k \in Keys : data = [r \in Recs |-> IF r = WaRec THEN k ELSE Nil]
    /\ dirty \in BOOLEAN
    /\ toMatch = {}
    /\ freed = {}
    /\ adder = [a \in Adders |-> [pc |-> "idle", rec |-> Nil]]
    /\ settled = {}
    /\ lock = Nil
    /\ matcher = [m \in Matchers |-> [pc |-> "idle", rebuilt |-> FALSE, cur |-> Nil, due |-> {}, got |-> {}]]
    /\ matches = 0
    /\ xpc = "idle"
    /\ oldHead = Nil

(* add(): dirty_ is set before the record exists.                          *)
AddBegin(a, k) ==
    /\ adder[a].pc = "idle"
    /\ \E r \in 1 .. NumRecs : data[r] = Nil
    /\ LET r == CHOOSE r \in 1 .. NumRecs : data[r] = Nil
       IN  /\ data' = [data EXCEPT ![r] = k]
           /\ adder' = [adder EXCEPT ![a] = [pc |-> "read", rec |-> r]]
    /\ dirty' = TRUE
    /\ UNCHANGED <<head, next, freed, settled, xpc, oldHead, matchVars>>

(* r->next = head_                                                         *)
AddRead(a) ==
    /\ adder[a].pc = "read"
    /\ next' = [next EXCEPT ![adder[a].rec] = head]
    /\ adder' = [adder EXCEPT ![a].pc = "cas"]
    /\ UNCHANGED <<head, data, dirty, freed, settled, xpc, oldHead, matchVars>>

(* Slip: a plain store of head_.                                           *)
AddCasBlind(a) ==
    /\ adder[a].pc = "cas"
    /\ head' = adder[a].rec
    /\ settled' = settled \union {adder[a].rec}
    /\ adder' = [adder EXCEPT ![a] = [pc |-> "idle", rec |-> Nil]]
    /\ UNCHANGED <<next, data, dirty, freed, xpc, oldHead, matchVars>>

(* The compare-and-exchange of add(): returns, or loops to read again.     *)
AddCas(a) ==
    LET r == adder[a].rec
    IN  /\ adder[a].pc = "cas"
        /\ IF head = next[r]
           THEN /\ head' = r
                /\ settled' = settled \union {r}
                /\ adder' = [adder EXCEPT ![a] = [pc |-> "idle", rec |-> Nil]]
           ELSE /\ adder' = [adder EXCEPT ![a].pc = "read"]
                /\ UNCHANGED <<head, settled>>
        /\ UNCHANGED <<next, data, dirty, freed, xpc, oldHead, matchVars>>

-----------------------------------------------------------------------------
(* match() under lock_: rebuild toMatch_ if dirty_, then extract.          *)

MatchBegin(m) ==
    /\ matcher[m].pc = "idle" /\ matches < MaxMatches
    /\ lock = Nil
    /\ lock' = m
    /\ matches' = matches + 1
    /\ dirty' = FALSE
    /\ matcher' = [matcher EXCEPT ![m] =
          [pc |-> IF dirty THEN "head" ELSE "extract", rebuilt |-> dirty, cur |-> Nil,
           due |-> {data[r] : r \in settled}, got |-> {}]]
    /\ UNCHANGED <<listVars, toMatch, adder, settled, xpc, oldHead>>

MatchHead(m) ==
    /\ matcher[m].pc = "head"
    /\ matcher' = [matcher EXCEPT ![m].pc = "visit", ![m].cur = head]
    /\ UNCHANGED <<listVars, dirty, toMatch, lock, matches, adder, settled, xpc, oldHead>>

(* One turn of foreach(): t(r->data); r = r->next.                         *)
MatchVisit(m) ==
    LET r == matcher[m].cur
    IN  /\ matcher[m].pc = "visit"
        /\ IF r = Nil
           THEN /\ matcher' = [matcher EXCEPT ![m].pc = "extract"]
                /\ UNCHANGED toMatch
           ELSE /\ matcher' = [matcher EXCEPT ![m].cur = next[r]]
                /\ toMatch' = toMatch \union {data[r]}
        /\ UNCHANGED <<listVars, dirty, lock, matches, adder, settled, xpc, oldHead>>

MatchExtract(m) ==
    /\ matcher[m].pc = "extract"
    /\ matcher' = [matcher EXCEPT ![m].pc = "idle", ![m].got = toMatch]
    /\ lock' = Nil
    /\ UNCHANGED <<listVars, dirty, toMatch, matches, adder, settled, xpc, oldHead>>

-----------------------------------------------------------------------------
(* exchange(keysWA_) and keysWA_.delete_all(), on the refresh strand.      *)

ExchangeRead ==
    /\ xpc = "idle" /\ MaxExchanges = 1
    /\ oldHead' = head
    /\ xpc' = "dirty"
    /\ UNCHANGED <<listVars, dirty, adder, settled, matchVars>>

ExchangeDirty ==
    /\ xpc = "dirty"
    /\ dirty' = TRUE
    /\ xpc' = "cas"
    /\ UNCHANGED <<listVars, adder, settled, matchVars, oldHead>>

(* The compare-and-exchange.  When it fails the loop tries it again with   *)
(* the same old_head, which changes nothing.                               *)
ExchangeCas ==
    /\ xpc = "cas"
    /\ head = oldHead
    /\ head' = WaRec
    /\ settled' = {}
    /\ xpc' = "clear"
    /\ UNCHANGED <<next, data, freed, dirty, adder, matchVars, oldHead>>

ExchangeClear ==
    /\ xpc = "clear"
    /\ toMatch' = {}
    /\ settled' = settled \union {WaRec}
    /\ xpc' = "free"
    /\ UNCHANGED <<listVars, dirty, adder, lock, matcher, matches, oldHead>>

DeleteAll ==
    /\ xpc = "free"
    /\ freed' = freed \union Chain(oldHead)
    /\ xpc' = "done"
    /\ UNCHANGED <<head, next, data, dirty, adder, settled, matchVars, oldHead>>

ExchangeStep == ExchangeRead \/ ExchangeDirty \/ ExchangeCas \/ ExchangeClear \/ DeleteAll

AddStep(a) == AddRead(a) \/ AddCas(a)

MatchStep(m) == MatchHead(m) \/ MatchVisit(m) \/ MatchExtract(m)

Next ==
    \/ \E a \in Adders : AddStep(a) \/ \E k \in Keys : AddBegin(a, k)
    \/ \E m \in Matchers : MatchBegin(m) \/ MatchStep(m)
    \/ ExchangeStep

(* A thread inside one of the functions keeps running; nobody has to call  *)
(* them.                                                                   *)
Fairness ==
    /\ \A a \in Adders : WF_vars(AddStep(a))
    /\ \A m \in Matchers : WF_vars(MatchStep(m))
    /\ WF_vars(xpc # "idle" /\ ExchangeStep)

Spec == Init /\ [][Next]_vars /\ Fairness

-----------------------------------------------------------------------------
TypeOK ==
    /\ head \in Recs \union {Nil} /\ oldHead \in Recs \union {Nil}
    /\ next \in [Recs -> Recs \union {Nil}]
    /\ data \in [Recs -> Keys \union {Nil}]
    /\ dirty \in BOOLEAN
    /\ toMatch \subseteq Keys
    /\ freed \subseteq Recs /\ settled \subseteq Recs
    /\ lock \in Matchers \union {Nil}
    /\ adder \in [Adders -> [pc : {"idle", "read", "cas"}, rec : 0 .. NumRecs]]
    /\ matcher \in [Matchers -> [pc : {"idle", "head", "visit", "extract"}, rebuilt : BOOLEAN,
                                 cur : Recs \union {Nil}, due : SUBSET Keys, got : SUBSET Keys]]
    /\ matches \in Nat
    /\ xpc \in {"idle", "dirty", "cas", "clear", "free", "done"}

(* A match() that found dirty_ set has, by the time it extracts, every     *)
(* name whose add() returned before the match began, however many pushes   *)
(* raced with it, as long as no exchange() interferes.                     *)
RebuildComplete ==
    \A m \in Matchers :
        matcher[m].pc = "extract" /\ matcher[m].rebuilt /\ xpc = "idle" =>
            matcher[m].due \subseteq toMatch

(* The list behind head_ is a set that add() grows by one name and         *)
(* exchange() replaces once, each at a single instant.                     *)
K == INSTANCE KeySet WITH contents <- Contents,
                          epoch <- IF xpc \in {"clear", "free", "done"} THEN 1 ELSE 0
ImplementsKeySet == K!Spec

(* AllKeys.h:76-78 says an iteration risks "missing any new record created *)
(* while iterating", no other: a finished match() has returned every name  *)
(* that was in the list before it began.                                   *)
MatchSeesAdded ==
    \A m \in Matchers : matcher[m].pc = "idle" => matcher[m].due \subseteq matcher[m].got

(* StatStore.cpp:28 relies on a queued refresh catching the changes made:  *)
(* the exchange() at its end must return.                                  *)
ExchangeReturns == xpc = "dirty" ~> xpc = "done"

=============================================================================
